---- MODULE Spec2Model ----
(***************************************************************************)
(* Lexer, recursive-descent parser, comment attachment and the two source  *)
(* formatters of mesonbuild (mparser.py, ast/formatter.py,                 *)
(* ast/formatter2.py).                                                     *)
(*                                                                         *)
(* A text is a sequence of characters, a character is a one-character      *)
(* string.  Offsets are 0-based as in Python; At(c, p) reads offset p.     *)
(***************************************************************************)
EXTENDS Integers, Sequences, FiniteSets, TLC

NL == "\n"
BSL == "\\"
QUOTE == "'"
TAB == "\t"
None == "None"

Lower == {"a","b","c","d","e","f","g","h","i","j","k","l","m","n","o","p","q","r","s","t","u","v","w","x","y","z"}
Upper == {"A","B","C","D","E","F","G","H","I","J","K","L","M","N","O","P","Q","R","S","T","U","V","W","X","Y","Z"}
Digit == {"0","1","2","3","4","5","6","7","8","9"}
OctDigit == {"0","1","2","3","4","5","6","7"}
HexDigit == Digit \cup {"a","b","c","d","e","f","A","B","C","D","E","F"}
IdStart == Lower \cup Upper \cup {"_"}
IdChar == IdStart \cup Digit

\* the character with code point n: itself when it is a printable ASCII
\* character, a newline or a tab, and the name chr<n> otherwise (also for
\* the grave accent, which a string of this language cannot hold)
Chr(n) ==
  LET printable ==
      << " ", "!", "\"", "#", "$", "%", "&", "'", "(", ")", "*", "+", ",",
         "-", ".", "/", "0", "1", "2", "3", "4", "5", "6", "7", "8", "9",
         ":", ";", "<", "=", ">", "?", "@", "A", "B", "C", "D", "E", "F",
         "G", "H", "I", "J", "K", "L", "M", "N", "O", "P", "Q", "R", "S",
         "T", "U", "V", "W", "X", "Y", "Z", "[", "\\", "]", "^", "_", "chr96",
         "a", "b", "c", "d", "e", "f", "g", "h", "i", "j", "k", "l", "m",
         "n", "o", "p", "q", "r", "s", "t", "u", "v", "w", "x", "y", "z",
         "{", "|", "}", "~" >>
  IN IF n >= 32 /\ n <= 126 THEN printable[n - 31]
     ELSE IF n = 10 THEN NL
     ELSE IF n = 9 THEN TAB
     ELSE "chr" \o ToString(n)

\* the characters the class \d of a str pattern matches and int() reads as
\* digits: the decimal digits of Unicode, which come in runs of ten from
\* zero to nine; UnicodeDecimal[b, d] is the digit d of the run that
\* starts at code point b
UnicodeDecimal ==
  [b \in {48, 1632, 1776, 1984, 2406, 2534, 2662, 2790, 2918, 3046, 3174,
        3302, 3430, 3558, 3664, 3792, 3872, 4160, 4240, 6112, 6160, 6470,
        6608, 6784, 6800, 6992, 7088, 7232, 7248, 42528, 43216, 43264,
        43472, 43504, 43600, 44016, 65296, 66720, 68912, 69734, 69872,
        69942, 70096, 70384, 70736, 70864, 71248, 71360, 71472, 71904,
        72016, 72784, 73040, 73120, 92768, 92864, 93008, 120782, 120792,
        120802, 120812, 120822, 123200, 123632, 125264, 130032},
   d \in 0..9 |-> Chr(b + d)]

\* the set of these digits
DecimalDigits == {UnicodeDecimal[x] : x \in DOMAIN UnicodeDecimal}

(***************************************************************************)
(* Python string primitives                                                *)
(***************************************************************************)
At(c, p) == IF p >= 0 /\ p < Len(c) THEN c[p + 1] ELSE ""

\* c[a:b] with Python's treatment of negative and out-of-range bounds
PySlice(c, a, b) ==
  LET n == Len(c)
      lo0 == IF a < 0 THEN a + n ELSE a
      hi0 == IF b < 0 THEN b + n ELSE b
      lo == IF lo0 < 0 THEN 0 ELSE IF lo0 > n THEN n ELSE lo0
      hi == IF hi0 < 0 THEN 0 ELSE IF hi0 > n THEN n ELSE hi0
  IN IF lo >= hi THEN << >> ELSE SubSeq(c, lo + 1, hi)

\* the least element of a non-empty set of integers
MinOf(S) == CHOOSE i \in S : \A j \in S : i <= j

\* c.find(ch, from): offset of the first ch at or after from, -1 if none
PyFind(c, ch, from) ==
  LET S == {i \in from..(Len(c) - 1) : c[i + 1] = ch}
  IN IF S = {} THEN -1 ELSE MinOf(S)

\* offset of the last ch of c, which holds one
LastFind(c, ch) ==
  CHOOSE k \in 0..(Len(c) - 1) :
    /\ c[k + 1] = ch
    /\ \A j \in (k + 1)..(Len(c) - 1) : c[j + 1] # ch

\* does the literal lit stand at offset p of c
StartsWith(c, lit, p) ==
  /\ p + Len(lit) <= Len(c)
  /\ \A i \in 1..Len(lit) : c[p + i] = lit[i]

\* offset of the first occurrence of lit at or after p, -1 if none
FindSeq(c, lit, p) ==
  LET S == {i \in p..(Len(c) - Len(lit)) : StartsWith(c, lit, i)}
  IN IF S = {} THEN -1 ELSE MinOf(S)

\* number of occurrences of ch in c
CountChar(c, ch) == Cardinality({i \in 1..Len(c) : c[i] = ch})

\* end of the longest run of characters of class cls starting at p
SpanClass(c, cls, p) ==
  MinOf({i \in p..Len(c) : i = Len(c) \/ c[i + 1] \notin cls})

\* the characters str.strip() removes, those for which str.isspace() holds,
\* by their code points
Whitespace ==
  {Chr(n) : n \in (9..13) \cup (28..32) \cup {133, 160, 5760}
                    \cup (8192..8202) \cup {8232, 8233, 8239, 8287, 12288}}
    \cup {"\r", "\f"}

\* all characters of c blank: str.strip() == ''
IsBlank(c) == \A i \in 1..Len(c) : c[i] \in Whitespace

(***************************************************************************)
(* Lexer                                                                   *)
(***************************************************************************)
keywords == { <<"t","r","u","e">>, <<"f","a","l","s","e">>, <<"i","f">>,
              <<"e","l","s","e">>, <<"e","l","i","f">>, <<"e","n","d","i","f">>,
              <<"a","n","d">>, <<"o","r">>, <<"n","o","t">>,
              <<"f","o","r","e","a","c","h">>,
              <<"e","n","d","f","o","r","e","a","c","h">>, <<"i","n">>,
              <<"c","o","n","t","i","n","u","e">>, <<"b","r","e","a","k">> }

future_keywords == { <<"r","e","t","u","r","n">> }

\* the token id a keyword text is promoted to
KeywordTid(t) ==
  CASE t = <<"t","r","u","e">> -> "true"
    [] t = <<"f","a","l","s","e">> -> "false"
    [] t = <<"i","f">> -> "if"
    [] t = <<"e","l","s","e">> -> "else"
    [] t = <<"e","l","i","f">> -> "elif"
    [] t = <<"e","n","d","i","f">> -> "endif"
    [] t = <<"a","n","d">> -> "and"
    [] t = <<"o","r">> -> "or"
    [] t = <<"n","o","t">> -> "not"
    [] t = <<"f","o","r","e","a","c","h">> -> "foreach"
    [] t = <<"e","n","d","f","o","r","e","a","c","h">> -> "endforeach"
    [] t = <<"i","n">> -> "in"
    [] t = <<"c","o","n","t","i","n","u","e">> -> "continue"
    [] t = <<"b","r","e","a","k">> -> "break"

\* the patterns in the order the lexer tries them
token_specification ==
  << "ignore", "multiline_fstring", "fstring", "id", "number", "eol_cont",
     "eol", "multiline_string", "comment", "lparen", "rparen", "lbracket",
     "rbracket", "lcurl", "rcurl", "dblquote", "string", "comma",
     "plusassign", "dot", "plus", "dash", "star", "percent", "fslash",
     "colon", "equal", "nequal", "assign", "le", "lt", "ge", "gt",
     "questionmark" >>

\* the fixed text of the punctuation and operator patterns
TokenLiteral(tid) ==
  CASE tid = "eol_cont" -> <<BSL, NL>>
    [] tid = "eol" -> <<NL>>
    [] tid = "lparen" -> <<"(">>
    [] tid = "rparen" -> <<")">>
    [] tid = "lbracket" -> <<"[">>
    [] tid = "rbracket" -> <<"]">>
    [] tid = "lcurl" -> <<"{">>
    [] tid = "rcurl" -> <<"}">>
    [] tid = "dblquote" -> <<"\"">>
    [] tid = "comma" -> <<",">>
    [] tid = "plusassign" -> <<"+", "=">>
    [] tid = "dot" -> <<".">>
    [] tid = "plus" -> <<"+">>
    [] tid = "dash" -> <<"-">>
    [] tid = "star" -> <<"*">>
    [] tid = "percent" -> <<"%">>
    [] tid = "fslash" -> <<"/">>
    [] tid = "colon" -> <<":">>
    [] tid = "equal" -> <<"=", "=">>
    [] tid = "nequal" -> <<"!", "=">>
    [] tid = "assign" -> <<"=">>
    [] tid = "le" -> <<"<", "=">>
    [] tid = "lt" -> <<"<">>
    [] tid = "ge" -> <<">", "=">>
    [] tid = "gt" -> <<">">>
    [] tid = "questionmark" -> <<"?">>

\* is the character at offset i taken by an escape \. that starts before it:
\* it follows an odd run of backslashes that begins at or after offset q
EscapedAt(c, q, i) ==
  LET run == i - MinOf({j \in q..i : \A k \in j..(i - 1) : c[k + 1] = BSL})
  IN run % 2 = 1

\* '([^'\\]|(\\.))*' from the offset q just after the opening quote:
\* the offset after the closing quote, -1 if the pattern does not match
\* (no closing quote, or an escape \. whose . would be a newline, before it)
StringBody(c, q) ==
  LET closing == {i \in q..(Len(c) - 1) : c[i + 1] = QUOTE /\ ~EscapedAt(c, q, i)}
      e == MinOf(closing)
  IN IF closing = {} THEN -1
     ELSE IF \E j \in q..(e - 1) : c[j + 1] = BSL /\ ~EscapedAt(c, q, j) /\ c[j + 2] = NL
       THEN -1
     ELSE e + 1

\* 0[bB][01]+|0[oO][0-7]+|0[xX][0-9a-fA-F]+|0|[1-9]\d* : first alternative wins
NumberEnd(c, p) ==
  IF At(c, p) = "0" /\ At(c, p + 1) \in {"b", "B"} /\ At(c, p + 2) \in {"0", "1"}
    THEN SpanClass(c, {"0", "1"}, p + 2)
  ELSE IF At(c, p) = "0" /\ At(c, p + 1) \in {"o", "O"} /\ At(c, p + 2) \in OctDigit
    THEN SpanClass(c, OctDigit, p + 2)
  ELSE IF At(c, p) = "0" /\ At(c, p + 1) \in {"x", "X"} /\ At(c, p + 2) \in HexDigit
    THEN SpanClass(c, HexDigit, p + 2)
  ELSE IF At(c, p) = "0" THEN p + 1
  ELSE IF At(c, p) \in Digit
    THEN SpanClass(c, DecimalDigits, p + 1)
  ELSE -1

\* reg.match(code, p) for the pattern named tid: the end offset, -1 if no match
MatchEnd(tid, c, p) ==
  CASE tid = "ignore" -> IF At(c, p) \in {" ", TAB} THEN p + 1 ELSE -1
    [] tid = "multiline_fstring" ->
         IF StartsWith(c, <<"f", QUOTE, QUOTE, QUOTE>>, p)
           THEN LET e == FindSeq(c, <<QUOTE, QUOTE, QUOTE>>, p + 4)
                IN IF e = -1 THEN -1 ELSE e + 3
           ELSE -1
    [] tid = "fstring" ->
         IF StartsWith(c, <<"f", QUOTE>>, p) THEN StringBody(c, p + 2) ELSE -1
    [] tid = "id" ->
         IF At(c, p) \in IdStart THEN SpanClass(c, IdChar, p + 1) ELSE -1
    [] tid = "number" -> NumberEnd(c, p)
    [] tid = "multiline_string" ->
         IF StartsWith(c, <<QUOTE, QUOTE, QUOTE>>, p)
           THEN LET e == FindSeq(c, <<QUOTE, QUOTE, QUOTE>>, p + 3)
                IN IF e = -1 THEN -1 ELSE e + 3
           ELSE -1
    [] tid = "comment" ->
         IF At(c, p) = "#"
           THEN LET e == PyFind(c, NL, p) IN IF e = -1 THEN Len(c) ELSE e
           ELSE -1
    [] tid = "string" ->
         IF At(c, p) = QUOTE THEN StringBody(c, p + 1) ELSE -1
    [] OTHER ->
         IF StartsWith(c, TokenLiteral(tid), p) THEN p + Len(TokenLiteral(tid)) ELSE -1

\* index in token_specification of the first pattern matching at p, 0 if none
FirstMatch(c, p) ==
  LET S == {i \in 1..Len(token_specification) : MatchEnd(token_specification[i], c, p) # -1}
  IN IF S = {} THEN 0 ELSE MinOf(S)

DigitVal(ch) ==
  CASE ch = "0" -> 0 [] ch = "1" -> 1 [] ch = "2" -> 2 [] ch = "3" -> 3
    [] ch = "4" -> 4 [] ch = "5" -> 5 [] ch = "6" -> 6 [] ch = "7" -> 7
    [] ch = "8" -> 8 [] ch = "9" -> 9
    [] ch \in {"a", "A"} -> 10 [] ch \in {"b", "B"} -> 11
    [] ch \in {"c", "C"} -> 12 [] ch \in {"d", "D"} -> 13
    [] ch \in {"e", "E"} -> 14 [] ch \in {"f", "F"} -> 15
    [] OTHER -> CHOOSE d \in 0..9 : \E x \in DOMAIN UnicodeDecimal :
                                      x[2] = d /\ UnicodeDecimal[x] = ch

\* value of the digit string t in the given base
RECURSIVE DigitsVal(_, _, _)
DigitsVal(t, base, acc) ==
  IF t = << >> THEN acc
  ELSE DigitsVal(Tail(t), base, acc * base + DigitVal(Head(t)))

\* int(match_text, base=0)
IntBase0(t) ==
  IF Len(t) >= 2 /\ t[2] \in {"b", "B"} THEN DigitsVal(SubSeq(t, 3, Len(t)), 2, 0)
  ELSE IF Len(t) >= 2 /\ t[2] \in {"o", "O"} THEN DigitsVal(SubSeq(t, 3, Len(t)), 8, 0)
  ELSE IF Len(t) >= 2 /\ t[2] \in {"x", "X"} THEN DigitsVal(SubSeq(t, 3, Len(t)), 16, 0)
  ELSE DigitsVal(t, 10, 0)

\* codecs.decode of a single-character escape \c
SingleEscape(ch) ==
  CASE ch = BSL -> BSL [] ch = QUOTE -> QUOTE
    [] ch = "a" -> Chr(7) [] ch = "b" -> Chr(8) [] ch = "f" -> Chr(12)
    [] ch = "n" -> NL [] ch = "r" -> Chr(13) [] ch = "t" -> TAB
    [] ch = "v" -> Chr(11)

\* end offset of the 1 to 3 octal digits starting at p
OctEnd(v, p) ==
  IF At(v, p + 1) \notin OctDigit THEN p + 1
  ELSE IF At(v, p + 2) \notin OctDigit THEN p + 2
  ELSE p + 3

NoErr == [kind |-> "none"]

\* the character names codecs.decode(..., 'unicode_escape') looks up in a
\* table, each with its code point: the names and the name aliases of the
\* Unicode character database 14.0.0 (Python 3.11), those of the CJK
\* unified ideographs and of the Hangul syllables excepted, which are
\* computed
UnicodeNames ==
  { <<"NUL", 0>>, <<"NULL", 0>>, <<"SOH", 1>>, <<"START OF HEADING", 1>>, <<"START OF TEXT", 2>>,
    <<"STX", 2>>, <<"END OF TEXT", 3>>, <<"ETX", 3>>, <<"END OF TRANSMISSION", 4>>, <<"EOT", 4>>,
    <<"ENQ", 5>>, <<"ENQUIRY", 5>>, <<"ACK", 6>>, <<"ACKNOWLEDGE", 6>>, <<"ALERT", 7>>, <<"BEL", 7>>,
    <<"BACKSPACE", 8>>, <<"BS", 8>>, <<"CHARACTER TABULATION", 9>>, <<"HORIZONTAL TABULATION", 9>>,
    <<"HT", 9>>, <<"TAB", 9>>, <<"END OF LINE", 10>>, <<"EOL", 10>>, <<"LF", 10>>, <<"LINE FEED", 10>>,
    <<"NEW LINE", 10>>, <<"NL", 10>>, <<"LINE TABULATION", 11>>, <<"VERTICAL TABULATION", 11>>,
    <<"VT", 11>>, <<"FF", 12>>, <<"FORM FEED", 12>>, <<"CARRIAGE RETURN", 13>>, <<"CR", 13>>,
    <<"LOCKING-SHIFT ONE", 14>>, <<"SHIFT OUT", 14>>, <<"SO", 14>>, <<"LOCKING-SHIFT ZERO", 15>>,
    <<"SHIFT IN", 15>>, <<"SI", 15>>, <<"DATA LINK ESCAPE", 16>>, <<"DLE", 16>>, <<"DC1", 17>>,
    <<"DEVICE CONTROL ONE", 17>>, <<"DC2", 18>>, <<"DEVICE CONTROL TWO", 18>>, <<"DC3", 19>>,
    <<"DEVICE CONTROL THREE", 19>>, <<"DC4", 20>>, <<"DEVICE CONTROL FOUR", 20>>, <<"NAK", 21>>,
    <<"NEGATIVE ACKNOWLEDGE", 21>>, <<"SYN", 22>>, <<"SYNCHRONOUS IDLE", 22>>,
    <<"END OF TRANSMISSION BLOCK", 23>>, <<"ETB", 23>>, <<"CAN", 24>>, <<"CANCEL", 24>>,
    <<"END OF MEDIUM", 25>>, <<"EOM", 25>>, <<"SUB", 26>>, <<"SUBSTITUTE", 26>>, <<"ESC", 27>>,
    <<"ESCAPE", 27>>, <<"FILE SEPARATOR", 28>>, <<"FS", 28>>, <<"INFORMATION SEPARATOR FOUR", 28>>,
    <<"GROUP SEPARATOR", 29>>, <<"GS", 29>>, <<"INFORMATION SEPARATOR THREE", 29>>,
    <<"INFORMATION SEPARATOR TWO", 30>>, <<"RECORD SEPARATOR", 30>>, <<"RS", 30>>,
    <<"INFORMATION SEPARATOR ONE", 31>>, <<"UNIT SEPARATOR", 31>>, <<"US", 31>>, <<"SP", 32>>,
    <<"SPACE", 32>>, <<"EXCLAMATION MARK", 33>>, <<"QUOTATION MARK", 34>>, <<"NUMBER SIGN", 35>>,
    <<"DOLLAR SIGN", 36>>, <<"PERCENT SIGN", 37>>, <<"AMPERSAND", 38>>, <<"APOSTROPHE", 39>>,
    <<"LEFT PARENTHESIS", 40>>, <<"RIGHT PARENTHESIS", 41>>, <<"ASTERISK", 42>>, <<"PLUS SIGN", 43>>,
    <<"COMMA", 44>>, <<"HYPHEN-MINUS", 45>>, <<"FULL STOP", 46>>, <<"SOLIDUS", 47>>,
    <<"DIGIT ZERO", 48>>, <<"DIGIT ONE", 49>>, <<"DIGIT TWO", 50>>, <<"DIGIT THREE", 51>>,
    <<"DIGIT FOUR", 52>>, <<"DIGIT FIVE", 53>>, <<"DIGIT SIX", 54>>, <<"DIGIT SEVEN", 55>>,
    <<"DIGIT EIGHT", 56>>, <<"DIGIT NINE", 57>>, <<"COLON", 58>>, <<"SEMICOLON", 59>>,
    <<"LESS-THAN SIGN", 60>>, <<"EQUALS SIGN", 61>>, <<"GREATER-THAN SIGN", 62>>,
    <<"QUESTION MARK", 63>>, <<"COMMERCIAL AT", 64>>, <<"LATIN CAPITAL LETTER A", 65>>,
    <<"LATIN CAPITAL LETTER B", 66>>, <<"LATIN CAPITAL LETTER C", 67>>,
    <<"LATIN CAPITAL LETTER D", 68>>, <<"LATIN CAPITAL LETTER E", 69>>,
    <<"LATIN CAPITAL LETTER F", 70>>, <<"LATIN CAPITAL LETTER G", 71>>,
    <<"LATIN CAPITAL LETTER H", 72>>, <<"LATIN CAPITAL LETTER I", 73>>,
    <<"LATIN CAPITAL LETTER J", 74>>, <<"LATIN CAPITAL LETTER K", 75>>,
    <<"LATIN CAPITAL LETTER L", 76>>, <<"LATIN CAPITAL LETTER M", 77>>,
    <<"LATIN CAPITAL LETTER N", 78>>, <<"LATIN CAPITAL LETTER O", 79>>,
    <<"LATIN CAPITAL LETTER P", 80>>, <<"LATIN CAPITAL LETTER Q", 81>>,
    <<"LATIN CAPITAL LETTER R", 82>>, <<"LATIN CAPITAL LETTER S", 83>>,
    <<"LATIN CAPITAL LETTER T", 84>>, <<"LATIN CAPITAL LETTER U", 85>>,
    <<"LATIN CAPITAL LETTER V", 86>>, <<"LATIN CAPITAL LETTER W", 87>>,
    <<"LATIN CAPITAL LETTER X", 88>>, <<"LATIN CAPITAL LETTER Y", 89>>,
    <<"LATIN CAPITAL LETTER Z", 90>>, <<"LEFT SQUARE BRACKET", 91>>, <<"REVERSE SOLIDUS", 92>>,
    <<"RIGHT SQUARE BRACKET", 93>>, <<"CIRCUMFLEX ACCENT", 94>>, <<"LOW LINE", 95>>,
    <<"GRAVE ACCENT", 96>>, <<"LATIN SMALL LETTER A", 97>>, <<"LATIN SMALL LETTER B", 98>>,
    <<"LATIN SMALL LETTER C", 99>>, <<"LATIN SMALL LETTER D", 100>>, <<"LATIN SMALL LETTER E", 101>>,
    <<"LATIN SMALL LETTER F", 102>>, <<"LATIN SMALL LETTER G", 103>>, <<"LATIN SMALL LETTER H", 104>>,
    <<"LATIN SMALL LETTER I", 105>>, <<"LATIN SMALL LETTER J", 106>>, <<"LATIN SMALL LETTER K", 107>>,
    <<"LATIN SMALL LETTER L", 108>>, <<"LATIN SMALL LETTER M", 109>>, <<"LATIN SMALL LETTER N", 110>>,
    <<"LATIN SMALL LETTER O", 111>>, <<"LATIN SMALL LETTER P", 112>>, <<"LATIN SMALL LETTER Q", 113>>,
    <<"LATIN SMALL LETTER R", 114>>, <<"LATIN SMALL LETTER S", 115>>, <<"LATIN SMALL LETTER T", 116>>,
    <<"LATIN SMALL LETTER U", 117>>, <<"LATIN SMALL LETTER V", 118>>, <<"LATIN SMALL LETTER W", 119>>,
    <<"LATIN SMALL LETTER X", 120>>, <<"LATIN SMALL LETTER Y", 121>>, <<"LATIN SMALL LETTER Z", 122>>,
    <<"LEFT CURLY BRACKET", 123>>, <<"VERTICAL LINE", 124>>, <<"RIGHT CURLY BRACKET", 125>>,
    <<"TILDE", 126>>, <<"DEL", 127>>, <<"DELETE", 127>>, <<"PAD", 128>>, <<"PADDING CHARACTER", 128>>,
    <<"HIGH OCTET PRESET", 129>>, <<"HOP", 129>>, <<"BPH", 130>>, <<"BREAK PERMITTED HERE", 130>>,
    <<"NBH", 131>>, <<"NO BREAK HERE", 131>>, <<"IND", 132>>, <<"INDEX", 132>>, <<"NEL", 133>>,
    <<"NEXT LINE", 133>>, <<"SSA", 134>>, <<"START OF SELECTED AREA", 134>>,
    <<"END OF SELECTED AREA", 135>>, <<"ESA", 135>>, <<"CHARACTER TABULATION SET", 136>>,
    <<"HORIZONTAL TABULATION SET", 136>>, <<"HTS", 136>>,
    <<"CHARACTER TABULATION WITH JUSTIFICATION", 137>>,
    <<"HORIZONTAL TABULATION WITH JUSTIFICATION", 137>>, <<"HTJ", 137>>,
    <<"LINE TABULATION SET", 138>>, <<"VERTICAL TABULATION SET", 138>>, <<"VTS", 138>>,
    <<"PARTIAL LINE DOWN", 139>>, <<"PARTIAL LINE FORWARD", 139>>, <<"PLD", 139>>,
    <<"PARTIAL LINE BACKWARD", 140>>, <<"PARTIAL LINE UP", 140>>, <<"PLU", 140>>,
    <<"REVERSE INDEX", 141>>, <<"REVERSE LINE FEED", 141>>, <<"RI", 141>>, <<"SINGLE SHIFT TWO", 142>>,
    <<"SINGLE-SHIFT-2", 142>>, <<"SS2", 142>>, <<"SINGLE SHIFT THREE", 143>>,
    <<"SINGLE-SHIFT-3", 143>>, <<"SS3", 143>>, <<"DCS", 144>>, <<"DEVICE CONTROL STRING", 144>>,
    <<"PRIVATE USE ONE", 145>>, <<"PRIVATE USE-1", 145>>, <<"PU1", 145>>, <<"PRIVATE USE TWO", 146>>,
    <<"PRIVATE USE-2", 146>>, <<"PU2", 146>>, <<"SET TRANSMIT STATE", 147>>, <<"STS", 147>>,
    <<"CANCEL CHARACTER", 148>>, <<"CCH", 148>>, <<"MESSAGE WAITING", 149>>, <<"MW", 149>>,
    <<"SPA", 150>>, <<"START OF GUARDED AREA", 150>>, <<"START OF PROTECTED AREA", 150>>,
    <<"END OF GUARDED AREA", 151>>, <<"END OF PROTECTED AREA", 151>>, <<"EPA", 151>>, <<"SOS", 152>>,
    <<"START OF STRING", 152>>, <<"SGC", 153>>, <<"SINGLE GRAPHIC CHARACTER INTRODUCER", 153>>,
    <<"SCI", 154>>, <<"SINGLE CHARACTER INTRODUCER", 154>>, <<"CONTROL SEQUENCE INTRODUCER", 155>>,
    <<"CSI", 155>>, <<"ST", 156>>, <<"STRING TERMINATOR", 156>>, <<"OPERATING SYSTEM COMMAND", 157>>,
    <<"OSC", 157>>, <<"PM", 158>>, <<"PRIVACY MESSAGE", 158>>, <<"APC", 159>>,
    <<"APPLICATION PROGRAM COMMAND", 159>>, <<"NBSP", 160>>, <<"NO-BREAK SPACE", 160>>,
    <<"INVERTED EXCLAMATION MARK", 161>>, <<"CENT SIGN", 162>>, <<"POUND SIGN", 163>>,
    <<"CURRENCY SIGN", 164>>, <<"YEN SIGN", 165>>, <<"BROKEN BAR", 166>>, <<"SECTION SIGN", 167>>,
    <<"DIAERESIS", 168>>, <<"COPYRIGHT SIGN", 169>>, <<"FEMININE ORDINAL INDICATOR", 170>>,
    <<"LEFT-POINTING DOUBLE ANGLE QUOTATION MARK", 171>>, <<"NOT SIGN", 172>>, <<"SHY", 173>>,
    <<"SOFT HYPHEN", 173>>, <<"REGISTERED SIGN", 174>>, <<"MACRON", 175>>, <<"DEGREE SIGN", 176>>,
    <<"PLUS-MINUS SIGN", 177>>, <<"SUPERSCRIPT TWO", 178>>, <<"SUPERSCRIPT THREE", 179>>,
    <<"ACUTE ACCENT", 180>>, <<"MICRO SIGN", 181>>, <<"PILCROW SIGN", 182>>, <<"MIDDLE DOT", 183>>,
    <<"CEDILLA", 184>>, <<"SUPERSCRIPT ONE", 185>>, <<"MASCULINE ORDINAL INDICATOR", 186>>,
    <<"RIGHT-POINTING DOUBLE ANGLE QUOTATION MARK", 187>>, <<"VULGAR FRACTION ONE QUARTER", 188>>,
    <<"VULGAR FRACTION ONE HALF", 189>>, <<"VULGAR FRACTION THREE QUARTERS", 190>>,
    <<"INVERTED QUESTION MARK", 191>>, <<"LATIN CAPITAL LETTER A WITH GRAVE", 192>>,
    <<"LATIN CAPITAL LETTER A WITH ACUTE", 193>>, <<"LATIN CAPITAL LETTER A WITH CIRCUMFLEX", 194>>,
    <<"LATIN CAPITAL LETTER A WITH TILDE", 195>>, <<"LATIN CAPITAL LETTER A WITH DIAERESIS", 196>>,
    <<"LATIN CAPITAL LETTER A WITH RING ABOVE", 197>>, <<"LATIN CAPITAL LETTER AE", 198>>,
    <<"LATIN CAPITAL LETTER C WITH CEDILLA", 199>>, <<"LATIN CAPITAL LETTER E WITH GRAVE", 200>>,
    <<"LATIN CAPITAL LETTER E WITH ACUTE", 201>>, <<"LATIN CAPITAL LETTER E WITH CIRCUMFLEX", 202>>,
    <<"LATIN CAPITAL LETTER E WITH DIAERESIS", 203>>, <<"LATIN CAPITAL LETTER I WITH GRAVE", 204>>,
    <<"LATIN CAPITAL LETTER I WITH ACUTE", 205>>, <<"LATIN CAPITAL LETTER I WITH CIRCUMFLEX", 206>>,
    <<"LATIN CAPITAL LETTER I WITH DIAERESIS", 207>>, <<"LATIN CAPITAL LETTER ETH", 208>>,
    <<"LATIN CAPITAL LETTER N WITH TILDE", 209>>, <<"LATIN CAPITAL LETTER O WITH GRAVE", 210>>,
    <<"LATIN CAPITAL LETTER O WITH ACUTE", 211>>, <<"LATIN CAPITAL LETTER O WITH CIRCUMFLEX", 212>>,
    <<"LATIN CAPITAL LETTER O WITH TILDE", 213>>, <<"LATIN CAPITAL LETTER O WITH DIAERESIS", 214>>,
    <<"MULTIPLICATION SIGN", 215>>, <<"LATIN CAPITAL LETTER O WITH STROKE", 216>>,
    <<"LATIN CAPITAL LETTER U WITH GRAVE", 217>>, <<"LATIN CAPITAL LETTER U WITH ACUTE", 218>>,
    <<"LATIN CAPITAL LETTER U WITH CIRCUMFLEX", 219>>,
    <<"LATIN CAPITAL LETTER U WITH DIAERESIS", 220>>, <<"LATIN CAPITAL LETTER Y WITH ACUTE", 221>>,
    <<"LATIN CAPITAL LETTER THORN", 222>>, <<"LATIN SMALL LETTER SHARP S", 223>>,
    <<"LATIN SMALL LETTER A WITH GRAVE", 224>>, <<"LATIN SMALL LETTER A WITH ACUTE", 225>>,
    <<"LATIN SMALL LETTER A WITH CIRCUMFLEX", 226>>, <<"LATIN SMALL LETTER A WITH TILDE", 227>>,
    <<"LATIN SMALL LETTER A WITH DIAERESIS", 228>>, <<"LATIN SMALL LETTER A WITH RING ABOVE", 229>>,
    <<"LATIN SMALL LETTER AE", 230>>, <<"LATIN SMALL LETTER C WITH CEDILLA", 231>>,
    <<"LATIN SMALL LETTER E WITH GRAVE", 232>>, <<"LATIN SMALL LETTER E WITH ACUTE", 233>>,
    <<"LATIN SMALL LETTER E WITH CIRCUMFLEX", 234>>, <<"LATIN SMALL LETTER E WITH DIAERESIS", 235>>,
    <<"LATIN SMALL LETTER I WITH GRAVE", 236>>, <<"LATIN SMALL LETTER I WITH ACUTE", 237>>,
    <<"LATIN SMALL LETTER I WITH CIRCUMFLEX", 238>>, <<"LATIN SMALL LETTER I WITH DIAERESIS", 239>>,
    <<"LATIN SMALL LETTER ETH", 240>>, <<"LATIN SMALL LETTER N WITH TILDE", 241>>,
    <<"LATIN SMALL LETTER O WITH GRAVE", 242>>, <<"LATIN SMALL LETTER O WITH ACUTE", 243>>,
    <<"LATIN SMALL LETTER O WITH CIRCUMFLEX", 244>>, <<"LATIN SMALL LETTER O WITH TILDE", 245>>,
    <<"LATIN SMALL LETTER O WITH DIAERESIS", 246>>, <<"DIVISION SIGN", 247>>,
    <<"LATIN SMALL LETTER O WITH STROKE", 248>>, <<"LATIN SMALL LETTER U WITH GRAVE", 249>>,
    <<"LATIN SMALL LETTER U WITH ACUTE", 250>>, <<"LATIN SMALL LETTER U WITH CIRCUMFLEX", 251>>,
    <<"LATIN SMALL LETTER U WITH DIAERESIS", 252>>, <<"LATIN SMALL LETTER Y WITH ACUTE", 253>>,
    <<"LATIN SMALL LETTER THORN", 254>>, <<"LATIN SMALL LETTER Y WITH DIAERESIS", 255>>,
    <<"LATIN CAPITAL LETTER A WITH MACRON", 256>>, <<"LATIN SMALL LETTER A WITH MACRON", 257>>,
    <<"LATIN CAPITAL LETTER A WITH BREVE", 258>>, <<"LATIN SMALL LETTER A WITH BREVE", 259>>,
    <<"LATIN CAPITAL LETTER A WITH OGONEK", 260>>, <<"LATIN SMALL LETTER A WITH OGONEK", 261>>,
    <<"LATIN CAPITAL LETTER C WITH ACUTE", 262>>, <<"LATIN SMALL LETTER C WITH ACUTE", 263>>,
    <<"LATIN CAPITAL LETTER C WITH CIRCUMFLEX", 264>>, <<"LATIN SMALL LETTER C WITH CIRCUMFLEX", 265>>,
    <<"LATIN CAPITAL LETTER C WITH DOT ABOVE", 266>>, <<"LATIN SMALL LETTER C WITH DOT ABOVE", 267>>,
    <<"LATIN CAPITAL LETTER C WITH CARON", 268>>, <<"LATIN SMALL LETTER C WITH CARON", 269>>,
    <<"LATIN CAPITAL LETTER D WITH CARON", 270>>, <<"LATIN SMALL LETTER D WITH CARON", 271>>,
    <<"LATIN CAPITAL LETTER D WITH STROKE", 272>>, <<"LATIN SMALL LETTER D WITH STROKE", 273>>,
    <<"LATIN CAPITAL LETTER E WITH MACRON", 274>>, <<"LATIN SMALL LETTER E WITH MACRON", 275>>,
    <<"LATIN CAPITAL LETTER E WITH BREVE", 276>>, <<"LATIN SMALL LETTER E WITH BREVE", 277>>,
    <<"LATIN CAPITAL LETTER E WITH DOT ABOVE", 278>>, <<"LATIN SMALL LETTER E WITH DOT ABOVE", 279>>,
    <<"LATIN CAPITAL LETTER E WITH OGONEK", 280>>, <<"LATIN SMALL LETTER E WITH OGONEK", 281>>,
    <<"LATIN CAPITAL LETTER E WITH CARON", 282>>, <<"LATIN SMALL LETTER E WITH CARON", 283>>,
    <<"LATIN CAPITAL LETTER G WITH CIRCUMFLEX", 284>>, <<"LATIN SMALL LETTER G WITH CIRCUMFLEX", 285>>,
    <<"LATIN CAPITAL LETTER G WITH BREVE", 286>>, <<"LATIN SMALL LETTER G WITH BREVE", 287>>,
    <<"LATIN CAPITAL LETTER G WITH DOT ABOVE", 288>>, <<"LATIN SMALL LETTER G WITH DOT ABOVE", 289>>,
    <<"LATIN CAPITAL LETTER G WITH CEDILLA", 290>>, <<"LATIN SMALL LETTER G WITH CEDILLA", 291>>,
    <<"LATIN CAPITAL LETTER H WITH CIRCUMFLEX", 292>>, <<"LATIN SMALL LETTER H WITH CIRCUMFLEX", 293>>,
    <<"LATIN CAPITAL LETTER H WITH STROKE", 294>>, <<"LATIN SMALL LETTER H WITH STROKE", 295>>,
    <<"LATIN CAPITAL LETTER I WITH TILDE", 296>>, <<"LATIN SMALL LETTER I WITH TILDE", 297>>,
    <<"LATIN CAPITAL LETTER I WITH MACRON", 298>>, <<"LATIN SMALL LETTER I WITH MACRON", 299>>,
    <<"LATIN CAPITAL LETTER I WITH BREVE", 300>>, <<"LATIN SMALL LETTER I WITH BREVE", 301>>,
    <<"LATIN CAPITAL LETTER I WITH OGONEK", 302>>, <<"LATIN SMALL LETTER I WITH OGONEK", 303>>,
    <<"LATIN CAPITAL LETTER I WITH DOT ABOVE", 304>>, <<"LATIN SMALL LETTER DOTLESS I", 305>>,
    <<"LATIN CAPITAL LIGATURE IJ", 306>>, <<"LATIN SMALL LIGATURE IJ", 307>>,
    <<"LATIN CAPITAL LETTER J WITH CIRCUMFLEX", 308>>, <<"LATIN SMALL LETTER J WITH CIRCUMFLEX", 309>>,
    <<"LATIN CAPITAL LETTER K WITH CEDILLA", 310>>, <<"LATIN SMALL LETTER K WITH CEDILLA", 311>>,
    <<"LATIN SMALL LETTER KRA", 312>>, <<"LATIN CAPITAL LETTER L WITH ACUTE", 313>>,
    <<"LATIN SMALL LETTER L WITH ACUTE", 314>>, <<"LATIN CAPITAL LETTER L WITH CEDILLA", 315>>,
    <<"LATIN SMALL LETTER L WITH CEDILLA", 316>>, <<"LATIN CAPITAL LETTER L WITH CARON", 317>>,
    <<"LATIN SMALL LETTER L WITH CARON", 318>>, <<"LATIN CAPITAL LETTER L WITH MIDDLE DOT", 319>>,
    <<"LATIN SMALL LETTER L WITH MIDDLE DOT", 320>>, <<"LATIN CAPITAL LETTER L WITH STROKE", 321>>,
    <<"LATIN SMALL LETTER L WITH STROKE", 322>>, <<"LATIN CAPITAL LETTER N WITH ACUTE", 323>>,
    <<"LATIN SMALL LETTER N WITH ACUTE", 324>>, <<"LATIN CAPITAL LETTER N WITH CEDILLA", 325>>,
    <<"LATIN SMALL LETTER N WITH CEDILLA", 326>>, <<"LATIN CAPITAL LETTER N WITH CARON", 327>>,
    <<"LATIN SMALL LETTER N WITH CARON", 328>>, <<"LATIN SMALL LETTER N PRECEDED BY APOSTROPHE", 329>>,
    <<"LATIN CAPITAL LETTER ENG", 330>>, <<"LATIN SMALL LETTER ENG", 331>>,
    <<"LATIN CAPITAL LETTER O WITH MACRON", 332>>, <<"LATIN SMALL LETTER O WITH MACRON", 333>>,
    <<"LATIN CAPITAL LETTER O WITH BREVE", 334>>, <<"LATIN SMALL LETTER O WITH BREVE", 335>>,
    <<"LATIN CAPITAL LETTER O WITH DOUBLE ACUTE", 336>>,
    <<"LATIN SMALL LETTER O WITH DOUBLE ACUTE", 337>>, <<"LATIN CAPITAL LIGATURE OE", 338>>,
    <<"LATIN SMALL LIGATURE OE", 339>>, <<"LATIN CAPITAL LETTER R WITH ACUTE", 340>>,
    <<"LATIN SMALL LETTER R WITH ACUTE", 341>>, <<"LATIN CAPITAL LETTER R WITH CEDILLA", 342>>,
    <<"LATIN SMALL LETTER R WITH CEDILLA", 343>>, <<"LATIN CAPITAL LETTER R WITH CARON", 344>>,
    <<"LATIN SMALL LETTER R WITH CARON", 345>>, <<"LATIN CAPITAL LETTER S WITH ACUTE", 346>>,
    <<"LATIN SMALL LETTER S WITH ACUTE", 347>>, <<"LATIN CAPITAL LETTER S WITH CIRCUMFLEX", 348>>,
    <<"LATIN SMALL LETTER S WITH CIRCUMFLEX", 349>>, <<"LATIN CAPITAL LETTER S WITH CEDILLA", 350>>,
    <<"LATIN SMALL LETTER S WITH CEDILLA", 351>>, <<"LATIN CAPITAL LETTER S WITH CARON", 352>>,
    <<"LATIN SMALL LETTER S WITH CARON", 353>>, <<"LATIN CAPITAL LETTER T WITH CEDILLA", 354>>,
    <<"LATIN SMALL LETTER T WITH CEDILLA", 355>>, <<"LATIN CAPITAL LETTER T WITH CARON", 356>>,
    <<"LATIN SMALL LETTER T WITH CARON", 357>>, <<"LATIN CAPITAL LETTER T WITH STROKE", 358>>,
    <<"LATIN SMALL LETTER T WITH STROKE", 359>>, <<"LATIN CAPITAL LETTER U WITH TILDE", 360>>,
    <<"LATIN SMALL LETTER U WITH TILDE", 361>>, <<"LATIN CAPITAL LETTER U WITH MACRON", 362>>,
    <<"LATIN SMALL LETTER U WITH MACRON", 363>>, <<"LATIN CAPITAL LETTER U WITH BREVE", 364>>,
    <<"LATIN SMALL LETTER U WITH BREVE", 365>>, <<"LATIN CAPITAL LETTER U WITH RING ABOVE", 366>>,
    <<"LATIN SMALL LETTER U WITH RING ABOVE", 367>>,
    <<"LATIN CAPITAL LETTER U WITH DOUBLE ACUTE", 368>>,
    <<"LATIN SMALL LETTER U WITH DOUBLE ACUTE", 369>>, <<"LATIN CAPITAL LETTER U WITH OGONEK", 370>>,
    <<"LATIN SMALL LETTER U WITH OGONEK", 371>>, <<"LATIN CAPITAL LETTER W WITH CIRCUMFLEX", 372>>,
    <<"LATIN SMALL LETTER W WITH CIRCUMFLEX", 373>>, <<"LATIN CAPITAL LETTER Y WITH CIRCUMFLEX", 374>>,
    <<"LATIN SMALL LETTER Y WITH CIRCUMFLEX", 375>>, <<"LATIN CAPITAL LETTER Y WITH DIAERESIS", 376>>,
    <<"LATIN CAPITAL LETTER Z WITH ACUTE", 377>>, <<"LATIN SMALL LETTER Z WITH ACUTE", 378>>,
    <<"LATIN CAPITAL LETTER Z WITH DOT ABOVE", 379>>, <<"LATIN SMALL LETTER Z WITH DOT ABOVE", 380>>,
    <<"LATIN CAPITAL LETTER Z WITH CARON", 381>>, <<"LATIN SMALL LETTER Z WITH CARON", 382>>,
    <<"LATIN SMALL LETTER LONG S", 383>>, <<"LATIN SMALL LETTER B WITH STROKE", 384>>,
    <<"LATIN CAPITAL LETTER B WITH HOOK", 385>>, <<"LATIN CAPITAL LETTER B WITH TOPBAR", 386>>,
    <<"LATIN SMALL LETTER B WITH TOPBAR", 387>>, <<"LATIN CAPITAL LETTER TONE SIX", 388>>,
    <<"LATIN SMALL LETTER TONE SIX", 389>>, <<"LATIN CAPITAL LETTER OPEN O", 390>>,
    <<"LATIN CAPITAL LETTER C WITH HOOK", 391>>, <<"LATIN SMALL LETTER C WITH HOOK", 392>>,
    <<"LATIN CAPITAL LETTER AFRICAN D", 393>>, <<"LATIN CAPITAL LETTER D WITH HOOK", 394>>,
    <<"LATIN CAPITAL LETTER D WITH TOPBAR", 395>>, <<"LATIN SMALL LETTER D WITH TOPBAR", 396>>,
    <<"LATIN SMALL LETTER TURNED DELTA", 397>>, <<"LATIN CAPITAL LETTER REVERSED E", 398>>,
    <<"LATIN CAPITAL LETTER SCHWA", 399>>, <<"LATIN CAPITAL LETTER OPEN E", 400>>,
    <<"LATIN CAPITAL LETTER F WITH HOOK", 401>>, <<"LATIN SMALL LETTER F WITH HOOK", 402>>,
    <<"LATIN CAPITAL LETTER G WITH HOOK", 403>>, <<"LATIN CAPITAL LETTER GAMMA", 404>>,
    <<"LATIN SMALL LETTER HV", 405>>, <<"LATIN CAPITAL LETTER IOTA", 406>>,
    <<"LATIN CAPITAL LETTER I WITH STROKE", 407>>, <<"LATIN CAPITAL LETTER K WITH HOOK", 408>>,
    <<"LATIN SMALL LETTER K WITH HOOK", 409>>, <<"LATIN SMALL LETTER L WITH BAR", 410>>,
    <<"LATIN SMALL LETTER LAMBDA WITH STROKE", 411>>, <<"LATIN CAPITAL LETTER TURNED M", 412>>,
    <<"LATIN CAPITAL LETTER N WITH LEFT HOOK", 413>>,
    <<"LATIN SMALL LETTER N WITH LONG RIGHT LEG", 414>>,
    <<"LATIN CAPITAL LETTER O WITH MIDDLE TILDE", 415>>, <<"LATIN CAPITAL LETTER O WITH HORN", 416>>,
    <<"LATIN SMALL LETTER O WITH HORN", 417>>, <<"LATIN CAPITAL LETTER GHA", 418>>,
    <<"LATIN CAPITAL LETTER OI", 418>>, <<"LATIN SMALL LETTER GHA", 419>>,
    <<"LATIN SMALL LETTER OI", 419>>, <<"LATIN CAPITAL LETTER P WITH HOOK", 420>>,
    <<"LATIN SMALL LETTER P WITH HOOK", 421>>, <<"LATIN LETTER YR", 422>>,
    <<"LATIN CAPITAL LETTER TONE TWO", 423>>, <<"LATIN SMALL LETTER TONE TWO", 424>>,
    <<"LATIN CAPITAL LETTER ESH", 425>>, <<"LATIN LETTER REVERSED ESH LOOP", 426>>,
    <<"LATIN SMALL LETTER T WITH PALATAL HOOK", 427>>, <<"LATIN CAPITAL LETTER T WITH HOOK", 428>>,
    <<"LATIN SMALL LETTER T WITH HOOK", 429>>, <<"LATIN CAPITAL LETTER T WITH RETROFLEX HOOK", 430>>,
    <<"LATIN CAPITAL LETTER U WITH HORN", 431>>, <<"LATIN SMALL LETTER U WITH HORN", 432>>,
    <<"LATIN CAPITAL LETTER UPSILON", 433>>, <<"LATIN CAPITAL LETTER V WITH HOOK", 434>>,
    <<"LATIN CAPITAL LETTER Y WITH HOOK", 435>>, <<"LATIN SMALL LETTER Y WITH HOOK", 436>>,
    <<"LATIN CAPITAL LETTER Z WITH STROKE", 437>>, <<"LATIN SMALL LETTER Z WITH STROKE", 438>>,
    <<"LATIN CAPITAL LETTER EZH", 439>>, <<"LATIN CAPITAL LETTER EZH REVERSED", 440>>,
    <<"LATIN SMALL LETTER EZH REVERSED", 441>>, <<"LATIN SMALL LETTER EZH WITH TAIL", 442>>,
    <<"LATIN LETTER TWO WITH STROKE", 443>>, <<"LATIN CAPITAL LETTER TONE FIVE", 444>>,
    <<"LATIN SMALL LETTER TONE FIVE", 445>>, <<"LATIN LETTER INVERTED GLOTTAL STOP WITH STROKE", 446>>,
    <<"LATIN LETTER WYNN", 447>>, <<"LATIN LETTER DENTAL CLICK", 448>>,
    <<"LATIN LETTER LATERAL CLICK", 449>>, <<"LATIN LETTER ALVEOLAR CLICK", 450>>,
    <<"LATIN LETTER RETROFLEX CLICK", 451>>, <<"LATIN CAPITAL LETTER DZ WITH CARON", 452>>,
    <<"LATIN CAPITAL LETTER D WITH SMALL LETTER Z WITH CARON", 453>>,
    <<"LATIN SMALL LETTER DZ WITH CARON", 454>>, <<"LATIN CAPITAL LETTER LJ", 455>>,
    <<"LATIN CAPITAL LETTER L WITH SMALL LETTER J", 456>>, <<"LATIN SMALL LETTER LJ", 457>>,
    <<"LATIN CAPITAL LETTER NJ", 458>>, <<"LATIN CAPITAL LETTER N WITH SMALL LETTER J", 459>>,
    <<"LATIN SMALL LETTER NJ", 460>>, <<"LATIN CAPITAL LETTER A WITH CARON", 461>>,
    <<"LATIN SMALL LETTER A WITH CARON", 462>>, <<"LATIN CAPITAL LETTER I WITH CARON", 463>>,
    <<"LATIN SMALL LETTER I WITH CARON", 464>>, <<"LATIN CAPITAL LETTER O WITH CARON", 465>>,
    <<"LATIN SMALL LETTER O WITH CARON", 466>>, <<"LATIN CAPITAL LETTER U WITH CARON", 467>>,
    <<"LATIN SMALL LETTER U WITH CARON", 468>>,
    <<"LATIN CAPITAL LETTER U WITH DIAERESIS AND MACRON", 469>>,
    <<"LATIN SMALL LETTER U WITH DIAERESIS AND MACRON", 470>>,
    <<"LATIN CAPITAL LETTER U WITH DIAERESIS AND ACUTE", 471>>,
    <<"LATIN SMALL LETTER U WITH DIAERESIS AND ACUTE", 472>>,
    <<"LATIN CAPITAL LETTER U WITH DIAERESIS AND CARON", 473>>,
    <<"LATIN SMALL LETTER U WITH DIAERESIS AND CARON", 474>>,
    <<"LATIN CAPITAL LETTER U WITH DIAERESIS AND GRAVE", 475>>,
    <<"LATIN SMALL LETTER U WITH DIAERESIS AND GRAVE", 476>>, <<"LATIN SMALL LETTER TURNED E", 477>>,
    <<"LATIN CAPITAL LETTER A WITH DIAERESIS AND MACRON", 478>>,
    <<"LATIN SMALL LETTER A WITH DIAERESIS AND MACRON", 479>>,
    <<"LATIN CAPITAL LETTER A WITH DOT ABOVE AND MACRON", 480>>,
    <<"LATIN SMALL LETTER A WITH DOT ABOVE AND MACRON", 481>>,
    <<"LATIN CAPITAL LETTER AE WITH MACRON", 482>>, <<"LATIN SMALL LETTER AE WITH MACRON", 483>>,
    <<"LATIN CAPITAL LETTER G WITH STROKE", 484>>, <<"LATIN SMALL LETTER G WITH STROKE", 485>>,
    <<"LATIN CAPITAL LETTER G WITH CARON", 486>>, <<"LATIN SMALL LETTER G WITH CARON", 487>>,
    <<"LATIN CAPITAL LETTER K WITH CARON", 488>>, <<"LATIN SMALL LETTER K WITH CARON", 489>>,
    <<"LATIN CAPITAL LETTER O WITH OGONEK", 490>>, <<"LATIN SMALL LETTER O WITH OGONEK", 491>>,
    <<"LATIN CAPITAL LETTER O WITH OGONEK AND MACRON", 492>>,
    <<"LATIN SMALL LETTER O WITH OGONEK AND MACRON", 493>>,
    <<"LATIN CAPITAL LETTER EZH WITH CARON", 494>>, <<"LATIN SMALL LETTER EZH WITH CARON", 495>>,
    <<"LATIN SMALL LETTER J WITH CARON", 496>>, <<"LATIN CAPITAL LETTER DZ", 497>>,
    <<"LATIN CAPITAL LETTER D WITH SMALL LETTER Z", 498>>, <<"LATIN SMALL LETTER DZ", 499>>,
    <<"LATIN CAPITAL LETTER G WITH ACUTE", 500>>, <<"LATIN SMALL LETTER G WITH ACUTE", 501>>,
    <<"LATIN CAPITAL LETTER HWAIR", 502>>, <<"LATIN CAPITAL LETTER WYNN", 503>>,
    <<"LATIN CAPITAL LETTER N WITH GRAVE", 504>>, <<"LATIN SMALL LETTER N WITH GRAVE", 505>>,
    <<"LATIN CAPITAL LETTER A WITH RING ABOVE AND ACUTE", 506>>,
    <<"LATIN SMALL LETTER A WITH RING ABOVE AND ACUTE", 507>>,
    <<"LATIN CAPITAL LETTER AE WITH ACUTE", 508>>, <<"LATIN SMALL LETTER AE WITH ACUTE", 509>>,
    <<"LATIN CAPITAL LETTER O WITH STROKE AND ACUTE", 510>>,
    <<"LATIN SMALL LETTER O WITH STROKE AND ACUTE", 511>>,
    <<"LATIN CAPITAL LETTER A WITH DOUBLE GRAVE", 512>>,
    <<"LATIN SMALL LETTER A WITH DOUBLE GRAVE", 513>>,
    <<"LATIN CAPITAL LETTER A WITH INVERTED BREVE", 514>>,
    <<"LATIN SMALL LETTER A WITH INVERTED BREVE", 515>>,
    <<"LATIN CAPITAL LETTER E WITH DOUBLE GRAVE", 516>>,
    <<"LATIN SMALL LETTER E WITH DOUBLE GRAVE", 517>>,
    <<"LATIN CAPITAL LETTER E WITH INVERTED BREVE", 518>>,
    <<"LATIN SMALL LETTER E WITH INVERTED BREVE", 519>>,
    <<"LATIN CAPITAL LETTER I WITH DOUBLE GRAVE", 520>>,
    <<"LATIN SMALL LETTER I WITH DOUBLE GRAVE", 521>>,
    <<"LATIN CAPITAL LETTER I WITH INVERTED BREVE", 522>>,
    <<"LATIN SMALL LETTER I WITH INVERTED BREVE", 523>>,
    <<"LATIN CAPITAL LETTER O WITH DOUBLE GRAVE", 524>>,
    <<"LATIN SMALL LETTER O WITH DOUBLE GRAVE", 525>>,
    <<"LATIN CAPITAL LETTER O WITH INVERTED BREVE", 526>>,
    <<"LATIN SMALL LETTER O WITH INVERTED BREVE", 527>>,
    <<"LATIN CAPITAL LETTER R WITH DOUBLE GRAVE", 528>>,
    <<"LATIN SMALL LETTER R WITH DOUBLE GRAVE", 529>>,
    <<"LATIN CAPITAL LETTER R WITH INVERTED BREVE", 530>>,
    <<"LATIN SMALL LETTER R WITH INVERTED BREVE", 531>>,
    <<"LATIN CAPITAL LETTER U WITH DOUBLE GRAVE", 532>>,
    <<"LATIN SMALL LETTER U WITH DOUBLE GRAVE", 533>>,
    <<"LATIN CAPITAL LETTER U WITH INVERTED BREVE", 534>>,
    <<"LATIN SMALL LETTER U WITH INVERTED BREVE", 535>>,
    <<"LATIN CAPITAL LETTER S WITH COMMA BELOW", 536>>,
    <<"LATIN SMALL LETTER S WITH COMMA BELOW", 537>>,
    <<"LATIN CAPITAL LETTER T WITH COMMA BELOW", 538>>,
    <<"LATIN SMALL LETTER T WITH COMMA BELOW", 539>>, <<"LATIN CAPITAL LETTER YOGH", 540>>,
    <<"LATIN SMALL LETTER YOGH", 541>>, <<"LATIN CAPITAL LETTER H WITH CARON", 542>>,
    <<"LATIN SMALL LETTER H WITH CARON", 543>>, <<"LATIN CAPITAL LETTER N WITH LONG RIGHT LEG", 544>>,
    <<"LATIN SMALL LETTER D WITH CURL", 545>>, <<"LATIN CAPITAL LETTER OU", 546>>,
    <<"LATIN SMALL LETTER OU", 547>>, <<"LATIN CAPITAL LETTER Z WITH HOOK", 548>>,
    <<"LATIN SMALL LETTER Z WITH HOOK", 549>>, <<"LATIN CAPITAL LETTER A WITH DOT ABOVE", 550>>,
    <<"LATIN SMALL LETTER A WITH DOT ABOVE", 551>>, <<"LATIN CAPITAL LETTER E WITH CEDILLA", 552>>,
    <<"LATIN SMALL LETTER E WITH CEDILLA", 553>>,
    <<"LATIN CAPITAL LETTER O WITH DIAERESIS AND MACRON", 554>>,
    <<"LATIN SMALL LETTER O WITH DIAERESIS AND MACRON", 555>>,
    <<"LATIN CAPITAL LETTER O WITH TILDE AND MACRON", 556>>,
    <<"LATIN SMALL LETTER O WITH TILDE AND MACRON", 557>>,
    <<"LATIN CAPITAL LETTER O WITH DOT ABOVE", 558>>, <<"LATIN SMALL LETTER O WITH DOT ABOVE", 559>>,
    <<"LATIN CAPITAL LETTER O WITH DOT ABOVE AND MACRON", 560>>,
    <<"LATIN SMALL LETTER O WITH DOT ABOVE AND MACRON", 561>>,
    <<"LATIN CAPITAL LETTER Y WITH MACRON", 562>>, <<"LATIN SMALL LETTER Y WITH MACRON", 563>>,
    <<"LATIN SMALL LETTER L WITH CURL", 564>>, <<"LATIN SMALL LETTER N WITH CURL", 565>>,
    <<"LATIN SMALL LETTER T WITH CURL", 566>>, <<"LATIN SMALL LETTER DOTLESS J", 567>>,
    <<"LATIN SMALL LETTER DB DIGRAPH", 568>>, <<"LATIN SMALL LETTER QP DIGRAPH", 569>>,
    <<"LATIN CAPITAL LETTER A WITH STROKE", 570>>, <<"LATIN CAPITAL LETTER C WITH STROKE", 571>>,
    <<"LATIN SMALL LETTER C WITH STROKE", 572>>, <<"LATIN CAPITAL LETTER L WITH BAR", 573>>,
    <<"LATIN CAPITAL LETTER T WITH DIAGONAL STROKE", 574>>,
    <<"LATIN SMALL LETTER S WITH SWASH TAIL", 575>>, <<"LATIN SMALL LETTER Z WITH SWASH TAIL", 576>>,
    <<"LATIN CAPITAL LETTER GLOTTAL STOP", 577>>, <<"LATIN SMALL LETTER GLOTTAL STOP", 578>>,
    <<"LATIN CAPITAL LETTER B WITH STROKE", 579>>, <<"LATIN CAPITAL LETTER U BAR", 580>>,
    <<"LATIN CAPITAL LETTER TURNED V", 581>>, <<"LATIN CAPITAL LETTER E WITH STROKE", 582>>,
    <<"LATIN SMALL LETTER E WITH STROKE", 583>>, <<"LATIN CAPITAL LETTER J WITH STROKE", 584>>,
    <<"LATIN SMALL LETTER J WITH STROKE", 585>>,
    <<"LATIN CAPITAL LETTER SMALL Q WITH HOOK TAIL", 586>>,
    <<"LATIN SMALL LETTER Q WITH HOOK TAIL", 587>>, <<"LATIN CAPITAL LETTER R WITH STROKE", 588>>,
    <<"LATIN SMALL LETTER R WITH STROKE", 589>>, <<"LATIN CAPITAL LETTER Y WITH STROKE", 590>>,
    <<"LATIN SMALL LETTER Y WITH STROKE", 591>>, <<"LATIN SMALL LETTER TURNED A", 592>>,
    <<"LATIN SMALL LETTER ALPHA", 593>>, <<"LATIN SMALL LETTER TURNED ALPHA", 594>>,
    <<"LATIN SMALL LETTER B WITH HOOK", 595>>, <<"LATIN SMALL LETTER OPEN O", 596>>,
    <<"LATIN SMALL LETTER C WITH CURL", 597>>, <<"LATIN SMALL LETTER D WITH TAIL", 598>>,
    <<"LATIN SMALL LETTER D WITH HOOK", 599>>, <<"LATIN SMALL LETTER REVERSED E", 600>>,
    <<"LATIN SMALL LETTER SCHWA", 601>>, <<"LATIN SMALL LETTER SCHWA WITH HOOK", 602>>,
    <<"LATIN SMALL LETTER OPEN E", 603>>, <<"LATIN SMALL LETTER REVERSED OPEN E", 604>>,
    <<"LATIN SMALL LETTER REVERSED OPEN E WITH HOOK", 605>>,
    <<"LATIN SMALL LETTER CLOSED REVERSED OPEN E", 606>>,
    <<"LATIN SMALL LETTER DOTLESS J WITH STROKE", 607>>, <<"LATIN SMALL LETTER G WITH HOOK", 608>>,
    <<"LATIN SMALL LETTER SCRIPT G", 609>>, <<"LATIN LETTER SMALL CAPITAL G", 610>>,
    <<"LATIN SMALL LETTER GAMMA", 611>>, <<"LATIN SMALL LETTER RAMS HORN", 612>>,
    <<"LATIN SMALL LETTER TURNED H", 613>>, <<"LATIN SMALL LETTER H WITH HOOK", 614>>,
    <<"LATIN SMALL LETTER HENG WITH HOOK", 615>>, <<"LATIN SMALL LETTER I WITH STROKE", 616>>,
    <<"LATIN SMALL LETTER IOTA", 617>>, <<"LATIN LETTER SMALL CAPITAL I", 618>>,
    <<"LATIN SMALL LETTER L WITH MIDDLE TILDE", 619>>, <<"LATIN SMALL LETTER L WITH BELT", 620>>,
    <<"LATIN SMALL LETTER L WITH RETROFLEX HOOK", 621>>, <<"LATIN SMALL LETTER LEZH", 622>>,
    <<"LATIN SMALL LETTER TURNED M", 623>>, <<"LATIN SMALL LETTER TURNED M WITH LONG LEG", 624>>,
    <<"LATIN SMALL LETTER M WITH HOOK", 625>>, <<"LATIN SMALL LETTER N WITH LEFT HOOK", 626>>,
    <<"LATIN SMALL LETTER N WITH RETROFLEX HOOK", 627>>, <<"LATIN LETTER SMALL CAPITAL N", 628>>,
    <<"LATIN SMALL LETTER BARRED O", 629>>, <<"LATIN LETTER SMALL CAPITAL OE", 630>>,
    <<"LATIN SMALL LETTER CLOSED OMEGA", 631>>, <<"LATIN SMALL LETTER PHI", 632>>,
    <<"LATIN SMALL LETTER TURNED R", 633>>, <<"LATIN SMALL LETTER TURNED R WITH LONG LEG", 634>>,
    <<"LATIN SMALL LETTER TURNED R WITH HOOK", 635>>, <<"LATIN SMALL LETTER R WITH LONG LEG", 636>>,
    <<"LATIN SMALL LETTER R WITH TAIL", 637>>, <<"LATIN SMALL LETTER R WITH FISHHOOK", 638>>,
    <<"LATIN SMALL LETTER REVERSED R WITH FISHHOOK", 639>>, <<"LATIN LETTER SMALL CAPITAL R", 640>>,
    <<"LATIN LETTER SMALL CAPITAL INVERTED R", 641>>, <<"LATIN SMALL LETTER S WITH HOOK", 642>>,
    <<"LATIN SMALL LETTER ESH", 643>>, <<"LATIN SMALL LETTER DOTLESS J WITH STROKE AND HOOK", 644>>,
    <<"LATIN SMALL LETTER SQUAT REVERSED ESH", 645>>, <<"LATIN SMALL LETTER ESH WITH CURL", 646>>,
    <<"LATIN SMALL LETTER TURNED T", 647>>, <<"LATIN SMALL LETTER T WITH RETROFLEX HOOK", 648>>,
    <<"LATIN SMALL LETTER U BAR", 649>>, <<"LATIN SMALL LETTER UPSILON", 650>>,
    <<"LATIN SMALL LETTER V WITH HOOK", 651>>, <<"LATIN SMALL LETTER TURNED V", 652>>,
    <<"LATIN SMALL LETTER TURNED W", 653>>, <<"LATIN SMALL LETTER TURNED Y", 654>>,
    <<"LATIN LETTER SMALL CAPITAL Y", 655>>, <<"LATIN SMALL LETTER Z WITH RETROFLEX HOOK", 656>>,
    <<"LATIN SMALL LETTER Z WITH CURL", 657>>, <<"LATIN SMALL LETTER EZH", 658>>,
    <<"LATIN SMALL LETTER EZH WITH CURL", 659>>, <<"LATIN LETTER GLOTTAL STOP", 660>>,
    <<"LATIN LETTER PHARYNGEAL VOICED FRICATIVE", 661>>, <<"LATIN LETTER INVERTED GLOTTAL STOP", 662>>,
    <<"LATIN LETTER STRETCHED C", 663>>, <<"LATIN LETTER BILABIAL CLICK", 664>>,
    <<"LATIN LETTER SMALL CAPITAL B", 665>>, <<"LATIN SMALL LETTER CLOSED OPEN E", 666>>,
    <<"LATIN LETTER SMALL CAPITAL G WITH HOOK", 667>>, <<"LATIN LETTER SMALL CAPITAL H", 668>>,
    <<"LATIN SMALL LETTER J WITH CROSSED-TAIL", 669>>, <<"LATIN SMALL LETTER TURNED K", 670>>,
    <<"LATIN LETTER SMALL CAPITAL L", 671>>, <<"LATIN SMALL LETTER Q WITH HOOK", 672>>,
    <<"LATIN LETTER GLOTTAL STOP WITH STROKE", 673>>,
    <<"LATIN LETTER REVERSED GLOTTAL STOP WITH STROKE", 674>>,
    <<"LATIN SMALL LETTER DZ DIGRAPH", 675>>, <<"LATIN SMALL LETTER DEZH DIGRAPH", 676>>,
    <<"LATIN SMALL LETTER DZ DIGRAPH WITH CURL", 677>>, <<"LATIN SMALL LETTER TS DIGRAPH", 678>>,
    <<"LATIN SMALL LETTER TESH DIGRAPH", 679>>, <<"LATIN SMALL LETTER TC DIGRAPH WITH CURL", 680>>,
    <<"LATIN SMALL LETTER FENG DIGRAPH", 681>>, <<"LATIN SMALL LETTER LS DIGRAPH", 682>>,
    <<"LATIN SMALL LETTER LZ DIGRAPH", 683>>, <<"LATIN LETTER BILABIAL PERCUSSIVE", 684>>,
    <<"LATIN LETTER BIDENTAL PERCUSSIVE", 685>>, <<"LATIN SMALL LETTER TURNED H WITH FISHHOOK", 686>>,
    <<"LATIN SMALL LETTER TURNED H WITH FISHHOOK AND TAIL", 687>>, <<"MODIFIER LETTER SMALL H", 688>>,
    <<"MODIFIER LETTER SMALL H WITH HOOK", 689>>, <<"MODIFIER LETTER SMALL J", 690>>,
    <<"MODIFIER LETTER SMALL R", 691>>, <<"MODIFIER LETTER SMALL TURNED R", 692>>,
    <<"MODIFIER LETTER SMALL TURNED R WITH HOOK", 693>>,
    <<"MODIFIER LETTER SMALL CAPITAL INVERTED R", 694>>, <<"MODIFIER LETTER SMALL W", 695>>,
    <<"MODIFIER LETTER SMALL Y", 696>>, <<"MODIFIER LETTER PRIME", 697>>,
    <<"MODIFIER LETTER DOUBLE PRIME", 698>>, <<"MODIFIER LETTER TURNED COMMA", 699>>,
    <<"MODIFIER LETTER APOSTROPHE", 700>>, <<"MODIFIER LETTER REVERSED COMMA", 701>>,
    <<"MODIFIER LETTER RIGHT HALF RING", 702>>, <<"MODIFIER LETTER LEFT HALF RING", 703>>,
    <<"MODIFIER LETTER GLOTTAL STOP", 704>>, <<"MODIFIER LETTER REVERSED GLOTTAL STOP", 705>>,
    <<"MODIFIER LETTER LEFT ARROWHEAD", 706>>, <<"MODIFIER LETTER RIGHT ARROWHEAD", 707>>,
    <<"MODIFIER LETTER UP ARROWHEAD", 708>>, <<"MODIFIER LETTER DOWN ARROWHEAD", 709>>,
    <<"MODIFIER LETTER CIRCUMFLEX ACCENT", 710>>, <<"CARON", 711>>,
    <<"MODIFIER LETTER VERTICAL LINE", 712>>, <<"MODIFIER LETTER MACRON", 713>>,
    <<"MODIFIER LETTER ACUTE ACCENT", 714>>, <<"MODIFIER LETTER GRAVE ACCENT", 715>>,
    <<"MODIFIER LETTER LOW VERTICAL LINE", 716>>, <<"MODIFIER LETTER LOW MACRON", 717>>,
    <<"MODIFIER LETTER LOW GRAVE ACCENT", 718>>, <<"MODIFIER LETTER LOW ACUTE ACCENT", 719>>,
    <<"MODIFIER LETTER TRIANGULAR COLON", 720>>, <<"MODIFIER LETTER HALF TRIANGULAR COLON", 721>>,
    <<"MODIFIER LETTER CENTRED RIGHT HALF RING", 722>>,
    <<"MODIFIER LETTER CENTRED LEFT HALF RING", 723>>, <<"MODIFIER LETTER UP TACK", 724>>,
    <<"MODIFIER LETTER DOWN TACK", 725>>, <<"MODIFIER LETTER PLUS SIGN", 726>>,
    <<"MODIFIER LETTER MINUS SIGN", 727>>, <<"BREVE", 728>>, <<"DOT ABOVE", 729>>,
    <<"RING ABOVE", 730>>, <<"OGONEK", 731>>, <<"SMALL TILDE", 732>>, <<"DOUBLE ACUTE ACCENT", 733>>,
    <<"MODIFIER LETTER RHOTIC HOOK", 734>>, <<"MODIFIER LETTER CROSS ACCENT", 735>>,
    <<"MODIFIER LETTER SMALL GAMMA", 736>>, <<"MODIFIER LETTER SMALL L", 737>>,
    <<"MODIFIER LETTER SMALL S", 738>>, <<"MODIFIER LETTER SMALL X", 739>>,
    <<"MODIFIER LETTER SMALL REVERSED GLOTTAL STOP", 740>>,
    <<"MODIFIER LETTER EXTRA-HIGH TONE BAR", 741>>, <<"MODIFIER LETTER HIGH TONE BAR", 742>>,
    <<"MODIFIER LETTER MID TONE BAR", 743>>, <<"MODIFIER LETTER LOW TONE BAR", 744>>,
    <<"MODIFIER LETTER EXTRA-LOW TONE BAR", 745>>, <<"MODIFIER LETTER YIN DEPARTING TONE MARK", 746>>,
    <<"MODIFIER LETTER YANG DEPARTING TONE MARK", 747>>, <<"MODIFIER LETTER VOICING", 748>>,
    <<"MODIFIER LETTER UNASPIRATED", 749>>, <<"MODIFIER LETTER DOUBLE APOSTROPHE", 750>>,
    <<"MODIFIER LETTER LOW DOWN ARROWHEAD", 751>>, <<"MODIFIER LETTER LOW UP ARROWHEAD", 752>>,
    <<"MODIFIER LETTER LOW LEFT ARROWHEAD", 753>>, <<"MODIFIER LETTER LOW RIGHT ARROWHEAD", 754>>,
    <<"MODIFIER LETTER LOW RING", 755>>, <<"MODIFIER LETTER MIDDLE GRAVE ACCENT", 756>>,
    <<"MODIFIER LETTER MIDDLE DOUBLE GRAVE ACCENT", 757>>,
    <<"MODIFIER LETTER MIDDLE DOUBLE ACUTE ACCENT", 758>>, <<"MODIFIER LETTER LOW TILDE", 759>>,
    <<"MODIFIER LETTER RAISED COLON", 760>>, <<"MODIFIER LETTER BEGIN HIGH TONE", 761>>,
    <<"MODIFIER LETTER END HIGH TONE", 762>>, <<"MODIFIER LETTER BEGIN LOW TONE", 763>>,
    <<"MODIFIER LETTER END LOW TONE", 764>>, <<"MODIFIER LETTER SHELF", 765>>,
    <<"MODIFIER LETTER OPEN SHELF", 766>>, <<"MODIFIER LETTER LOW LEFT ARROW", 767>>,
    <<"COMBINING GRAVE ACCENT", 768>>, <<"COMBINING ACUTE ACCENT", 769>>,
    <<"COMBINING CIRCUMFLEX ACCENT", 770>>, <<"COMBINING TILDE", 771>>, <<"COMBINING MACRON", 772>>,
    <<"COMBINING OVERLINE", 773>>, <<"COMBINING BREVE", 774>>, <<"COMBINING DOT ABOVE", 775>>,
    <<"COMBINING DIAERESIS", 776>>, <<"COMBINING HOOK ABOVE", 777>>, <<"COMBINING RING ABOVE", 778>>,
    <<"COMBINING DOUBLE ACUTE ACCENT", 779>>, <<"COMBINING CARON", 780>>,
    <<"COMBINING VERTICAL LINE ABOVE", 781>>, <<"COMBINING DOUBLE VERTICAL LINE ABOVE", 782>>,
    <<"COMBINING DOUBLE GRAVE ACCENT", 783>>, <<"COMBINING CANDRABINDU", 784>>,
    <<"COMBINING INVERTED BREVE", 785>>, <<"COMBINING TURNED COMMA ABOVE", 786>>,
    <<"COMBINING COMMA ABOVE", 787>>, <<"COMBINING REVERSED COMMA ABOVE", 788>>,
    <<"COMBINING COMMA ABOVE RIGHT", 789>>, <<"COMBINING GRAVE ACCENT BELOW", 790>>,
    <<"COMBINING ACUTE ACCENT BELOW", 791>>, <<"COMBINING LEFT TACK BELOW", 792>>,
    <<"COMBINING RIGHT TACK BELOW", 793>>, <<"COMBINING LEFT ANGLE ABOVE", 794>>,
    <<"COMBINING HORN", 795>>, <<"COMBINING LEFT HALF RING BELOW", 796>>,
    <<"COMBINING UP TACK BELOW", 797>>, <<"COMBINING DOWN TACK BELOW", 798>>,
    <<"COMBINING PLUS SIGN BELOW", 799>>, <<"COMBINING MINUS SIGN BELOW", 800>>,
    <<"COMBINING PALATALIZED HOOK BELOW", 801>>, <<"COMBINING RETROFLEX HOOK BELOW", 802>>,
    <<"COMBINING DOT BELOW", 803>>, <<"COMBINING DIAERESIS BELOW", 804>>,
    <<"COMBINING RING BELOW", 805>>, <<"COMBINING COMMA BELOW", 806>>, <<"COMBINING CEDILLA", 807>>,
    <<"COMBINING OGONEK", 808>>, <<"COMBINING VERTICAL LINE BELOW", 809>>,
    <<"COMBINING BRIDGE BELOW", 810>>, <<"COMBINING INVERTED DOUBLE ARCH BELOW", 811>>,
    <<"COMBINING CARON BELOW", 812>>, <<"COMBINING CIRCUMFLEX ACCENT BELOW", 813>>,
    <<"COMBINING BREVE BELOW", 814>>, <<"COMBINING INVERTED BREVE BELOW", 815>>,
    <<"COMBINING TILDE BELOW", 816>>, <<"COMBINING MACRON BELOW", 817>>, <<"COMBINING LOW LINE", 818>>,
    <<"COMBINING DOUBLE LOW LINE", 819>>, <<"COMBINING TILDE OVERLAY", 820>>,
    <<"COMBINING SHORT STROKE OVERLAY", 821>>, <<"COMBINING LONG STROKE OVERLAY", 822>>,
    <<"COMBINING SHORT SOLIDUS OVERLAY", 823>>, <<"COMBINING LONG SOLIDUS OVERLAY", 824>>,
    <<"COMBINING RIGHT HALF RING BELOW", 825>>, <<"COMBINING INVERTED BRIDGE BELOW", 826>>,
    <<"COMBINING SQUARE BELOW", 827>>, <<"COMBINING SEAGULL BELOW", 828>>,
    <<"COMBINING X ABOVE", 829>>, <<"COMBINING VERTICAL TILDE", 830>>,
    <<"COMBINING DOUBLE OVERLINE", 831>>, <<"COMBINING GRAVE TONE MARK", 832>>,
    <<"COMBINING ACUTE TONE MARK", 833>>, <<"COMBINING GREEK PERISPOMENI", 834>>,
    <<"COMBINING GREEK KORONIS", 835>>, <<"COMBINING GREEK DIALYTIKA TONOS", 836>>,
    <<"COMBINING GREEK YPOGEGRAMMENI", 837>>, <<"COMBINING BRIDGE ABOVE", 838>>,
    <<"COMBINING EQUALS SIGN BELOW", 839>>, <<"COMBINING DOUBLE VERTICAL LINE BELOW", 840>>,
    <<"COMBINING LEFT ANGLE BELOW", 841>>, <<"COMBINING NOT TILDE ABOVE", 842>>,
    <<"COMBINING HOMOTHETIC ABOVE", 843>>, <<"COMBINING ALMOST EQUAL TO ABOVE", 844>>,
    <<"COMBINING LEFT RIGHT ARROW BELOW", 845>>, <<"COMBINING UPWARDS ARROW BELOW", 846>>,
    <<"CGJ", 847>>, <<"COMBINING GRAPHEME JOINER", 847>>, <<"COMBINING RIGHT ARROWHEAD ABOVE", 848>>,
    <<"COMBINING LEFT HALF RING ABOVE", 849>>, <<"COMBINING FERMATA", 850>>,
    <<"COMBINING X BELOW", 851>>, <<"COMBINING LEFT ARROWHEAD BELOW", 852>>,
    <<"COMBINING RIGHT ARROWHEAD BELOW", 853>>,
    <<"COMBINING RIGHT ARROWHEAD AND UP ARROWHEAD BELOW", 854>>,
    <<"COMBINING RIGHT HALF RING ABOVE", 855>>, <<"COMBINING DOT ABOVE RIGHT", 856>>,
    <<"COMBINING ASTERISK BELOW", 857>>, <<"COMBINING DOUBLE RING BELOW", 858>>,
    <<"COMBINING ZIGZAG ABOVE", 859>>, <<"COMBINING DOUBLE BREVE BELOW", 860>>,
    <<"COMBINING DOUBLE BREVE", 861>>, <<"COMBINING DOUBLE MACRON", 862>>,
    <<"COMBINING DOUBLE MACRON BELOW", 863>>, <<"COMBINING DOUBLE TILDE", 864>>,
    <<"COMBINING DOUBLE INVERTED BREVE", 865>>, <<"COMBINING DOUBLE RIGHTWARDS ARROW BELOW", 866>>,
    <<"COMBINING LATIN SMALL LETTER A", 867>>, <<"COMBINING LATIN SMALL LETTER E", 868>>,
    <<"COMBINING LATIN SMALL LETTER I", 869>>, <<"COMBINING LATIN SMALL LETTER O", 870>>,
    <<"COMBINING LATIN SMALL LETTER U", 871>>, <<"COMBINING LATIN SMALL LETTER C", 872>>,
    <<"COMBINING LATIN SMALL LETTER D", 873>>, <<"COMBINING LATIN SMALL LETTER H", 874>>,
    <<"COMBINING LATIN SMALL LETTER M", 875>>, <<"COMBINING LATIN SMALL LETTER R", 876>>,
    <<"COMBINING LATIN SMALL LETTER T", 877>>, <<"COMBINING LATIN SMALL LETTER V", 878>>,
    <<"COMBINING LATIN SMALL LETTER X", 879>>, <<"GREEK CAPITAL LETTER HETA", 880>>,
    <<"GREEK SMALL LETTER HETA", 881>>, <<"GREEK CAPITAL LETTER ARCHAIC SAMPI", 882>>,
    <<"GREEK SMALL LETTER ARCHAIC SAMPI", 883>>, <<"GREEK NUMERAL SIGN", 884>>,
    <<"GREEK LOWER NUMERAL SIGN", 885>>, <<"GREEK CAPITAL LETTER PAMPHYLIAN DIGAMMA", 886>>,
    <<"GREEK SMALL LETTER PAMPHYLIAN DIGAMMA", 887>>, <<"GREEK YPOGEGRAMMENI", 890>>,
    <<"GREEK SMALL REVERSED LUNATE SIGMA SYMBOL", 891>>,
    <<"GREEK SMALL DOTTED LUNATE SIGMA SYMBOL", 892>>,
    <<"GREEK SMALL REVERSED DOTTED LUNATE SIGMA SYMBOL", 893>>, <<"GREEK QUESTION MARK", 894>>,
    <<"GREEK CAPITAL LETTER YOT", 895>>, <<"GREEK TONOS", 900>>, <<"GREEK DIALYTIKA TONOS", 901>>,
    <<"GREEK CAPITAL LETTER ALPHA WITH TONOS", 902>>, <<"GREEK ANO TELEIA", 903>>,
    <<"GREEK CAPITAL LETTER EPSILON WITH TONOS", 904>>, <<"GREEK CAPITAL LETTER ETA WITH TONOS", 905>>,
    <<"GREEK CAPITAL LETTER IOTA WITH TONOS", 906>>,
    <<"GREEK CAPITAL LETTER OMICRON WITH TONOS", 908>>,
    <<"GREEK CAPITAL LETTER UPSILON WITH TONOS", 910>>,
    <<"GREEK CAPITAL LETTER OMEGA WITH TONOS", 911>>,
    <<"GREEK SMALL LETTER IOTA WITH DIALYTIKA AND TONOS", 912>>, <<"GREEK CAPITAL LETTER ALPHA", 913>>,
    <<"GREEK CAPITAL LETTER BETA", 914>>, <<"GREEK CAPITAL LETTER GAMMA", 915>>,
    <<"GREEK CAPITAL LETTER DELTA", 916>>, <<"GREEK CAPITAL LETTER EPSILON", 917>>,
    <<"GREEK CAPITAL LETTER ZETA", 918>>, <<"GREEK CAPITAL LETTER ETA", 919>>,
    <<"GREEK CAPITAL LETTER THETA", 920>>, <<"GREEK CAPITAL LETTER IOTA", 921>>,
    <<"GREEK CAPITAL LETTER KAPPA", 922>>, <<"GREEK CAPITAL LETTER LAMDA", 923>>,
    <<"GREEK CAPITAL LETTER MU", 924>>, <<"GREEK CAPITAL LETTER NU", 925>>,
    <<"GREEK CAPITAL LETTER XI", 926>>, <<"GREEK CAPITAL LETTER OMICRON", 927>>,
    <<"GREEK CAPITAL LETTER PI", 928>>, <<"GREEK CAPITAL LETTER RHO", 929>>,
    <<"GREEK CAPITAL LETTER SIGMA", 931>>, <<"GREEK CAPITAL LETTER TAU", 932>>,
    <<"GREEK CAPITAL LETTER UPSILON", 933>>, <<"GREEK CAPITAL LETTER PHI", 934>>,
    <<"GREEK CAPITAL LETTER CHI", 935>>, <<"GREEK CAPITAL LETTER PSI", 936>>,
    <<"GREEK CAPITAL LETTER OMEGA", 937>>, <<"GREEK CAPITAL LETTER IOTA WITH DIALYTIKA", 938>>,
    <<"GREEK CAPITAL LETTER UPSILON WITH DIALYTIKA", 939>>,
    <<"GREEK SMALL LETTER ALPHA WITH TONOS", 940>>, <<"GREEK SMALL LETTER EPSILON WITH TONOS", 941>>,
    <<"GREEK SMALL LETTER ETA WITH TONOS", 942>>, <<"GREEK SMALL LETTER IOTA WITH TONOS", 943>>,
    <<"GREEK SMALL LETTER UPSILON WITH DIALYTIKA AND TONOS", 944>>,
    <<"GREEK SMALL LETTER ALPHA", 945>>, <<"GREEK SMALL LETTER BETA", 946>>,
    <<"GREEK SMALL LETTER GAMMA", 947>>, <<"GREEK SMALL LETTER DELTA", 948>>,
    <<"GREEK SMALL LETTER EPSILON", 949>>, <<"GREEK SMALL LETTER ZETA", 950>>,
    <<"GREEK SMALL LETTER ETA", 951>>, <<"GREEK SMALL LETTER THETA", 952>>,
    <<"GREEK SMALL LETTER IOTA", 953>>, <<"GREEK SMALL LETTER KAPPA", 954>>,
    <<"GREEK SMALL LETTER LAMDA", 955>>, <<"GREEK SMALL LETTER MU", 956>>,
    <<"GREEK SMALL LETTER NU", 957>>, <<"GREEK SMALL LETTER XI", 958>>,
    <<"GREEK SMALL LETTER OMICRON", 959>>, <<"GREEK SMALL LETTER PI", 960>>,
    <<"GREEK SMALL LETTER RHO", 961>>, <<"GREEK SMALL LETTER FINAL SIGMA", 962>>,
    <<"GREEK SMALL LETTER SIGMA", 963>>, <<"GREEK SMALL LETTER TAU", 964>>,
    <<"GREEK SMALL LETTER UPSILON", 965>>, <<"GREEK SMALL LETTER PHI", 966>>,
    <<"GREEK SMALL LETTER CHI", 967>>, <<"GREEK SMALL LETTER PSI", 968>>,
    <<"GREEK SMALL LETTER OMEGA", 969>>, <<"GREEK SMALL LETTER IOTA WITH DIALYTIKA", 970>>,
    <<"GREEK SMALL LETTER UPSILON WITH DIALYTIKA", 971>>,
    <<"GREEK SMALL LETTER OMICRON WITH TONOS", 972>>, <<"GREEK SMALL LETTER UPSILON WITH TONOS", 973>>,
    <<"GREEK SMALL LETTER OMEGA WITH TONOS", 974>>, <<"GREEK CAPITAL KAI SYMBOL", 975>>,
    <<"GREEK BETA SYMBOL", 976>>, <<"GREEK THETA SYMBOL", 977>>,
    <<"GREEK UPSILON WITH HOOK SYMBOL", 978>>, <<"GREEK UPSILON WITH ACUTE AND HOOK SYMBOL", 979>>,
    <<"GREEK UPSILON WITH DIAERESIS AND HOOK SYMBOL", 980>>, <<"GREEK PHI SYMBOL", 981>>,
    <<"GREEK PI SYMBOL", 982>>, <<"GREEK KAI SYMBOL", 983>>, <<"GREEK LETTER ARCHAIC KOPPA", 984>>,
    <<"GREEK SMALL LETTER ARCHAIC KOPPA", 985>>, <<"GREEK LETTER STIGMA", 986>>,
    <<"GREEK SMALL LETTER STIGMA", 987>>, <<"GREEK LETTER DIGAMMA", 988>>,
    <<"GREEK SMALL LETTER DIGAMMA", 989>>, <<"GREEK LETTER KOPPA", 990>>,
    <<"GREEK SMALL LETTER KOPPA", 991>>, <<"GREEK LETTER SAMPI", 992>>,
    <<"GREEK SMALL LETTER SAMPI", 993>>, <<"COPTIC CAPITAL LETTER SHEI", 994>>,
    <<"COPTIC SMALL LETTER SHEI", 995>>, <<"COPTIC CAPITAL LETTER FEI", 996>>,
    <<"COPTIC SMALL LETTER FEI", 997>>, <<"COPTIC CAPITAL LETTER KHEI", 998>>,
    <<"COPTIC SMALL LETTER KHEI", 999>>, <<"COPTIC CAPITAL LETTER HORI", 1000>>,
    <<"COPTIC SMALL LETTER HORI", 1001>>, <<"COPTIC CAPITAL LETTER GANGIA", 1002>>,
    <<"COPTIC SMALL LETTER GANGIA", 1003>>, <<"COPTIC CAPITAL LETTER SHIMA", 1004>>,
    <<"COPTIC SMALL LETTER SHIMA", 1005>>, <<"COPTIC CAPITAL LETTER DEI", 1006>>,
    <<"COPTIC SMALL LETTER DEI", 1007>>, <<"GREEK KAPPA SYMBOL", 1008>>, <<"GREEK RHO SYMBOL", 1009>>,
    <<"GREEK LUNATE SIGMA SYMBOL", 1010>>, <<"GREEK LETTER YOT", 1011>>,
    <<"GREEK CAPITAL THETA SYMBOL", 1012>>, <<"GREEK LUNATE EPSILON SYMBOL", 1013>>,
    <<"GREEK REVERSED LUNATE EPSILON SYMBOL", 1014>>, <<"GREEK CAPITAL LETTER SHO", 1015>>,
    <<"GREEK SMALL LETTER SHO", 1016>>, <<"GREEK CAPITAL LUNATE SIGMA SYMBOL", 1017>>,
    <<"GREEK CAPITAL LETTER SAN", 1018>>, <<"GREEK SMALL LETTER SAN", 1019>>,
    <<"GREEK RHO WITH STROKE SYMBOL", 1020>>, <<"GREEK CAPITAL REVERSED LUNATE SIGMA SYMBOL", 1021>>,
    <<"GREEK CAPITAL DOTTED LUNATE SIGMA SYMBOL", 1022>>,
    <<"GREEK CAPITAL REVERSED DOTTED LUNATE SIGMA SYMBOL", 1023>>,
    <<"CYRILLIC CAPITAL LETTER IE WITH GRAVE", 1024>>, <<"CYRILLIC CAPITAL LETTER IO", 1025>>,
    <<"CYRILLIC CAPITAL LETTER DJE", 1026>>, <<"CYRILLIC CAPITAL LETTER GJE", 1027>>,
    <<"CYRILLIC CAPITAL LETTER UKRAINIAN IE", 1028>>, <<"CYRILLIC CAPITAL LETTER DZE", 1029>>,
    <<"CYRILLIC CAPITAL LETTER BYELORUSSIAN-UKRAINIAN I", 1030>>,
    <<"CYRILLIC CAPITAL LETTER YI", 1031>>, <<"CYRILLIC CAPITAL LETTER JE", 1032>>,
    <<"CYRILLIC CAPITAL LETTER LJE", 1033>>, <<"CYRILLIC CAPITAL LETTER NJE", 1034>>,
    <<"CYRILLIC CAPITAL LETTER TSHE", 1035>>, <<"CYRILLIC CAPITAL LETTER KJE", 1036>>,
    <<"CYRILLIC CAPITAL LETTER I WITH GRAVE", 1037>>, <<"CYRILLIC CAPITAL LETTER SHORT U", 1038>>,
    <<"CYRILLIC CAPITAL LETTER DZHE", 1039>>, <<"CYRILLIC CAPITAL LETTER A", 1040>>,
    <<"CYRILLIC CAPITAL LETTER BE", 1041>>, <<"CYRILLIC CAPITAL LETTER VE", 1042>>,
    <<"CYRILLIC CAPITAL LETTER GHE", 1043>>, <<"CYRILLIC CAPITAL LETTER DE", 1044>>,
    <<"CYRILLIC CAPITAL LETTER IE", 1045>>, <<"CYRILLIC CAPITAL LETTER ZHE", 1046>>,
    <<"CYRILLIC CAPITAL LETTER ZE", 1047>>, <<"CYRILLIC CAPITAL LETTER I", 1048>>,
    <<"CYRILLIC CAPITAL LETTER SHORT I", 1049>>, <<"CYRILLIC CAPITAL LETTER KA", 1050>>,
    <<"CYRILLIC CAPITAL LETTER EL", 1051>>, <<"CYRILLIC CAPITAL LETTER EM", 1052>>,
    <<"CYRILLIC CAPITAL LETTER EN", 1053>>, <<"CYRILLIC CAPITAL LETTER O", 1054>>,
    <<"CYRILLIC CAPITAL LETTER PE", 1055>>, <<"CYRILLIC CAPITAL LETTER ER", 1056>>,
    <<"CYRILLIC CAPITAL LETTER ES", 1057>>, <<"CYRILLIC CAPITAL LETTER TE", 1058>>,
    <<"CYRILLIC CAPITAL LETTER U", 1059>>, <<"CYRILLIC CAPITAL LETTER EF", 1060>>,
    <<"CYRILLIC CAPITAL LETTER HA", 1061>>, <<"CYRILLIC CAPITAL LETTER TSE", 1062>>,
    <<"CYRILLIC CAPITAL LETTER CHE", 1063>>, <<"CYRILLIC CAPITAL LETTER SHA", 1064>>,
    <<"CYRILLIC CAPITAL LETTER SHCHA", 1065>>, <<"CYRILLIC CAPITAL LETTER HARD SIGN", 1066>>,
    <<"CYRILLIC CAPITAL LETTER YERU", 1067>>, <<"CYRILLIC CAPITAL LETTER SOFT SIGN", 1068>>,
    <<"CYRILLIC CAPITAL LETTER E", 1069>>, <<"CYRILLIC CAPITAL LETTER YU", 1070>>,
    <<"CYRILLIC CAPITAL LETTER YA", 1071>>, <<"CYRILLIC SMALL LETTER A", 1072>>,
    <<"CYRILLIC SMALL LETTER BE", 1073>>, <<"CYRILLIC SMALL LETTER VE", 1074>>,
    <<"CYRILLIC SMALL LETTER GHE", 1075>>, <<"CYRILLIC SMALL LETTER DE", 1076>>,
    <<"CYRILLIC SMALL LETTER IE", 1077>>, <<"CYRILLIC SMALL LETTER ZHE", 1078>>,
    <<"CYRILLIC SMALL LETTER ZE", 1079>>, <<"CYRILLIC SMALL LETTER I", 1080>>,
    <<"CYRILLIC SMALL LETTER SHORT I", 1081>>, <<"CYRILLIC SMALL LETTER KA", 1082>>,
    <<"CYRILLIC SMALL LETTER EL", 1083>>, <<"CYRILLIC SMALL LETTER EM", 1084>>,
    <<"CYRILLIC SMALL LETTER EN", 1085>>, <<"CYRILLIC SMALL LETTER O", 1086>>,
    <<"CYRILLIC SMALL LETTER PE", 1087>>, <<"CYRILLIC SMALL LETTER ER", 1088>>,
    <<"CYRILLIC SMALL LETTER ES", 1089>>, <<"CYRILLIC SMALL LETTER TE", 1090>>,
    <<"CYRILLIC SMALL LETTER U", 1091>>, <<"CYRILLIC SMALL LETTER EF", 1092>>,
    <<"CYRILLIC SMALL LETTER HA", 1093>>, <<"CYRILLIC SMALL LETTER TSE", 1094>>,
    <<"CYRILLIC SMALL LETTER CHE", 1095>>, <<"CYRILLIC SMALL LETTER SHA", 1096>>,
    <<"CYRILLIC SMALL LETTER SHCHA", 1097>>, <<"CYRILLIC SMALL LETTER HARD SIGN", 1098>>,
    <<"CYRILLIC SMALL LETTER YERU", 1099>>, <<"CYRILLIC SMALL LETTER SOFT SIGN", 1100>>,
    <<"CYRILLIC SMALL LETTER E", 1101>>, <<"CYRILLIC SMALL LETTER YU", 1102>>,
    <<"CYRILLIC SMALL LETTER YA", 1103>>, <<"CYRILLIC SMALL LETTER IE WITH GRAVE", 1104>>,
    <<"CYRILLIC SMALL LETTER IO", 1105>>, <<"CYRILLIC SMALL LETTER DJE", 1106>>,
    <<"CYRILLIC SMALL LETTER GJE", 1107>>, <<"CYRILLIC SMALL LETTER UKRAINIAN IE", 1108>>,
    <<"CYRILLIC SMALL LETTER DZE", 1109>>, <<"CYRILLIC SMALL LETTER BYELORUSSIAN-UKRAINIAN I", 1110>>,
    <<"CYRILLIC SMALL LETTER YI", 1111>>, <<"CYRILLIC SMALL LETTER JE", 1112>>,
    <<"CYRILLIC SMALL LETTER LJE", 1113>>, <<"CYRILLIC SMALL LETTER NJE", 1114>>,
    <<"CYRILLIC SMALL LETTER TSHE", 1115>>, <<"CYRILLIC SMALL LETTER KJE", 1116>>,
    <<"CYRILLIC SMALL LETTER I WITH GRAVE", 1117>>, <<"CYRILLIC SMALL LETTER SHORT U", 1118>>,
    <<"CYRILLIC SMALL LETTER DZHE", 1119>>, <<"CYRILLIC CAPITAL LETTER OMEGA", 1120>>,
    <<"CYRILLIC SMALL LETTER OMEGA", 1121>>, <<"CYRILLIC CAPITAL LETTER YAT", 1122>>,
    <<"CYRILLIC SMALL LETTER YAT", 1123>>, <<"CYRILLIC CAPITAL LETTER IOTIFIED E", 1124>>,
    <<"CYRILLIC SMALL LETTER IOTIFIED E", 1125>>, <<"CYRILLIC CAPITAL LETTER LITTLE YUS", 1126>>,
    <<"CYRILLIC SMALL LETTER LITTLE YUS", 1127>>,
    <<"CYRILLIC CAPITAL LETTER IOTIFIED LITTLE YUS", 1128>>,
    <<"CYRILLIC SMALL LETTER IOTIFIED LITTLE YUS", 1129>>, <<"CYRILLIC CAPITAL LETTER BIG YUS", 1130>>,
    <<"CYRILLIC SMALL LETTER BIG YUS", 1131>>, <<"CYRILLIC CAPITAL LETTER IOTIFIED BIG YUS", 1132>>,
    <<"CYRILLIC SMALL LETTER IOTIFIED BIG YUS", 1133>>, <<"CYRILLIC CAPITAL LETTER KSI", 1134>>,
    <<"CYRILLIC SMALL LETTER KSI", 1135>>, <<"CYRILLIC CAPITAL LETTER PSI", 1136>>,
    <<"CYRILLIC SMALL LETTER PSI", 1137>>, <<"CYRILLIC CAPITAL LETTER FITA", 1138>>,
    <<"CYRILLIC SMALL LETTER FITA", 1139>>, <<"CYRILLIC CAPITAL LETTER IZHITSA", 1140>>,
    <<"CYRILLIC SMALL LETTER IZHITSA", 1141>>,
    <<"CYRILLIC CAPITAL LETTER IZHITSA WITH DOUBLE GRAVE ACCENT", 1142>>,
    <<"CYRILLIC SMALL LETTER IZHITSA WITH DOUBLE GRAVE ACCENT", 1143>>,
    <<"CYRILLIC CAPITAL LETTER UK", 1144>>, <<"CYRILLIC SMALL LETTER UK", 1145>>,
    <<"CYRILLIC CAPITAL LETTER ROUND OMEGA", 1146>>, <<"CYRILLIC SMALL LETTER ROUND OMEGA", 1147>>,
    <<"CYRILLIC CAPITAL LETTER OMEGA WITH TITLO", 1148>>,
    <<"CYRILLIC SMALL LETTER OMEGA WITH TITLO", 1149>>, <<"CYRILLIC CAPITAL LETTER OT", 1150>>,
    <<"CYRILLIC SMALL LETTER OT", 1151>>, <<"CYRILLIC CAPITAL LETTER KOPPA", 1152>>,
    <<"CYRILLIC SMALL LETTER KOPPA", 1153>>, <<"CYRILLIC THOUSANDS SIGN", 1154>>,
    <<"COMBINING CYRILLIC TITLO", 1155>>, <<"COMBINING CYRILLIC PALATALIZATION", 1156>>,
    <<"COMBINING CYRILLIC DASIA PNEUMATA", 1157>>, <<"COMBINING CYRILLIC PSILI PNEUMATA", 1158>>,
    <<"COMBINING CYRILLIC POKRYTIE", 1159>>, <<"COMBINING CYRILLIC HUNDRED THOUSANDS SIGN", 1160>>,
    <<"COMBINING CYRILLIC MILLIONS SIGN", 1161>>,
    <<"CYRILLIC CAPITAL LETTER SHORT I WITH TAIL", 1162>>,
    <<"CYRILLIC SMALL LETTER SHORT I WITH TAIL", 1163>>,
    <<"CYRILLIC CAPITAL LETTER SEMISOFT SIGN", 1164>>, <<"CYRILLIC SMALL LETTER SEMISOFT SIGN", 1165>>,
    <<"CYRILLIC CAPITAL LETTER ER WITH TICK", 1166>>, <<"CYRILLIC SMALL LETTER ER WITH TICK", 1167>>,
    <<"CYRILLIC CAPITAL LETTER GHE WITH UPTURN", 1168>>,
    <<"CYRILLIC SMALL LETTER GHE WITH UPTURN", 1169>>,
    <<"CYRILLIC CAPITAL LETTER GHE WITH STROKE", 1170>>,
    <<"CYRILLIC SMALL LETTER GHE WITH STROKE", 1171>>,
    <<"CYRILLIC CAPITAL LETTER GHE WITH MIDDLE HOOK", 1172>>,
    <<"CYRILLIC SMALL LETTER GHE WITH MIDDLE HOOK", 1173>>,
    <<"CYRILLIC CAPITAL LETTER ZHE WITH DESCENDER", 1174>>,
    <<"CYRILLIC SMALL LETTER ZHE WITH DESCENDER", 1175>>,
    <<"CYRILLIC CAPITAL LETTER ZE WITH DESCENDER", 1176>>,
    <<"CYRILLIC SMALL LETTER ZE WITH DESCENDER", 1177>>,
    <<"CYRILLIC CAPITAL LETTER KA WITH DESCENDER", 1178>>,
    <<"CYRILLIC SMALL LETTER KA WITH DESCENDER", 1179>>,
    <<"CYRILLIC CAPITAL LETTER KA WITH VERTICAL STROKE", 1180>>,
    <<"CYRILLIC SMALL LETTER KA WITH VERTICAL STROKE", 1181>>,
    <<"CYRILLIC CAPITAL LETTER KA WITH STROKE", 1182>>,
    <<"CYRILLIC SMALL LETTER KA WITH STROKE", 1183>>, <<"CYRILLIC CAPITAL LETTER BASHKIR KA", 1184>>,
    <<"CYRILLIC SMALL LETTER BASHKIR KA", 1185>>,
    <<"CYRILLIC CAPITAL LETTER EN WITH DESCENDER", 1186>>,
    <<"CYRILLIC SMALL LETTER EN WITH DESCENDER", 1187>>, <<"CYRILLIC CAPITAL LIGATURE EN GHE", 1188>>,
    <<"CYRILLIC SMALL LIGATURE EN GHE", 1189>>,
    <<"CYRILLIC CAPITAL LETTER PE WITH MIDDLE HOOK", 1190>>,
    <<"CYRILLIC SMALL LETTER PE WITH MIDDLE HOOK", 1191>>,
    <<"CYRILLIC CAPITAL LETTER ABKHASIAN HA", 1192>>, <<"CYRILLIC SMALL LETTER ABKHASIAN HA", 1193>>,
    <<"CYRILLIC CAPITAL LETTER ES WITH DESCENDER", 1194>>,
    <<"CYRILLIC SMALL LETTER ES WITH DESCENDER", 1195>>,
    <<"CYRILLIC CAPITAL LETTER TE WITH DESCENDER", 1196>>,
    <<"CYRILLIC SMALL LETTER TE WITH DESCENDER", 1197>>,
    <<"CYRILLIC CAPITAL LETTER STRAIGHT U", 1198>>, <<"CYRILLIC SMALL LETTER STRAIGHT U", 1199>>,
    <<"CYRILLIC CAPITAL LETTER STRAIGHT U WITH STROKE", 1200>>,
    <<"CYRILLIC SMALL LETTER STRAIGHT U WITH STROKE", 1201>>,
    <<"CYRILLIC CAPITAL LETTER HA WITH DESCENDER", 1202>>,
    <<"CYRILLIC SMALL LETTER HA WITH DESCENDER", 1203>>, <<"CYRILLIC CAPITAL LIGATURE TE TSE", 1204>>,
    <<"CYRILLIC SMALL LIGATURE TE TSE", 1205>>, <<"CYRILLIC CAPITAL LETTER CHE WITH DESCENDER", 1206>>,
    <<"CYRILLIC SMALL LETTER CHE WITH DESCENDER", 1207>>,
    <<"CYRILLIC CAPITAL LETTER CHE WITH VERTICAL STROKE", 1208>>,
    <<"CYRILLIC SMALL LETTER CHE WITH VERTICAL STROKE", 1209>>,
    <<"CYRILLIC CAPITAL LETTER SHHA", 1210>>, <<"CYRILLIC SMALL LETTER SHHA", 1211>>,
    <<"CYRILLIC CAPITAL LETTER ABKHASIAN CHE", 1212>>, <<"CYRILLIC SMALL LETTER ABKHASIAN CHE", 1213>>,
    <<"CYRILLIC CAPITAL LETTER ABKHASIAN CHE WITH DESCENDER", 1214>>,
    <<"CYRILLIC SMALL LETTER ABKHASIAN CHE WITH DESCENDER", 1215>>,
    <<"CYRILLIC LETTER PALOCHKA", 1216>>, <<"CYRILLIC CAPITAL LETTER ZHE WITH BREVE", 1217>>,
    <<"CYRILLIC SMALL LETTER ZHE WITH BREVE", 1218>>, <<"CYRILLIC CAPITAL LETTER KA WITH HOOK", 1219>>,
    <<"CYRILLIC SMALL LETTER KA WITH HOOK", 1220>>, <<"CYRILLIC CAPITAL LETTER EL WITH TAIL", 1221>>,
    <<"CYRILLIC SMALL LETTER EL WITH TAIL", 1222>>, <<"CYRILLIC CAPITAL LETTER EN WITH HOOK", 1223>>,
    <<"CYRILLIC SMALL LETTER EN WITH HOOK", 1224>>, <<"CYRILLIC CAPITAL LETTER EN WITH TAIL", 1225>>,
    <<"CYRILLIC SMALL LETTER EN WITH TAIL", 1226>>, <<"CYRILLIC CAPITAL LETTER KHAKASSIAN CHE", 1227>>,
    <<"CYRILLIC SMALL LETTER KHAKASSIAN CHE", 1228>>, <<"CYRILLIC CAPITAL LETTER EM WITH TAIL", 1229>>,
    <<"CYRILLIC SMALL LETTER EM WITH TAIL", 1230>>, <<"CYRILLIC SMALL LETTER PALOCHKA", 1231>>,
    <<"CYRILLIC CAPITAL LETTER A WITH BREVE", 1232>>, <<"CYRILLIC SMALL LETTER A WITH BREVE", 1233>>,
    <<"CYRILLIC CAPITAL LETTER A WITH DIAERESIS", 1234>>,
    <<"CYRILLIC SMALL LETTER A WITH DIAERESIS", 1235>>, <<"CYRILLIC CAPITAL LIGATURE A IE", 1236>>,
    <<"CYRILLIC SMALL LIGATURE A IE", 1237>>, <<"CYRILLIC CAPITAL LETTER IE WITH BREVE", 1238>>,
    <<"CYRILLIC SMALL LETTER IE WITH BREVE", 1239>>, <<"CYRILLIC CAPITAL LETTER SCHWA", 1240>>,
    <<"CYRILLIC SMALL LETTER SCHWA", 1241>>, <<"CYRILLIC CAPITAL LETTER SCHWA WITH DIAERESIS", 1242>>,
    <<"CYRILLIC SMALL LETTER SCHWA WITH DIAERESIS", 1243>>,
    <<"CYRILLIC CAPITAL LETTER ZHE WITH DIAERESIS", 1244>>,
    <<"CYRILLIC SMALL LETTER ZHE WITH DIAERESIS", 1245>>,
    <<"CYRILLIC CAPITAL LETTER ZE WITH DIAERESIS", 1246>>,
    <<"CYRILLIC SMALL LETTER ZE WITH DIAERESIS", 1247>>,
    <<"CYRILLIC CAPITAL LETTER ABKHASIAN DZE", 1248>>, <<"CYRILLIC SMALL LETTER ABKHASIAN DZE", 1249>>,
    <<"CYRILLIC CAPITAL LETTER I WITH MACRON", 1250>>, <<"CYRILLIC SMALL LETTER I WITH MACRON", 1251>>,
    <<"CYRILLIC CAPITAL LETTER I WITH DIAERESIS", 1252>>,
    <<"CYRILLIC SMALL LETTER I WITH DIAERESIS", 1253>>,
    <<"CYRILLIC CAPITAL LETTER O WITH DIAERESIS", 1254>>,
    <<"CYRILLIC SMALL LETTER O WITH DIAERESIS", 1255>>, <<"CYRILLIC CAPITAL LETTER BARRED O", 1256>>,
    <<"CYRILLIC SMALL LETTER BARRED O", 1257>>,
    <<"CYRILLIC CAPITAL LETTER BARRED O WITH DIAERESIS", 1258>>,
    <<"CYRILLIC SMALL LETTER BARRED O WITH DIAERESIS", 1259>>,
    <<"CYRILLIC CAPITAL LETTER E WITH DIAERESIS", 1260>>,
    <<"CYRILLIC SMALL LETTER E WITH DIAERESIS", 1261>>,
    <<"CYRILLIC CAPITAL LETTER U WITH MACRON", 1262>>, <<"CYRILLIC SMALL LETTER U WITH MACRON", 1263>>,
    <<"CYRILLIC CAPITAL LETTER U WITH DIAERESIS", 1264>>,
    <<"CYRILLIC SMALL LETTER U WITH DIAERESIS", 1265>>,
    <<"CYRILLIC CAPITAL LETTER U WITH DOUBLE ACUTE", 1266>>,
    <<"CYRILLIC SMALL LETTER U WITH DOUBLE ACUTE", 1267>>,
    <<"CYRILLIC CAPITAL LETTER CHE WITH DIAERESIS", 1268>>,
    <<"CYRILLIC SMALL LETTER CHE WITH DIAERESIS", 1269>>,
    <<"CYRILLIC CAPITAL LETTER GHE WITH DESCENDER", 1270>>,
    <<"CYRILLIC SMALL LETTER GHE WITH DESCENDER", 1271>>,
    <<"CYRILLIC CAPITAL LETTER YERU WITH DIAERESIS", 1272>>,
    <<"CYRILLIC SMALL LETTER YERU WITH DIAERESIS", 1273>>,
    <<"CYRILLIC CAPITAL LETTER GHE WITH STROKE AND HOOK", 1274>>,
    <<"CYRILLIC SMALL LETTER GHE WITH STROKE AND HOOK", 1275>>,
    <<"CYRILLIC CAPITAL LETTER HA WITH HOOK", 1276>>, <<"CYRILLIC SMALL LETTER HA WITH HOOK", 1277>>,
    <<"CYRILLIC CAPITAL LETTER HA WITH STROKE", 1278>>,
    <<"CYRILLIC SMALL LETTER HA WITH STROKE", 1279>>, <<"CYRILLIC CAPITAL LETTER KOMI DE", 1280>>,
    <<"CYRILLIC SMALL LETTER KOMI DE", 1281>>, <<"CYRILLIC CAPITAL LETTER KOMI DJE", 1282>>,
    <<"CYRILLIC SMALL LETTER KOMI DJE", 1283>>, <<"CYRILLIC CAPITAL LETTER KOMI ZJE", 1284>>,
    <<"CYRILLIC SMALL LETTER KOMI ZJE", 1285>>, <<"CYRILLIC CAPITAL LETTER KOMI DZJE", 1286>>,
    <<"CYRILLIC SMALL LETTER KOMI DZJE", 1287>>, <<"CYRILLIC CAPITAL LETTER KOMI LJE", 1288>>,
    <<"CYRILLIC SMALL LETTER KOMI LJE", 1289>>, <<"CYRILLIC CAPITAL LETTER KOMI NJE", 1290>>,
    <<"CYRILLIC SMALL LETTER KOMI NJE", 1291>>, <<"CYRILLIC CAPITAL LETTER KOMI SJE", 1292>>,
    <<"CYRILLIC SMALL LETTER KOMI SJE", 1293>>, <<"CYRILLIC CAPITAL LETTER KOMI TJE", 1294>>,
    <<"CYRILLIC SMALL LETTER KOMI TJE", 1295>>, <<"CYRILLIC CAPITAL LETTER REVERSED ZE", 1296>>,
    <<"CYRILLIC SMALL LETTER REVERSED ZE", 1297>>, <<"CYRILLIC CAPITAL LETTER EL WITH HOOK", 1298>>,
    <<"CYRILLIC SMALL LETTER EL WITH HOOK", 1299>>, <<"CYRILLIC CAPITAL LETTER LHA", 1300>>,
    <<"CYRILLIC SMALL LETTER LHA", 1301>>, <<"CYRILLIC CAPITAL LETTER RHA", 1302>>,
    <<"CYRILLIC SMALL LETTER RHA", 1303>>, <<"CYRILLIC CAPITAL LETTER YAE", 1304>>,
    <<"CYRILLIC SMALL LETTER YAE", 1305>>, <<"CYRILLIC CAPITAL LETTER QA", 1306>>,
    <<"CYRILLIC SMALL LETTER QA", 1307>>, <<"CYRILLIC CAPITAL LETTER WE", 1308>>,
    <<"CYRILLIC SMALL LETTER WE", 1309>>, <<"CYRILLIC CAPITAL LETTER ALEUT KA", 1310>>,
    <<"CYRILLIC SMALL LETTER ALEUT KA", 1311>>,
    <<"CYRILLIC CAPITAL LETTER EL WITH MIDDLE HOOK", 1312>>,
    <<"CYRILLIC SMALL LETTER EL WITH MIDDLE HOOK", 1313>>,
    <<"CYRILLIC CAPITAL LETTER EN WITH MIDDLE HOOK", 1314>>,
    <<"CYRILLIC SMALL LETTER EN WITH MIDDLE HOOK", 1315>>,
    <<"CYRILLIC CAPITAL LETTER PE WITH DESCENDER", 1316>>,
    <<"CYRILLIC SMALL LETTER PE WITH DESCENDER", 1317>>,
    <<"CYRILLIC CAPITAL LETTER SHHA WITH DESCENDER", 1318>>,
    <<"CYRILLIC SMALL LETTER SHHA WITH DESCENDER", 1319>>,
    <<"CYRILLIC CAPITAL LETTER EN WITH LEFT HOOK", 1320>>,
    <<"CYRILLIC SMALL LETTER EN WITH LEFT HOOK", 1321>>, <<"CYRILLIC CAPITAL LETTER DZZHE", 1322>>,
    <<"CYRILLIC SMALL LETTER DZZHE", 1323>>, <<"CYRILLIC CAPITAL LETTER DCHE", 1324>>,
    <<"CYRILLIC SMALL LETTER DCHE", 1325>>, <<"CYRILLIC CAPITAL LETTER EL WITH DESCENDER", 1326>>,
    <<"CYRILLIC SMALL LETTER EL WITH DESCENDER", 1327>>, <<"ARMENIAN CAPITAL LETTER AYB", 1329>>,
    <<"ARMENIAN CAPITAL LETTER BEN", 1330>>, <<"ARMENIAN CAPITAL LETTER GIM", 1331>>,
    <<"ARMENIAN CAPITAL LETTER DA", 1332>>, <<"ARMENIAN CAPITAL LETTER ECH", 1333>>,
    <<"ARMENIAN CAPITAL LETTER ZA", 1334>>, <<"ARMENIAN CAPITAL LETTER EH", 1335>>,
    <<"ARMENIAN CAPITAL LETTER ET", 1336>>, <<"ARMENIAN CAPITAL LETTER TO", 1337>>,
    <<"ARMENIAN CAPITAL LETTER ZHE", 1338>>, <<"ARMENIAN CAPITAL LETTER INI", 1339>>,
    <<"ARMENIAN CAPITAL LETTER LIWN", 1340>>, <<"ARMENIAN CAPITAL LETTER XEH", 1341>>,
    <<"ARMENIAN CAPITAL LETTER CA", 1342>>, <<"ARMENIAN CAPITAL LETTER KEN", 1343>>,
    <<"ARMENIAN CAPITAL LETTER HO", 1344>>, <<"ARMENIAN CAPITAL LETTER JA", 1345>>,
    <<"ARMENIAN CAPITAL LETTER GHAD", 1346>>, <<"ARMENIAN CAPITAL LETTER CHEH", 1347>>,
    <<"ARMENIAN CAPITAL LETTER MEN", 1348>>, <<"ARMENIAN CAPITAL LETTER YI", 1349>>,
    <<"ARMENIAN CAPITAL LETTER NOW", 1350>>, <<"ARMENIAN CAPITAL LETTER SHA", 1351>>,
    <<"ARMENIAN CAPITAL LETTER VO", 1352>>, <<"ARMENIAN CAPITAL LETTER CHA", 1353>>,
    <<"ARMENIAN CAPITAL LETTER PEH", 1354>>, <<"ARMENIAN CAPITAL LETTER JHEH", 1355>>,
    <<"ARMENIAN CAPITAL LETTER RA", 1356>>, <<"ARMENIAN CAPITAL LETTER SEH", 1357>>,
    <<"ARMENIAN CAPITAL LETTER VEW", 1358>>, <<"ARMENIAN CAPITAL LETTER TIWN", 1359>>,
    <<"ARMENIAN CAPITAL LETTER REH", 1360>>, <<"ARMENIAN CAPITAL LETTER CO", 1361>>,
    <<"ARMENIAN CAPITAL LETTER YIWN", 1362>>, <<"ARMENIAN CAPITAL LETTER PIWR", 1363>>,
    <<"ARMENIAN CAPITAL LETTER KEH", 1364>>, <<"ARMENIAN CAPITAL LETTER OH", 1365>>,
    <<"ARMENIAN CAPITAL LETTER FEH", 1366>>, <<"ARMENIAN MODIFIER LETTER LEFT HALF RING", 1369>>,
    <<"ARMENIAN APOSTROPHE", 1370>>, <<"ARMENIAN EMPHASIS MARK", 1371>>,
    <<"ARMENIAN EXCLAMATION MARK", 1372>>, <<"ARMENIAN COMMA", 1373>>,
    <<"ARMENIAN QUESTION MARK", 1374>>, <<"ARMENIAN ABBREVIATION MARK", 1375>>,
    <<"ARMENIAN SMALL LETTER TURNED AYB", 1376>>, <<"ARMENIAN SMALL LETTER AYB", 1377>>,
    <<"ARMENIAN SMALL LETTER BEN", 1378>>, <<"ARMENIAN SMALL LETTER GIM", 1379>>,
    <<"ARMENIAN SMALL LETTER DA", 1380>>, <<"ARMENIAN SMALL LETTER ECH", 1381>>,
    <<"ARMENIAN SMALL LETTER ZA", 1382>>, <<"ARMENIAN SMALL LETTER EH", 1383>>,
    <<"ARMENIAN SMALL LETTER ET", 1384>>, <<"ARMENIAN SMALL LETTER TO", 1385>>,
    <<"ARMENIAN SMALL LETTER ZHE", 1386>>, <<"ARMENIAN SMALL LETTER INI", 1387>>,
    <<"ARMENIAN SMALL LETTER LIWN", 1388>>, <<"ARMENIAN SMALL LETTER XEH", 1389>>,
    <<"ARMENIAN SMALL LETTER CA", 1390>>, <<"ARMENIAN SMALL LETTER KEN", 1391>>,
    <<"ARMENIAN SMALL LETTER HO", 1392>>, <<"ARMENIAN SMALL LETTER JA", 1393>>,
    <<"ARMENIAN SMALL LETTER GHAD", 1394>>, <<"ARMENIAN SMALL LETTER CHEH", 1395>>,
    <<"ARMENIAN SMALL LETTER MEN", 1396>>, <<"ARMENIAN SMALL LETTER YI", 1397>>,
    <<"ARMENIAN SMALL LETTER NOW", 1398>>, <<"ARMENIAN SMALL LETTER SHA", 1399>>,
    <<"ARMENIAN SMALL LETTER VO", 1400>>, <<"ARMENIAN SMALL LETTER CHA", 1401>>,
    <<"ARMENIAN SMALL LETTER PEH", 1402>>, <<"ARMENIAN SMALL LETTER JHEH", 1403>>,
    <<"ARMENIAN SMALL LETTER RA", 1404>>, <<"ARMENIAN SMALL LETTER SEH", 1405>>,
    <<"ARMENIAN SMALL LETTER VEW", 1406>>, <<"ARMENIAN SMALL LETTER TIWN", 1407>>,
    <<"ARMENIAN SMALL LETTER REH", 1408>>, <<"ARMENIAN SMALL LETTER CO", 1409>>,
    <<"ARMENIAN SMALL LETTER YIWN", 1410>>, <<"ARMENIAN SMALL LETTER PIWR", 1411>>,
    <<"ARMENIAN SMALL LETTER KEH", 1412>>, <<"ARMENIAN SMALL LETTER OH", 1413>>,
    <<"ARMENIAN SMALL LETTER FEH", 1414>>, <<"ARMENIAN SMALL LIGATURE ECH YIWN", 1415>>,
    <<"ARMENIAN SMALL LETTER YI WITH STROKE", 1416>>, <<"ARMENIAN FULL STOP", 1417>>,
    <<"ARMENIAN HYPHEN", 1418>>, <<"RIGHT-FACING ARMENIAN ETERNITY SIGN", 1421>>,
    <<"LEFT-FACING ARMENIAN ETERNITY SIGN", 1422>>, <<"ARMENIAN DRAM SIGN", 1423>>,
    <<"HEBREW ACCENT ETNAHTA", 1425>>, <<"HEBREW ACCENT SEGOL", 1426>>,
    <<"HEBREW ACCENT SHALSHELET", 1427>>, <<"HEBREW ACCENT ZAQEF QATAN", 1428>>,
    <<"HEBREW ACCENT ZAQEF GADOL", 1429>>, <<"HEBREW ACCENT TIPEHA", 1430>>,
    <<"HEBREW ACCENT REVIA", 1431>>, <<"HEBREW ACCENT ZARQA", 1432>>, <<"HEBREW ACCENT PASHTA", 1433>>,
    <<"HEBREW ACCENT YETIV", 1434>>, <<"HEBREW ACCENT TEVIR", 1435>>, <<"HEBREW ACCENT GERESH", 1436>>,
    <<"HEBREW ACCENT GERESH MUQDAM", 1437>>, <<"HEBREW ACCENT GERSHAYIM", 1438>>,
    <<"HEBREW ACCENT QARNEY PARA", 1439>>, <<"HEBREW ACCENT TELISHA GEDOLA", 1440>>,
    <<"HEBREW ACCENT PAZER", 1441>>, <<"HEBREW ACCENT ATNAH HAFUKH", 1442>>,
    <<"HEBREW ACCENT MUNAH", 1443>>, <<"HEBREW ACCENT MAHAPAKH", 1444>>,
    <<"HEBREW ACCENT MERKHA", 1445>>, <<"HEBREW ACCENT MERKHA KEFULA", 1446>>,
    <<"HEBREW ACCENT DARGA", 1447>>, <<"HEBREW ACCENT QADMA", 1448>>,
    <<"HEBREW ACCENT TELISHA QETANA", 1449>>, <<"HEBREW ACCENT YERAH BEN YOMO", 1450>>,
    <<"HEBREW ACCENT OLE", 1451>>, <<"HEBREW ACCENT ILUY", 1452>>, <<"HEBREW ACCENT DEHI", 1453>>,
    <<"HEBREW ACCENT ZINOR", 1454>>, <<"HEBREW MARK MASORA CIRCLE", 1455>>,
    <<"HEBREW POINT SHEVA", 1456>>, <<"HEBREW POINT HATAF SEGOL", 1457>>,
    <<"HEBREW POINT HATAF PATAH", 1458>>, <<"HEBREW POINT HATAF QAMATS", 1459>>,
    <<"HEBREW POINT HIRIQ", 1460>>, <<"HEBREW POINT TSERE", 1461>>, <<"HEBREW POINT SEGOL", 1462>>,
    <<"HEBREW POINT PATAH", 1463>>, <<"HEBREW POINT QAMATS", 1464>>, <<"HEBREW POINT HOLAM", 1465>>,
    <<"HEBREW POINT HOLAM HASER FOR VAV", 1466>>, <<"HEBREW POINT QUBUTS", 1467>>,
    <<"HEBREW POINT DAGESH OR MAPIQ", 1468>>, <<"HEBREW POINT METEG", 1469>>,
    <<"HEBREW PUNCTUATION MAQAF", 1470>>, <<"HEBREW POINT RAFE", 1471>>,
    <<"HEBREW PUNCTUATION PASEQ", 1472>>, <<"HEBREW POINT SHIN DOT", 1473>>,
    <<"HEBREW POINT SIN DOT", 1474>>, <<"HEBREW PUNCTUATION SOF PASUQ", 1475>>,
    <<"HEBREW MARK UPPER DOT", 1476>>, <<"HEBREW MARK LOWER DOT", 1477>>,
    <<"HEBREW PUNCTUATION NUN HAFUKHA", 1478>>, <<"HEBREW POINT QAMATS QATAN", 1479>>,
    <<"HEBREW LETTER ALEF", 1488>>, <<"HEBREW LETTER BET", 1489>>, <<"HEBREW LETTER GIMEL", 1490>>,
    <<"HEBREW LETTER DALET", 1491>>, <<"HEBREW LETTER HE", 1492>>, <<"HEBREW LETTER VAV", 1493>>,
    <<"HEBREW LETTER ZAYIN", 1494>>, <<"HEBREW LETTER HET", 1495>>, <<"HEBREW LETTER TET", 1496>>,
    <<"HEBREW LETTER YOD", 1497>>, <<"HEBREW LETTER FINAL KAF", 1498>>, <<"HEBREW LETTER KAF", 1499>>,
    <<"HEBREW LETTER LAMED", 1500>>, <<"HEBREW LETTER FINAL MEM", 1501>>,
    <<"HEBREW LETTER MEM", 1502>>, <<"HEBREW LETTER FINAL NUN", 1503>>, <<"HEBREW LETTER NUN", 1504>>,
    <<"HEBREW LETTER SAMEKH", 1505>>, <<"HEBREW LETTER AYIN", 1506>>,
    <<"HEBREW LETTER FINAL PE", 1507>>, <<"HEBREW LETTER PE", 1508>>,
    <<"HEBREW LETTER FINAL TSADI", 1509>>, <<"HEBREW LETTER TSADI", 1510>>,
    <<"HEBREW LETTER QOF", 1511>>, <<"HEBREW LETTER RESH", 1512>>, <<"HEBREW LETTER SHIN", 1513>>,
    <<"HEBREW LETTER TAV", 1514>>, <<"HEBREW YOD TRIANGLE", 1519>>,
    <<"HEBREW LIGATURE YIDDISH DOUBLE VAV", 1520>>, <<"HEBREW LIGATURE YIDDISH VAV YOD", 1521>>,
    <<"HEBREW LIGATURE YIDDISH DOUBLE YOD", 1522>>, <<"HEBREW PUNCTUATION GERESH", 1523>>,
    <<"HEBREW PUNCTUATION GERSHAYIM", 1524>>, <<"ARABIC NUMBER SIGN", 1536>>,
    <<"ARABIC SIGN SANAH", 1537>>, <<"ARABIC FOOTNOTE MARKER", 1538>>, <<"ARABIC SIGN SAFHA", 1539>>,
    <<"ARABIC SIGN SAMVAT", 1540>>, <<"ARABIC NUMBER MARK ABOVE", 1541>>,
    <<"ARABIC-INDIC CUBE ROOT", 1542>>, <<"ARABIC-INDIC FOURTH ROOT", 1543>>, <<"ARABIC RAY", 1544>>,
    <<"ARABIC-INDIC PER MILLE SIGN", 1545>>, <<"ARABIC-INDIC PER TEN THOUSAND SIGN", 1546>>,
    <<"AFGHANI SIGN", 1547>>, <<"ARABIC COMMA", 1548>>, <<"ARABIC DATE SEPARATOR", 1549>>,
    <<"ARABIC POETIC VERSE SIGN", 1550>>, <<"ARABIC SIGN MISRA", 1551>>,
    <<"ARABIC SIGN SALLALLAHOU ALAYHE WASSALLAM", 1552>>, <<"ARABIC SIGN ALAYHE ASSALLAM", 1553>>,
    <<"ARABIC SIGN RAHMATULLAH ALAYHE", 1554>>, <<"ARABIC SIGN RADI ALLAHOU ANHU", 1555>>,
    <<"ARABIC SIGN TAKHALLUS", 1556>>, <<"ARABIC SMALL HIGH TAH", 1557>>,
    <<"ARABIC SMALL HIGH LIGATURE ALEF WITH LAM WITH YEH", 1558>>, <<"ARABIC SMALL HIGH ZAIN", 1559>>,
    <<"ARABIC SMALL FATHA", 1560>>, <<"ARABIC SMALL DAMMA", 1561>>, <<"ARABIC SMALL KASRA", 1562>>,
    <<"ARABIC SEMICOLON", 1563>>, <<"ALM", 1564>>, <<"ARABIC LETTER MARK", 1564>>,
    <<"ARABIC END OF TEXT MARK", 1565>>, <<"ARABIC TRIPLE DOT PUNCTUATION MARK", 1566>>,
    <<"ARABIC QUESTION MARK", 1567>>, <<"ARABIC LETTER KASHMIRI YEH", 1568>>,
    <<"ARABIC LETTER HAMZA", 1569>>, <<"ARABIC LETTER ALEF WITH MADDA ABOVE", 1570>>,
    <<"ARABIC LETTER ALEF WITH HAMZA ABOVE", 1571>>, <<"ARABIC LETTER WAW WITH HAMZA ABOVE", 1572>>,
    <<"ARABIC LETTER ALEF WITH HAMZA BELOW", 1573>>, <<"ARABIC LETTER YEH WITH HAMZA ABOVE", 1574>>,
    <<"ARABIC LETTER ALEF", 1575>>, <<"ARABIC LETTER BEH", 1576>>,
    <<"ARABIC LETTER TEH MARBUTA", 1577>>, <<"ARABIC LETTER TEH", 1578>>,
    <<"ARABIC LETTER THEH", 1579>>, <<"ARABIC LETTER JEEM", 1580>>, <<"ARABIC LETTER HAH", 1581>>,
    <<"ARABIC LETTER KHAH", 1582>>, <<"ARABIC LETTER DAL", 1583>>, <<"ARABIC LETTER THAL", 1584>>,
    <<"ARABIC LETTER REH", 1585>>, <<"ARABIC LETTER ZAIN", 1586>>, <<"ARABIC LETTER SEEN", 1587>>,
    <<"ARABIC LETTER SHEEN", 1588>>, <<"ARABIC LETTER SAD", 1589>>, <<"ARABIC LETTER DAD", 1590>>,
    <<"ARABIC LETTER TAH", 1591>>, <<"ARABIC LETTER ZAH", 1592>>, <<"ARABIC LETTER AIN", 1593>>,
    <<"ARABIC LETTER GHAIN", 1594>>, <<"ARABIC LETTER KEHEH WITH TWO DOTS ABOVE", 1595>>,
    <<"ARABIC LETTER KEHEH WITH THREE DOTS BELOW", 1596>>,
    <<"ARABIC LETTER FARSI YEH WITH INVERTED V", 1597>>,
    <<"ARABIC LETTER FARSI YEH WITH TWO DOTS ABOVE", 1598>>,
    <<"ARABIC LETTER FARSI YEH WITH THREE DOTS ABOVE", 1599>>, <<"ARABIC TATWEEL", 1600>>,
    <<"ARABIC LETTER FEH", 1601>>, <<"ARABIC LETTER QAF", 1602>>, <<"ARABIC LETTER KAF", 1603>>,
    <<"ARABIC LETTER LAM", 1604>>, <<"ARABIC LETTER MEEM", 1605>>, <<"ARABIC LETTER NOON", 1606>>,
    <<"ARABIC LETTER HEH", 1607>>, <<"ARABIC LETTER WAW", 1608>>,
    <<"ARABIC LETTER ALEF MAKSURA", 1609>>, <<"ARABIC LETTER YEH", 1610>>, <<"ARABIC FATHATAN", 1611>>,
    <<"ARABIC DAMMATAN", 1612>>, <<"ARABIC KASRATAN", 1613>>, <<"ARABIC FATHA", 1614>>,
    <<"ARABIC DAMMA", 1615>>, <<"ARABIC KASRA", 1616>>, <<"ARABIC SHADDA", 1617>>,
    <<"ARABIC SUKUN", 1618>>, <<"ARABIC MADDAH ABOVE", 1619>>, <<"ARABIC HAMZA ABOVE", 1620>>,
    <<"ARABIC HAMZA BELOW", 1621>>, <<"ARABIC SUBSCRIPT ALEF", 1622>>,
    <<"ARABIC INVERTED DAMMA", 1623>>, <<"ARABIC MARK NOON GHUNNA", 1624>>,
    <<"ARABIC ZWARAKAY", 1625>>, <<"ARABIC VOWEL SIGN SMALL V ABOVE", 1626>>,
    <<"ARABIC VOWEL SIGN INVERTED SMALL V ABOVE", 1627>>, <<"ARABIC VOWEL SIGN DOT BELOW", 1628>>,
    <<"ARABIC REVERSED DAMMA", 1629>>, <<"ARABIC FATHA WITH TWO DOTS", 1630>>,
    <<"ARABIC WAVY HAMZA BELOW", 1631>>, <<"ARABIC-INDIC DIGIT ZERO", 1632>>,
    <<"ARABIC-INDIC DIGIT ONE", 1633>>, <<"ARABIC-INDIC DIGIT TWO", 1634>>,
    <<"ARABIC-INDIC DIGIT THREE", 1635>>, <<"ARABIC-INDIC DIGIT FOUR", 1636>>,
    <<"ARABIC-INDIC DIGIT FIVE", 1637>>, <<"ARABIC-INDIC DIGIT SIX", 1638>>,
    <<"ARABIC-INDIC DIGIT SEVEN", 1639>>, <<"ARABIC-INDIC DIGIT EIGHT", 1640>>,
    <<"ARABIC-INDIC DIGIT NINE", 1641>>, <<"ARABIC PERCENT SIGN", 1642>>,
    <<"ARABIC DECIMAL SEPARATOR", 1643>>, <<"ARABIC THOUSANDS SEPARATOR", 1644>>,
    <<"ARABIC FIVE POINTED STAR", 1645>>, <<"ARABIC LETTER DOTLESS BEH", 1646>>,
    <<"ARABIC LETTER DOTLESS QAF", 1647>>, <<"ARABIC LETTER SUPERSCRIPT ALEF", 1648>>,
    <<"ARABIC LETTER ALEF WASLA", 1649>>, <<"ARABIC LETTER ALEF WITH WAVY HAMZA ABOVE", 1650>>,
    <<"ARABIC LETTER ALEF WITH WAVY HAMZA BELOW", 1651>>, <<"ARABIC LETTER HIGH HAMZA", 1652>>,
    <<"ARABIC LETTER HIGH HAMZA ALEF", 1653>>, <<"ARABIC LETTER HIGH HAMZA WAW", 1654>>,
    <<"ARABIC LETTER U WITH HAMZA ABOVE", 1655>>, <<"ARABIC LETTER HIGH HAMZA YEH", 1656>>,
    <<"ARABIC LETTER TTEH", 1657>>, <<"ARABIC LETTER TTEHEH", 1658>>, <<"ARABIC LETTER BEEH", 1659>>,
    <<"ARABIC LETTER TEH WITH RING", 1660>>,
    <<"ARABIC LETTER TEH WITH THREE DOTS ABOVE DOWNWARDS", 1661>>, <<"ARABIC LETTER PEH", 1662>>,
    <<"ARABIC LETTER TEHEH", 1663>>, <<"ARABIC LETTER BEHEH", 1664>>,
    <<"ARABIC LETTER HAH WITH HAMZA ABOVE", 1665>>,
    <<"ARABIC LETTER HAH WITH TWO DOTS VERTICAL ABOVE", 1666>>, <<"ARABIC LETTER NYEH", 1667>>,
    <<"ARABIC LETTER DYEH", 1668>>, <<"ARABIC LETTER HAH WITH THREE DOTS ABOVE", 1669>>,
    <<"ARABIC LETTER TCHEH", 1670>>, <<"ARABIC LETTER TCHEHEH", 1671>>, <<"ARABIC LETTER DDAL", 1672>>,
    <<"ARABIC LETTER DAL WITH RING", 1673>>, <<"ARABIC LETTER DAL WITH DOT BELOW", 1674>>,
    <<"ARABIC LETTER DAL WITH DOT BELOW AND SMALL TAH", 1675>>, <<"ARABIC LETTER DAHAL", 1676>>,
    <<"ARABIC LETTER DDAHAL", 1677>>, <<"ARABIC LETTER DUL", 1678>>,
    <<"ARABIC LETTER DAL WITH THREE DOTS ABOVE DOWNWARDS", 1679>>,
    <<"ARABIC LETTER DAL WITH FOUR DOTS ABOVE", 1680>>, <<"ARABIC LETTER RREH", 1681>>,
    <<"ARABIC LETTER REH WITH SMALL V", 1682>>, <<"ARABIC LETTER REH WITH RING", 1683>>,
    <<"ARABIC LETTER REH WITH DOT BELOW", 1684>>, <<"ARABIC LETTER REH WITH SMALL V BELOW", 1685>>,
    <<"ARABIC LETTER REH WITH DOT BELOW AND DOT ABOVE", 1686>>,
    <<"ARABIC LETTER REH WITH TWO DOTS ABOVE", 1687>>, <<"ARABIC LETTER JEH", 1688>>,
    <<"ARABIC LETTER REH WITH FOUR DOTS ABOVE", 1689>>,
    <<"ARABIC LETTER SEEN WITH DOT BELOW AND DOT ABOVE", 1690>>,
    <<"ARABIC LETTER SEEN WITH THREE DOTS BELOW", 1691>>,
    <<"ARABIC LETTER SEEN WITH THREE DOTS BELOW AND THREE DOTS ABOVE", 1692>>,
    <<"ARABIC LETTER SAD WITH TWO DOTS BELOW", 1693>>,
    <<"ARABIC LETTER SAD WITH THREE DOTS ABOVE", 1694>>,
    <<"ARABIC LETTER TAH WITH THREE DOTS ABOVE", 1695>>,
    <<"ARABIC LETTER AIN WITH THREE DOTS ABOVE", 1696>>, <<"ARABIC LETTER DOTLESS FEH", 1697>>,
    <<"ARABIC LETTER FEH WITH DOT MOVED BELOW", 1698>>, <<"ARABIC LETTER FEH WITH DOT BELOW", 1699>>,
    <<"ARABIC LETTER VEH", 1700>>, <<"ARABIC LETTER FEH WITH THREE DOTS BELOW", 1701>>,
    <<"ARABIC LETTER PEHEH", 1702>>, <<"ARABIC LETTER QAF WITH DOT ABOVE", 1703>>,
    <<"ARABIC LETTER QAF WITH THREE DOTS ABOVE", 1704>>, <<"ARABIC LETTER KEHEH", 1705>>,
    <<"ARABIC LETTER SWASH KAF", 1706>>, <<"ARABIC LETTER KAF WITH RING", 1707>>,
    <<"ARABIC LETTER KAF WITH DOT ABOVE", 1708>>, <<"ARABIC LETTER NG", 1709>>,
    <<"ARABIC LETTER KAF WITH THREE DOTS BELOW", 1710>>, <<"ARABIC LETTER GAF", 1711>>,
    <<"ARABIC LETTER GAF WITH RING", 1712>>, <<"ARABIC LETTER NGOEH", 1713>>,
    <<"ARABIC LETTER GAF WITH TWO DOTS BELOW", 1714>>, <<"ARABIC LETTER GUEH", 1715>>,
    <<"ARABIC LETTER GAF WITH THREE DOTS ABOVE", 1716>>, <<"ARABIC LETTER LAM WITH SMALL V", 1717>>,
    <<"ARABIC LETTER LAM WITH DOT ABOVE", 1718>>, <<"ARABIC LETTER LAM WITH THREE DOTS ABOVE", 1719>>,
    <<"ARABIC LETTER LAM WITH THREE DOTS BELOW", 1720>>, <<"ARABIC LETTER NOON WITH DOT BELOW", 1721>>,
    <<"ARABIC LETTER NOON GHUNNA", 1722>>, <<"ARABIC LETTER RNOON", 1723>>,
    <<"ARABIC LETTER NOON WITH RING", 1724>>, <<"ARABIC LETTER NOON WITH THREE DOTS ABOVE", 1725>>,
    <<"ARABIC LETTER HEH DOACHASHMEE", 1726>>, <<"ARABIC LETTER TCHEH WITH DOT ABOVE", 1727>>,
    <<"ARABIC LETTER HEH WITH YEH ABOVE", 1728>>, <<"ARABIC LETTER HEH GOAL", 1729>>,
    <<"ARABIC LETTER HEH GOAL WITH HAMZA ABOVE", 1730>>, <<"ARABIC LETTER TEH MARBUTA GOAL", 1731>>,
    <<"ARABIC LETTER WAW WITH RING", 1732>>, <<"ARABIC LETTER KIRGHIZ OE", 1733>>,
    <<"ARABIC LETTER OE", 1734>>, <<"ARABIC LETTER U", 1735>>, <<"ARABIC LETTER YU", 1736>>,
    <<"ARABIC LETTER KIRGHIZ YU", 1737>>, <<"ARABIC LETTER WAW WITH TWO DOTS ABOVE", 1738>>,
    <<"ARABIC LETTER VE", 1739>>, <<"ARABIC LETTER FARSI YEH", 1740>>,
    <<"ARABIC LETTER YEH WITH TAIL", 1741>>, <<"ARABIC LETTER YEH WITH SMALL V", 1742>>,
    <<"ARABIC LETTER WAW WITH DOT ABOVE", 1743>>, <<"ARABIC LETTER E", 1744>>,
    <<"ARABIC LETTER YEH WITH THREE DOTS BELOW", 1745>>, <<"ARABIC LETTER YEH BARREE", 1746>>,
    <<"ARABIC LETTER YEH BARREE WITH HAMZA ABOVE", 1747>>, <<"ARABIC FULL STOP", 1748>>,
    <<"ARABIC LETTER AE", 1749>>,
    <<"ARABIC SMALL HIGH LIGATURE SAD WITH LAM WITH ALEF MAKSURA", 1750>>,
    <<"ARABIC SMALL HIGH LIGATURE QAF WITH LAM WITH ALEF MAKSURA", 1751>>,
    <<"ARABIC SMALL HIGH MEEM INITIAL FORM", 1752>>, <<"ARABIC SMALL HIGH LAM ALEF", 1753>>,
    <<"ARABIC SMALL HIGH JEEM", 1754>>, <<"ARABIC SMALL HIGH THREE DOTS", 1755>>,
    <<"ARABIC SMALL HIGH SEEN", 1756>>, <<"ARABIC END OF AYAH", 1757>>,
    <<"ARABIC START OF RUB EL HIZB", 1758>>, <<"ARABIC SMALL HIGH ROUNDED ZERO", 1759>>,
    <<"ARABIC SMALL HIGH UPRIGHT RECTANGULAR ZERO", 1760>>,
    <<"ARABIC SMALL HIGH DOTLESS HEAD OF KHAH", 1761>>,
    <<"ARABIC SMALL HIGH MEEM ISOLATED FORM", 1762>>, <<"ARABIC SMALL LOW SEEN", 1763>>,
    <<"ARABIC SMALL HIGH MADDA", 1764>>, <<"ARABIC SMALL WAW", 1765>>, <<"ARABIC SMALL YEH", 1766>>,
    <<"ARABIC SMALL HIGH YEH", 1767>>, <<"ARABIC SMALL HIGH NOON", 1768>>,
    <<"ARABIC PLACE OF SAJDAH", 1769>>, <<"ARABIC EMPTY CENTRE LOW STOP", 1770>>,
    <<"ARABIC EMPTY CENTRE HIGH STOP", 1771>>, <<"ARABIC ROUNDED HIGH STOP WITH FILLED CENTRE", 1772>>,
    <<"ARABIC SMALL LOW MEEM", 1773>>, <<"ARABIC LETTER DAL WITH INVERTED V", 1774>>,
    <<"ARABIC LETTER REH WITH INVERTED V", 1775>>, <<"EXTENDED ARABIC-INDIC DIGIT ZERO", 1776>>,
    <<"EXTENDED ARABIC-INDIC DIGIT ONE", 1777>>, <<"EXTENDED ARABIC-INDIC DIGIT TWO", 1778>>,
    <<"EXTENDED ARABIC-INDIC DIGIT THREE", 1779>>, <<"EXTENDED ARABIC-INDIC DIGIT FOUR", 1780>>,
    <<"EXTENDED ARABIC-INDIC DIGIT FIVE", 1781>>, <<"EXTENDED ARABIC-INDIC DIGIT SIX", 1782>>,
    <<"EXTENDED ARABIC-INDIC DIGIT SEVEN", 1783>>, <<"EXTENDED ARABIC-INDIC DIGIT EIGHT", 1784>>,
    <<"EXTENDED ARABIC-INDIC DIGIT NINE", 1785>>, <<"ARABIC LETTER SHEEN WITH DOT BELOW", 1786>>,
    <<"ARABIC LETTER DAD WITH DOT BELOW", 1787>>, <<"ARABIC LETTER GHAIN WITH DOT BELOW", 1788>>,
    <<"ARABIC SIGN SINDHI AMPERSAND", 1789>>, <<"ARABIC SIGN SINDHI POSTPOSITION MEN", 1790>>,
    <<"ARABIC LETTER HEH WITH INVERTED V", 1791>>, <<"SYRIAC END OF PARAGRAPH", 1792>>,
    <<"SYRIAC SUPRALINEAR FULL STOP", 1793>>, <<"SYRIAC SUBLINEAR FULL STOP", 1794>>,
    <<"SYRIAC SUPRALINEAR COLON", 1795>>, <<"SYRIAC SUBLINEAR COLON", 1796>>,
    <<"SYRIAC HORIZONTAL COLON", 1797>>, <<"SYRIAC COLON SKEWED LEFT", 1798>>,
    <<"SYRIAC COLON SKEWED RIGHT", 1799>>, <<"SYRIAC SUPRALINEAR COLON SKEWED LEFT", 1800>>,
    <<"SYRIAC SUBLINEAR COLON SKEWED LEFT", 1801>>, <<"SYRIAC SUBLINEAR COLON SKEWED RIGHT", 1801>>,
    <<"SYRIAC CONTRACTION", 1802>>, <<"SYRIAC HARKLEAN OBELUS", 1803>>,
    <<"SYRIAC HARKLEAN METOBELUS", 1804>>, <<"SYRIAC HARKLEAN ASTERISCUS", 1805>>,
    <<"SYRIAC ABBREVIATION MARK", 1807>>, <<"SYRIAC LETTER ALAPH", 1808>>,
    <<"SYRIAC LETTER SUPERSCRIPT ALAPH", 1809>>, <<"SYRIAC LETTER BETH", 1810>>,
    <<"SYRIAC LETTER GAMAL", 1811>>, <<"SYRIAC LETTER GAMAL GARSHUNI", 1812>>,
    <<"SYRIAC LETTER DALATH", 1813>>, <<"SYRIAC LETTER DOTLESS DALATH RISH", 1814>>,
    <<"SYRIAC LETTER HE", 1815>>, <<"SYRIAC LETTER WAW", 1816>>, <<"SYRIAC LETTER ZAIN", 1817>>,
    <<"SYRIAC LETTER HETH", 1818>>, <<"SYRIAC LETTER TETH", 1819>>,
    <<"SYRIAC LETTER TETH GARSHUNI", 1820>>, <<"SYRIAC LETTER YUDH", 1821>>,
    <<"SYRIAC LETTER YUDH HE", 1822>>, <<"SYRIAC LETTER KAPH", 1823>>,
    <<"SYRIAC LETTER LAMADH", 1824>>, <<"SYRIAC LETTER MIM", 1825>>, <<"SYRIAC LETTER NUN", 1826>>,
    <<"SYRIAC LETTER SEMKATH", 1827>>, <<"SYRIAC LETTER FINAL SEMKATH", 1828>>,
    <<"SYRIAC LETTER E", 1829>>, <<"SYRIAC LETTER PE", 1830>>, <<"SYRIAC LETTER REVERSED PE", 1831>>,
    <<"SYRIAC LETTER SADHE", 1832>>, <<"SYRIAC LETTER QAPH", 1833>>, <<"SYRIAC LETTER RISH", 1834>>,
    <<"SYRIAC LETTER SHIN", 1835>>, <<"SYRIAC LETTER TAW", 1836>>,
    <<"SYRIAC LETTER PERSIAN BHETH", 1837>>, <<"SYRIAC LETTER PERSIAN GHAMAL", 1838>>,
    <<"SYRIAC LETTER PERSIAN DHALATH", 1839>>, <<"SYRIAC PTHAHA ABOVE", 1840>>,
    <<"SYRIAC PTHAHA BELOW", 1841>>, <<"SYRIAC PTHAHA DOTTED", 1842>>, <<"SYRIAC ZQAPHA ABOVE", 1843>>,
    <<"SYRIAC ZQAPHA BELOW", 1844>>, <<"SYRIAC ZQAPHA DOTTED", 1845>>, <<"SYRIAC RBASA ABOVE", 1846>>,
    <<"SYRIAC RBASA BELOW", 1847>>, <<"SYRIAC DOTTED ZLAMA HORIZONTAL", 1848>>,
    <<"SYRIAC DOTTED ZLAMA ANGULAR", 1849>>, <<"SYRIAC HBASA ABOVE", 1850>>,
    <<"SYRIAC HBASA BELOW", 1851>>, <<"SYRIAC HBASA-ESASA DOTTED", 1852>>,
    <<"SYRIAC ESASA ABOVE", 1853>>, <<"SYRIAC ESASA BELOW", 1854>>, <<"SYRIAC RWAHA", 1855>>,
    <<"SYRIAC FEMININE DOT", 1856>>, <<"SYRIAC QUSHSHAYA", 1857>>, <<"SYRIAC RUKKAKHA", 1858>>,
    <<"SYRIAC TWO VERTICAL DOTS ABOVE", 1859>>, <<"SYRIAC TWO VERTICAL DOTS BELOW", 1860>>,
    <<"SYRIAC THREE DOTS ABOVE", 1861>>, <<"SYRIAC THREE DOTS BELOW", 1862>>,
    <<"SYRIAC OBLIQUE LINE ABOVE", 1863>>, <<"SYRIAC OBLIQUE LINE BELOW", 1864>>,
    <<"SYRIAC MUSIC", 1865>>, <<"SYRIAC BARREKH", 1866>>, <<"SYRIAC LETTER SOGDIAN ZHAIN", 1869>>,
    <<"SYRIAC LETTER SOGDIAN KHAPH", 1870>>, <<"SYRIAC LETTER SOGDIAN FE", 1871>>,
    <<"ARABIC LETTER BEH WITH THREE DOTS HORIZONTALLY BELOW", 1872>>,
    <<"ARABIC LETTER BEH WITH DOT BELOW AND THREE DOTS ABOVE", 1873>>,
    <<"ARABIC LETTER BEH WITH THREE DOTS POINTING UPWARDS BELOW", 1874>>,
    <<"ARABIC LETTER BEH WITH THREE DOTS POINTING UPWARDS BELOW AND TWO DOTS ABOVE", 1875>>,
    <<"ARABIC LETTER BEH WITH TWO DOTS BELOW AND DOT ABOVE", 1876>>,
    <<"ARABIC LETTER BEH WITH INVERTED SMALL V BELOW", 1877>>,
    <<"ARABIC LETTER BEH WITH SMALL V", 1878>>, <<"ARABIC LETTER HAH WITH TWO DOTS ABOVE", 1879>>,
    <<"ARABIC LETTER HAH WITH THREE DOTS POINTING UPWARDS BELOW", 1880>>,
    <<"ARABIC LETTER DAL WITH TWO DOTS VERTICALLY BELOW AND SMALL TAH", 1881>>,
    <<"ARABIC LETTER DAL WITH INVERTED SMALL V BELOW", 1882>>,
    <<"ARABIC LETTER REH WITH STROKE", 1883>>, <<"ARABIC LETTER SEEN WITH FOUR DOTS ABOVE", 1884>>,
    <<"ARABIC LETTER AIN WITH TWO DOTS ABOVE", 1885>>,
    <<"ARABIC LETTER AIN WITH THREE DOTS POINTING DOWNWARDS ABOVE", 1886>>,
    <<"ARABIC LETTER AIN WITH TWO DOTS VERTICALLY ABOVE", 1887>>,
    <<"ARABIC LETTER FEH WITH TWO DOTS BELOW", 1888>>,
    <<"ARABIC LETTER FEH WITH THREE DOTS POINTING UPWARDS BELOW", 1889>>,
    <<"ARABIC LETTER KEHEH WITH DOT ABOVE", 1890>>,
    <<"ARABIC LETTER KEHEH WITH THREE DOTS ABOVE", 1891>>,
    <<"ARABIC LETTER KEHEH WITH THREE DOTS POINTING UPWARDS BELOW", 1892>>,
    <<"ARABIC LETTER MEEM WITH DOT ABOVE", 1893>>, <<"ARABIC LETTER MEEM WITH DOT BELOW", 1894>>,
    <<"ARABIC LETTER NOON WITH TWO DOTS BELOW", 1895>>, <<"ARABIC LETTER NOON WITH SMALL TAH", 1896>>,
    <<"ARABIC LETTER NOON WITH SMALL V", 1897>>, <<"ARABIC LETTER LAM WITH BAR", 1898>>,
    <<"ARABIC LETTER REH WITH TWO DOTS VERTICALLY ABOVE", 1899>>,
    <<"ARABIC LETTER REH WITH HAMZA ABOVE", 1900>>,
    <<"ARABIC LETTER SEEN WITH TWO DOTS VERTICALLY ABOVE", 1901>>,
    <<"ARABIC LETTER HAH WITH SMALL ARABIC LETTER TAH BELOW", 1902>>,
    <<"ARABIC LETTER HAH WITH SMALL ARABIC LETTER TAH AND TWO DOTS", 1903>>,
    <<"ARABIC LETTER SEEN WITH SMALL ARABIC LETTER TAH AND TWO DOTS", 1904>>,
    <<"ARABIC LETTER REH WITH SMALL ARABIC LETTER TAH AND TWO DOTS", 1905>>,
    <<"ARABIC LETTER HAH WITH SMALL ARABIC LETTER TAH ABOVE", 1906>>,
    <<"ARABIC LETTER ALEF WITH EXTENDED ARABIC-INDIC DIGIT TWO ABOVE", 1907>>,
    <<"ARABIC LETTER ALEF WITH EXTENDED ARABIC-INDIC DIGIT THREE ABOVE", 1908>>,
    <<"ARABIC LETTER FARSI YEH WITH EXTENDED ARABIC-INDIC DIGIT TWO ABOVE", 1909>>,
    <<"ARABIC LETTER FARSI YEH WITH EXTENDED ARABIC-INDIC DIGIT THREE ABOVE", 1910>>,
    <<"ARABIC LETTER FARSI YEH WITH EXTENDED ARABIC-INDIC DIGIT FOUR BELOW", 1911>>,
    <<"ARABIC LETTER WAW WITH EXTENDED ARABIC-INDIC DIGIT TWO ABOVE", 1912>>,
    <<"ARABIC LETTER WAW WITH EXTENDED ARABIC-INDIC DIGIT THREE ABOVE", 1913>>,
    <<"ARABIC LETTER YEH BARREE WITH EXTENDED ARABIC-INDIC DIGIT TWO ABOVE", 1914>>,
    <<"ARABIC LETTER YEH BARREE WITH EXTENDED ARABIC-INDIC DIGIT THREE ABOVE", 1915>>,
    <<"ARABIC LETTER HAH WITH EXTENDED ARABIC-INDIC DIGIT FOUR BELOW", 1916>>,
    <<"ARABIC LETTER SEEN WITH EXTENDED ARABIC-INDIC DIGIT FOUR ABOVE", 1917>>,
    <<"ARABIC LETTER SEEN WITH INVERTED V", 1918>>, <<"ARABIC LETTER KAF WITH TWO DOTS ABOVE", 1919>>,
    <<"THAANA LETTER HAA", 1920>>, <<"THAANA LETTER SHAVIYANI", 1921>>,
    <<"THAANA LETTER NOONU", 1922>>, <<"THAANA LETTER RAA", 1923>>, <<"THAANA LETTER BAA", 1924>>,
    <<"THAANA LETTER LHAVIYANI", 1925>>, <<"THAANA LETTER KAAFU", 1926>>,
    <<"THAANA LETTER ALIFU", 1927>>, <<"THAANA LETTER VAAVU", 1928>>, <<"THAANA LETTER MEEMU", 1929>>,
    <<"THAANA LETTER FAAFU", 1930>>, <<"THAANA LETTER DHAALU", 1931>>, <<"THAANA LETTER THAA", 1932>>,
    <<"THAANA LETTER LAAMU", 1933>>, <<"THAANA LETTER GAAFU", 1934>>,
    <<"THAANA LETTER GNAVIYANI", 1935>>, <<"THAANA LETTER SEENU", 1936>>,
    <<"THAANA LETTER DAVIYANI", 1937>>, <<"THAANA LETTER ZAVIYANI", 1938>>,
    <<"THAANA LETTER TAVIYANI", 1939>>, <<"THAANA LETTER YAA", 1940>>,
    <<"THAANA LETTER PAVIYANI", 1941>>, <<"THAANA LETTER JAVIYANI", 1942>>,
    <<"THAANA LETTER CHAVIYANI", 1943>>, <<"THAANA LETTER TTAA", 1944>>,
    <<"THAANA LETTER HHAA", 1945>>, <<"THAANA LETTER KHAA", 1946>>, <<"THAANA LETTER THAALU", 1947>>,
    <<"THAANA LETTER ZAA", 1948>>, <<"THAANA LETTER SHEENU", 1949>>, <<"THAANA LETTER SAADHU", 1950>>,
    <<"THAANA LETTER DAADHU", 1951>>, <<"THAANA LETTER TO", 1952>>, <<"THAANA LETTER ZO", 1953>>,
    <<"THAANA LETTER AINU", 1954>>, <<"THAANA LETTER GHAINU", 1955>>, <<"THAANA LETTER QAAFU", 1956>>,
    <<"THAANA LETTER WAAVU", 1957>>, <<"THAANA ABAFILI", 1958>>, <<"THAANA AABAAFILI", 1959>>,
    <<"THAANA IBIFILI", 1960>>, <<"THAANA EEBEEFILI", 1961>>, <<"THAANA UBUFILI", 1962>>,
    <<"THAANA OOBOOFILI", 1963>>, <<"THAANA EBEFILI", 1964>>, <<"THAANA EYBEYFILI", 1965>>,
    <<"THAANA OBOFILI", 1966>>, <<"THAANA OABOAFILI", 1967>>, <<"THAANA SUKUN", 1968>>,
    <<"THAANA LETTER NAA", 1969>>, <<"NKO DIGIT ZERO", 1984>>, <<"NKO DIGIT ONE", 1985>>,
    <<"NKO DIGIT TWO", 1986>>, <<"NKO DIGIT THREE", 1987>>, <<"NKO DIGIT FOUR", 1988>>,
    <<"NKO DIGIT FIVE", 1989>>, <<"NKO DIGIT SIX", 1990>>, <<"NKO DIGIT SEVEN", 1991>>,
    <<"NKO DIGIT EIGHT", 1992>>, <<"NKO DIGIT NINE", 1993>>, <<"NKO LETTER A", 1994>>,
    <<"NKO LETTER EE", 1995>>, <<"NKO LETTER I", 1996>>, <<"NKO LETTER E", 1997>>,
    <<"NKO LETTER U", 1998>>, <<"NKO LETTER OO", 1999>>, <<"NKO LETTER O", 2000>>,
    <<"NKO LETTER DAGBASINNA", 2001>>, <<"NKO LETTER N", 2002>>, <<"NKO LETTER BA", 2003>>,
    <<"NKO LETTER PA", 2004>>, <<"NKO LETTER TA", 2005>>, <<"NKO LETTER JA", 2006>>,
    <<"NKO LETTER CHA", 2007>>, <<"NKO LETTER DA", 2008>>, <<"NKO LETTER RA", 2009>>,
    <<"NKO LETTER RRA", 2010>>, <<"NKO LETTER SA", 2011>>, <<"NKO LETTER GBA", 2012>>,
    <<"NKO LETTER FA", 2013>>, <<"NKO LETTER KA", 2014>>, <<"NKO LETTER LA", 2015>>,
    <<"NKO LETTER NA WOLOSO", 2016>>, <<"NKO LETTER MA", 2017>>, <<"NKO LETTER NYA", 2018>>,
    <<"NKO LETTER NA", 2019>>, <<"NKO LETTER HA", 2020>>, <<"NKO LETTER WA", 2021>>,
    <<"NKO LETTER YA", 2022>>, <<"NKO LETTER NYA WOLOSO", 2023>>, <<"NKO LETTER JONA JA", 2024>>,
    <<"NKO LETTER JONA CHA", 2025>>, <<"NKO LETTER JONA RA", 2026>>,
    <<"NKO COMBINING SHORT HIGH TONE", 2027>>, <<"NKO COMBINING SHORT LOW TONE", 2028>>,
    <<"NKO COMBINING SHORT RISING TONE", 2029>>, <<"NKO COMBINING LONG DESCENDING TONE", 2030>>,
    <<"NKO COMBINING LONG HIGH TONE", 2031>>, <<"NKO COMBINING LONG LOW TONE", 2032>>,
    <<"NKO COMBINING LONG RISING TONE", 2033>>, <<"NKO COMBINING NASALIZATION MARK", 2034>>,
    <<"NKO COMBINING DOUBLE DOT ABOVE", 2035>>, <<"NKO HIGH TONE APOSTROPHE", 2036>>,
    <<"NKO LOW TONE APOSTROPHE", 2037>>, <<"NKO SYMBOL OO DENNEN", 2038>>,
    <<"NKO SYMBOL GBAKURUNEN", 2039>>, <<"NKO COMMA", 2040>>, <<"NKO EXCLAMATION MARK", 2041>>,
    <<"NKO LAJANYALAN", 2042>>, <<"NKO DANTAYALAN", 2045>>, <<"NKO DOROME SIGN", 2046>>,
    <<"NKO TAMAN SIGN", 2047>>, <<"SAMARITAN LETTER ALAF", 2048>>, <<"SAMARITAN LETTER BIT", 2049>>,
    <<"SAMARITAN LETTER GAMAN", 2050>>, <<"SAMARITAN LETTER DALAT", 2051>>,
    <<"SAMARITAN LETTER IY", 2052>>, <<"SAMARITAN LETTER BAA", 2053>>,
    <<"SAMARITAN LETTER ZEN", 2054>>, <<"SAMARITAN LETTER IT", 2055>>,
    <<"SAMARITAN LETTER TIT", 2056>>, <<"SAMARITAN LETTER YUT", 2057>>,
    <<"SAMARITAN LETTER KAAF", 2058>>, <<"SAMARITAN LETTER LABAT", 2059>>,
    <<"SAMARITAN LETTER MIM", 2060>>, <<"SAMARITAN LETTER NUN", 2061>>,
    <<"SAMARITAN LETTER SINGAAT", 2062>>, <<"SAMARITAN LETTER IN", 2063>>,
    <<"SAMARITAN LETTER FI", 2064>>, <<"SAMARITAN LETTER TSAADIY", 2065>>,
    <<"SAMARITAN LETTER QUF", 2066>>, <<"SAMARITAN LETTER RISH", 2067>>,
    <<"SAMARITAN LETTER SHAN", 2068>>, <<"SAMARITAN LETTER TAAF", 2069>>,
    <<"SAMARITAN MARK IN", 2070>>, <<"SAMARITAN MARK IN-ALAF", 2071>>,
    <<"SAMARITAN MARK OCCLUSION", 2072>>, <<"SAMARITAN MARK DAGESH", 2073>>,
    <<"SAMARITAN MODIFIER LETTER EPENTHETIC YUT", 2074>>, <<"SAMARITAN MARK EPENTHETIC YUT", 2075>>,
    <<"SAMARITAN VOWEL SIGN LONG E", 2076>>, <<"SAMARITAN VOWEL SIGN E", 2077>>,
    <<"SAMARITAN VOWEL SIGN OVERLONG AA", 2078>>, <<"SAMARITAN VOWEL SIGN LONG AA", 2079>>,
    <<"SAMARITAN VOWEL SIGN AA", 2080>>, <<"SAMARITAN VOWEL SIGN OVERLONG A", 2081>>,
    <<"SAMARITAN VOWEL SIGN LONG A", 2082>>, <<"SAMARITAN VOWEL SIGN A", 2083>>,
    <<"SAMARITAN MODIFIER LETTER SHORT A", 2084>>, <<"SAMARITAN VOWEL SIGN SHORT A", 2085>>,
    <<"SAMARITAN VOWEL SIGN LONG U", 2086>>, <<"SAMARITAN VOWEL SIGN U", 2087>>,
    <<"SAMARITAN MODIFIER LETTER I", 2088>>, <<"SAMARITAN VOWEL SIGN LONG I", 2089>>,
    <<"SAMARITAN VOWEL SIGN I", 2090>>, <<"SAMARITAN VOWEL SIGN O", 2091>>,
    <<"SAMARITAN VOWEL SIGN SUKUN", 2092>>, <<"SAMARITAN MARK NEQUDAA", 2093>>,
    <<"SAMARITAN PUNCTUATION NEQUDAA", 2096>>, <<"SAMARITAN PUNCTUATION AFSAAQ", 2097>>,
    <<"SAMARITAN PUNCTUATION ANGED", 2098>>, <<"SAMARITAN PUNCTUATION BAU", 2099>>,
    <<"SAMARITAN PUNCTUATION ATMAAU", 2100>>, <<"SAMARITAN PUNCTUATION SHIYYAALAA", 2101>>,
    <<"SAMARITAN ABBREVIATION MARK", 2102>>, <<"SAMARITAN PUNCTUATION MELODIC QITSA", 2103>>,
    <<"SAMARITAN PUNCTUATION ZIQAA", 2104>>, <<"SAMARITAN PUNCTUATION QITSA", 2105>>,
    <<"SAMARITAN PUNCTUATION ZAEF", 2106>>, <<"SAMARITAN PUNCTUATION TURU", 2107>>,
    <<"SAMARITAN PUNCTUATION ARKAANU", 2108>>, <<"SAMARITAN PUNCTUATION SOF MASHFAAT", 2109>>,
    <<"SAMARITAN PUNCTUATION ANNAAU", 2110>>, <<"MANDAIC LETTER HALQA", 2112>>,
    <<"MANDAIC LETTER AB", 2113>>, <<"MANDAIC LETTER AG", 2114>>, <<"MANDAIC LETTER AD", 2115>>,
    <<"MANDAIC LETTER AH", 2116>>, <<"MANDAIC LETTER USHENNA", 2117>>, <<"MANDAIC LETTER AZ", 2118>>,
    <<"MANDAIC LETTER IT", 2119>>, <<"MANDAIC LETTER ATT", 2120>>, <<"MANDAIC LETTER AKSA", 2121>>,
    <<"MANDAIC LETTER AK", 2122>>, <<"MANDAIC LETTER AL", 2123>>, <<"MANDAIC LETTER AM", 2124>>,
    <<"MANDAIC LETTER AN", 2125>>, <<"MANDAIC LETTER AS", 2126>>, <<"MANDAIC LETTER IN", 2127>>,
    <<"MANDAIC LETTER AP", 2128>>, <<"MANDAIC LETTER ASZ", 2129>>, <<"MANDAIC LETTER AQ", 2130>>,
    <<"MANDAIC LETTER AR", 2131>>, <<"MANDAIC LETTER ASH", 2132>>, <<"MANDAIC LETTER AT", 2133>>,
    <<"MANDAIC LETTER DUSHENNA", 2134>>, <<"MANDAIC LETTER KAD", 2135>>,
    <<"MANDAIC LETTER AIN", 2136>>, <<"MANDAIC AFFRICATION MARK", 2137>>,
    <<"MANDAIC VOCALIZATION MARK", 2138>>, <<"MANDAIC GEMINATION MARK", 2139>>,
    <<"MANDAIC PUNCTUATION", 2142>>, <<"SYRIAC LETTER MALAYALAM NGA", 2144>>,
    <<"SYRIAC LETTER MALAYALAM JA", 2145>>, <<"SYRIAC LETTER MALAYALAM NYA", 2146>>,
    <<"SYRIAC LETTER MALAYALAM TTA", 2147>>, <<"SYRIAC LETTER MALAYALAM NNA", 2148>>,
    <<"SYRIAC LETTER MALAYALAM NNNA", 2149>>, <<"SYRIAC LETTER MALAYALAM BHA", 2150>>,
    <<"SYRIAC LETTER MALAYALAM RA", 2151>>, <<"SYRIAC LETTER MALAYALAM LLA", 2152>>,
    <<"SYRIAC LETTER MALAYALAM LLLA", 2153>>, <<"SYRIAC LETTER MALAYALAM SSA", 2154>>,
    <<"ARABIC LETTER ALEF WITH ATTACHED FATHA", 2160>>,
    <<"ARABIC LETTER ALEF WITH ATTACHED TOP RIGHT FATHA", 2161>>,
    <<"ARABIC LETTER ALEF WITH RIGHT MIDDLE STROKE", 2162>>,
    <<"ARABIC LETTER ALEF WITH LEFT MIDDLE STROKE", 2163>>,
    <<"ARABIC LETTER ALEF WITH ATTACHED KASRA", 2164>>,
    <<"ARABIC LETTER ALEF WITH ATTACHED BOTTOM RIGHT KASRA", 2165>>,
    <<"ARABIC LETTER ALEF WITH ATTACHED ROUND DOT ABOVE", 2166>>,
    <<"ARABIC LETTER ALEF WITH ATTACHED RIGHT ROUND DOT", 2167>>,
    <<"ARABIC LETTER ALEF WITH ATTACHED LEFT ROUND DOT", 2168>>,
    <<"ARABIC LETTER ALEF WITH ATTACHED ROUND DOT BELOW", 2169>>,
    <<"ARABIC LETTER ALEF WITH DOT ABOVE", 2170>>,
    <<"ARABIC LETTER ALEF WITH ATTACHED TOP RIGHT FATHA AND DOT ABOVE", 2171>>,
    <<"ARABIC LETTER ALEF WITH RIGHT MIDDLE STROKE AND DOT ABOVE", 2172>>,
    <<"ARABIC LETTER ALEF WITH ATTACHED BOTTOM RIGHT KASRA AND DOT ABOVE", 2173>>,
    <<"ARABIC LETTER ALEF WITH ATTACHED TOP RIGHT FATHA AND LEFT RING", 2174>>,
    <<"ARABIC LETTER ALEF WITH RIGHT MIDDLE STROKE AND LEFT RING", 2175>>,
    <<"ARABIC LETTER ALEF WITH ATTACHED BOTTOM RIGHT KASRA AND LEFT RING", 2176>>,
    <<"ARABIC LETTER ALEF WITH ATTACHED RIGHT HAMZA", 2177>>,
    <<"ARABIC LETTER ALEF WITH ATTACHED LEFT HAMZA", 2178>>,
    <<"ARABIC TATWEEL WITH OVERSTRUCK HAMZA", 2179>>, <<"ARABIC TATWEEL WITH OVERSTRUCK WAW", 2180>>,
    <<"ARABIC TATWEEL WITH TWO DOTS BELOW", 2181>>, <<"ARABIC LETTER THIN YEH", 2182>>,
    <<"ARABIC BASELINE ROUND DOT", 2183>>, <<"ARABIC RAISED ROUND DOT", 2184>>,
    <<"ARABIC LETTER NOON WITH INVERTED SMALL V", 2185>>,
    <<"ARABIC LETTER HAH WITH INVERTED SMALL V BELOW", 2186>>,
    <<"ARABIC LETTER TAH WITH DOT BELOW", 2187>>, <<"ARABIC LETTER TAH WITH THREE DOTS BELOW", 2188>>,
    <<"ARABIC LETTER KEHEH WITH TWO DOTS VERTICALLY BELOW", 2189>>, <<"ARABIC VERTICAL TAIL", 2190>>,
    <<"ARABIC POUND MARK ABOVE", 2192>>, <<"ARABIC PIASTRE MARK ABOVE", 2193>>,
    <<"ARABIC SMALL HIGH WORD AL-JUZ", 2200>>, <<"ARABIC SMALL LOW WORD ISHMAAM", 2201>>,
    <<"ARABIC SMALL LOW WORD IMAALA", 2202>>, <<"ARABIC SMALL LOW WORD TASHEEL", 2203>>,
    <<"ARABIC MADDA WAAJIB", 2204>>, <<"ARABIC SUPERSCRIPT ALEF MOKHASSAS", 2205>>,
    <<"ARABIC DOUBLED MADDA", 2206>>, <<"ARABIC HALF MADDA OVER MADDA", 2207>>,
    <<"ARABIC LETTER BEH WITH SMALL V BELOW", 2208>>, <<"ARABIC LETTER BEH WITH HAMZA ABOVE", 2209>>,
    <<"ARABIC LETTER JEEM WITH TWO DOTS ABOVE", 2210>>,
    <<"ARABIC LETTER TAH WITH TWO DOTS ABOVE", 2211>>,
    <<"ARABIC LETTER FEH WITH DOT BELOW AND THREE DOTS ABOVE", 2212>>,
    <<"ARABIC LETTER QAF WITH DOT BELOW", 2213>>, <<"ARABIC LETTER LAM WITH DOUBLE BAR", 2214>>,
    <<"ARABIC LETTER MEEM WITH THREE DOTS ABOVE", 2215>>,
    <<"ARABIC LETTER YEH WITH TWO DOTS BELOW AND HAMZA ABOVE", 2216>>,
    <<"ARABIC LETTER YEH WITH TWO DOTS BELOW AND DOT ABOVE", 2217>>,
    <<"ARABIC LETTER REH WITH LOOP", 2218>>, <<"ARABIC LETTER WAW WITH DOT WITHIN", 2219>>,
    <<"ARABIC LETTER ROHINGYA YEH", 2220>>, <<"ARABIC LETTER LOW ALEF", 2221>>,
    <<"ARABIC LETTER DAL WITH THREE DOTS BELOW", 2222>>,
    <<"ARABIC LETTER SAD WITH THREE DOTS BELOW", 2223>>,
    <<"ARABIC LETTER GAF WITH INVERTED STROKE", 2224>>, <<"ARABIC LETTER STRAIGHT WAW", 2225>>,
    <<"ARABIC LETTER ZAIN WITH INVERTED V ABOVE", 2226>>,
    <<"ARABIC LETTER AIN WITH THREE DOTS BELOW", 2227>>, <<"ARABIC LETTER KAF WITH DOT BELOW", 2228>>,
    <<"ARABIC LETTER QAF WITH DOT BELOW AND NO DOTS ABOVE", 2229>>,
    <<"ARABIC LETTER BEH WITH SMALL MEEM ABOVE", 2230>>,
    <<"ARABIC LETTER PEH WITH SMALL MEEM ABOVE", 2231>>,
    <<"ARABIC LETTER TEH WITH SMALL TEH ABOVE", 2232>>,
    <<"ARABIC LETTER REH WITH SMALL NOON ABOVE", 2233>>,
    <<"ARABIC LETTER YEH WITH TWO DOTS BELOW AND SMALL NOON ABOVE", 2234>>,
    <<"ARABIC LETTER AFRICAN FEH", 2235>>, <<"ARABIC LETTER AFRICAN QAF", 2236>>,
    <<"ARABIC LETTER AFRICAN NOON", 2237>>, <<"ARABIC LETTER PEH WITH SMALL V", 2238>>,
    <<"ARABIC LETTER TEH WITH SMALL V", 2239>>, <<"ARABIC LETTER TTEH WITH SMALL V", 2240>>,
    <<"ARABIC LETTER TCHEH WITH SMALL V", 2241>>, <<"ARABIC LETTER KEHEH WITH SMALL V", 2242>>,
    <<"ARABIC LETTER GHAIN WITH THREE DOTS ABOVE", 2243>>,
    <<"ARABIC LETTER AFRICAN QAF WITH THREE DOTS ABOVE", 2244>>,
    <<"ARABIC LETTER JEEM WITH THREE DOTS ABOVE", 2245>>,
    <<"ARABIC LETTER JEEM WITH THREE DOTS BELOW", 2246>>,
    <<"ARABIC LETTER LAM WITH SMALL ARABIC LETTER TAH ABOVE", 2247>>, <<"ARABIC LETTER GRAF", 2248>>,
    <<"ARABIC SMALL FARSI YEH", 2249>>, <<"ARABIC SMALL HIGH FARSI YEH", 2250>>,
    <<"ARABIC SMALL HIGH YEH BARREE WITH TWO DOTS BELOW", 2251>>,
    <<"ARABIC SMALL HIGH WORD SAH", 2252>>, <<"ARABIC SMALL HIGH ZAH", 2253>>,
    <<"ARABIC LARGE ROUND DOT ABOVE", 2254>>, <<"ARABIC LARGE ROUND DOT BELOW", 2255>>,
    <<"ARABIC SUKUN BELOW", 2256>>, <<"ARABIC LARGE CIRCLE BELOW", 2257>>,
    <<"ARABIC LARGE ROUND DOT INSIDE CIRCLE BELOW", 2258>>, <<"ARABIC SMALL LOW WAW", 2259>>,
    <<"ARABIC SMALL HIGH WORD AR-RUB", 2260>>, <<"ARABIC SMALL HIGH SAD", 2261>>,
    <<"ARABIC SMALL HIGH AIN", 2262>>, <<"ARABIC SMALL HIGH QAF", 2263>>,
    <<"ARABIC SMALL HIGH NOON WITH KASRA", 2264>>, <<"ARABIC SMALL LOW NOON WITH KASRA", 2265>>,
    <<"ARABIC SMALL HIGH WORD ATH-THALATHA", 2266>>, <<"ARABIC SMALL HIGH WORD AS-SAJDA", 2267>>,
    <<"ARABIC SMALL HIGH WORD AN-NISF", 2268>>, <<"ARABIC SMALL HIGH WORD SAKTA", 2269>>,
    <<"ARABIC SMALL HIGH WORD QIF", 2270>>, <<"ARABIC SMALL HIGH WORD WAQFA", 2271>>,
    <<"ARABIC SMALL HIGH FOOTNOTE MARKER", 2272>>, <<"ARABIC SMALL HIGH SIGN SAFHA", 2273>>,
    <<"ARABIC DISPUTED END OF AYAH", 2274>>, <<"ARABIC TURNED DAMMA BELOW", 2275>>,
    <<"ARABIC CURLY FATHA", 2276>>, <<"ARABIC CURLY DAMMA", 2277>>, <<"ARABIC CURLY KASRA", 2278>>,
    <<"ARABIC CURLY FATHATAN", 2279>>, <<"ARABIC CURLY DAMMATAN", 2280>>,
    <<"ARABIC CURLY KASRATAN", 2281>>, <<"ARABIC TONE ONE DOT ABOVE", 2282>>,
    <<"ARABIC TONE TWO DOTS ABOVE", 2283>>, <<"ARABIC TONE LOOP ABOVE", 2284>>,
    <<"ARABIC TONE ONE DOT BELOW", 2285>>, <<"ARABIC TONE TWO DOTS BELOW", 2286>>,
    <<"ARABIC TONE LOOP BELOW", 2287>>, <<"ARABIC OPEN FATHATAN", 2288>>,
    <<"ARABIC OPEN DAMMATAN", 2289>>, <<"ARABIC OPEN KASRATAN", 2290>>,
    <<"ARABIC SMALL HIGH WAW", 2291>>, <<"ARABIC FATHA WITH RING", 2292>>,
    <<"ARABIC FATHA WITH DOT ABOVE", 2293>>, <<"ARABIC KASRA WITH DOT BELOW", 2294>>,
    <<"ARABIC LEFT ARROWHEAD ABOVE", 2295>>, <<"ARABIC RIGHT ARROWHEAD ABOVE", 2296>>,
    <<"ARABIC LEFT ARROWHEAD BELOW", 2297>>, <<"ARABIC RIGHT ARROWHEAD BELOW", 2298>>,
    <<"ARABIC DOUBLE RIGHT ARROWHEAD ABOVE", 2299>>,
    <<"ARABIC DOUBLE RIGHT ARROWHEAD ABOVE WITH DOT", 2300>>,
    <<"ARABIC RIGHT ARROWHEAD ABOVE WITH DOT", 2301>>, <<"ARABIC DAMMA WITH DOT", 2302>>,
    <<"ARABIC MARK SIDEWAYS NOON GHUNNA", 2303>>, <<"DEVANAGARI SIGN INVERTED CANDRABINDU", 2304>>,
    <<"DEVANAGARI SIGN CANDRABINDU", 2305>>, <<"DEVANAGARI SIGN ANUSVARA", 2306>>,
    <<"DEVANAGARI SIGN VISARGA", 2307>>, <<"DEVANAGARI LETTER SHORT A", 2308>>,
    <<"DEVANAGARI LETTER A", 2309>>, <<"DEVANAGARI LETTER AA", 2310>>, <<"DEVANAGARI LETTER I", 2311>>,
    <<"DEVANAGARI LETTER II", 2312>>, <<"DEVANAGARI LETTER U", 2313>>,
    <<"DEVANAGARI LETTER UU", 2314>>, <<"DEVANAGARI LETTER VOCALIC R", 2315>>,
    <<"DEVANAGARI LETTER VOCALIC L", 2316>>, <<"DEVANAGARI LETTER CANDRA E", 2317>>,
    <<"DEVANAGARI LETTER SHORT E", 2318>>, <<"DEVANAGARI LETTER E", 2319>>,
    <<"DEVANAGARI LETTER AI", 2320>>, <<"DEVANAGARI LETTER CANDRA O", 2321>>,
    <<"DEVANAGARI LETTER SHORT O", 2322>>, <<"DEVANAGARI LETTER O", 2323>>,
    <<"DEVANAGARI LETTER AU", 2324>>, <<"DEVANAGARI LETTER KA", 2325>>,
    <<"DEVANAGARI LETTER KHA", 2326>>, <<"DEVANAGARI LETTER GA", 2327>>,
    <<"DEVANAGARI LETTER GHA", 2328>>, <<"DEVANAGARI LETTER NGA", 2329>>,
    <<"DEVANAGARI LETTER CA", 2330>>, <<"DEVANAGARI LETTER CHA", 2331>>,
    <<"DEVANAGARI LETTER JA", 2332>>, <<"DEVANAGARI LETTER JHA", 2333>>,
    <<"DEVANAGARI LETTER NYA", 2334>>, <<"DEVANAGARI LETTER TTA", 2335>>,
    <<"DEVANAGARI LETTER TTHA", 2336>>, <<"DEVANAGARI LETTER DDA", 2337>>,
    <<"DEVANAGARI LETTER DDHA", 2338>>, <<"DEVANAGARI LETTER NNA", 2339>>,
    <<"DEVANAGARI LETTER TA", 2340>>, <<"DEVANAGARI LETTER THA", 2341>>,
    <<"DEVANAGARI LETTER DA", 2342>>, <<"DEVANAGARI LETTER DHA", 2343>>,
    <<"DEVANAGARI LETTER NA", 2344>>, <<"DEVANAGARI LETTER NNNA", 2345>>,
    <<"DEVANAGARI LETTER PA", 2346>>, <<"DEVANAGARI LETTER PHA", 2347>>,
    <<"DEVANAGARI LETTER BA", 2348>>, <<"DEVANAGARI LETTER BHA", 2349>>,
    <<"DEVANAGARI LETTER MA", 2350>>, <<"DEVANAGARI LETTER YA", 2351>>,
    <<"DEVANAGARI LETTER RA", 2352>>, <<"DEVANAGARI LETTER RRA", 2353>>,
    <<"DEVANAGARI LETTER LA", 2354>>, <<"DEVANAGARI LETTER LLA", 2355>>,
    <<"DEVANAGARI LETTER LLLA", 2356>>, <<"DEVANAGARI LETTER VA", 2357>>,
    <<"DEVANAGARI LETTER SHA", 2358>>, <<"DEVANAGARI LETTER SSA", 2359>>,
    <<"DEVANAGARI LETTER SA", 2360>>, <<"DEVANAGARI LETTER HA", 2361>>,
    <<"DEVANAGARI VOWEL SIGN OE", 2362>>, <<"DEVANAGARI VOWEL SIGN OOE", 2363>>,
    <<"DEVANAGARI SIGN NUKTA", 2364>>, <<"DEVANAGARI SIGN AVAGRAHA", 2365>>,
    <<"DEVANAGARI VOWEL SIGN AA", 2366>>, <<"DEVANAGARI VOWEL SIGN I", 2367>>,
    <<"DEVANAGARI VOWEL SIGN II", 2368>>, <<"DEVANAGARI VOWEL SIGN U", 2369>>,
    <<"DEVANAGARI VOWEL SIGN UU", 2370>>, <<"DEVANAGARI VOWEL SIGN VOCALIC R", 2371>>,
    <<"DEVANAGARI VOWEL SIGN VOCALIC RR", 2372>>, <<"DEVANAGARI VOWEL SIGN CANDRA E", 2373>>,
    <<"DEVANAGARI VOWEL SIGN SHORT E", 2374>>, <<"DEVANAGARI VOWEL SIGN E", 2375>>,
    <<"DEVANAGARI VOWEL SIGN AI", 2376>>, <<"DEVANAGARI VOWEL SIGN CANDRA O", 2377>>,
    <<"DEVANAGARI VOWEL SIGN SHORT O", 2378>>, <<"DEVANAGARI VOWEL SIGN O", 2379>>,
    <<"DEVANAGARI VOWEL SIGN AU", 2380>>, <<"DEVANAGARI SIGN VIRAMA", 2381>>,
    <<"DEVANAGARI VOWEL SIGN PRISHTHAMATRA E", 2382>>, <<"DEVANAGARI VOWEL SIGN AW", 2383>>,
    <<"DEVANAGARI OM", 2384>>, <<"DEVANAGARI STRESS SIGN UDATTA", 2385>>,
    <<"DEVANAGARI STRESS SIGN ANUDATTA", 2386>>, <<"DEVANAGARI GRAVE ACCENT", 2387>>,
    <<"DEVANAGARI ACUTE ACCENT", 2388>>, <<"DEVANAGARI VOWEL SIGN CANDRA LONG E", 2389>>,
    <<"DEVANAGARI VOWEL SIGN UE", 2390>>, <<"DEVANAGARI VOWEL SIGN UUE", 2391>>,
    <<"DEVANAGARI LETTER QA", 2392>>, <<"DEVANAGARI LETTER KHHA", 2393>>,
    <<"DEVANAGARI LETTER GHHA", 2394>>, <<"DEVANAGARI LETTER ZA", 2395>>,
    <<"DEVANAGARI LETTER DDDHA", 2396>>, <<"DEVANAGARI LETTER RHA", 2397>>,
    <<"DEVANAGARI LETTER FA", 2398>>, <<"DEVANAGARI LETTER YYA", 2399>>,
    <<"DEVANAGARI LETTER VOCALIC RR", 2400>>, <<"DEVANAGARI LETTER VOCALIC LL", 2401>>,
    <<"DEVANAGARI VOWEL SIGN VOCALIC L", 2402>>, <<"DEVANAGARI VOWEL SIGN VOCALIC LL", 2403>>,
    <<"DEVANAGARI DANDA", 2404>>, <<"DEVANAGARI DOUBLE DANDA", 2405>>,
    <<"DEVANAGARI DIGIT ZERO", 2406>>, <<"DEVANAGARI DIGIT ONE", 2407>>,
    <<"DEVANAGARI DIGIT TWO", 2408>>, <<"DEVANAGARI DIGIT THREE", 2409>>,
    <<"DEVANAGARI DIGIT FOUR", 2410>>, <<"DEVANAGARI DIGIT FIVE", 2411>>,
    <<"DEVANAGARI DIGIT SIX", 2412>>, <<"DEVANAGARI DIGIT SEVEN", 2413>>,
    <<"DEVANAGARI DIGIT EIGHT", 2414>>, <<"DEVANAGARI DIGIT NINE", 2415>>,
    <<"DEVANAGARI ABBREVIATION SIGN", 2416>>, <<"DEVANAGARI SIGN HIGH SPACING DOT", 2417>>,
    <<"DEVANAGARI LETTER CANDRA A", 2418>>, <<"DEVANAGARI LETTER OE", 2419>>,
    <<"DEVANAGARI LETTER OOE", 2420>>, <<"DEVANAGARI LETTER AW", 2421>>,
    <<"DEVANAGARI LETTER UE", 2422>>, <<"DEVANAGARI LETTER UUE", 2423>>,
    <<"DEVANAGARI LETTER MARWARI DDA", 2424>>, <<"DEVANAGARI LETTER ZHA", 2425>>,
    <<"DEVANAGARI LETTER HEAVY YA", 2426>>, <<"DEVANAGARI LETTER GGA", 2427>>,
    <<"DEVANAGARI LETTER JJA", 2428>>, <<"DEVANAGARI LETTER GLOTTAL STOP", 2429>>,
    <<"DEVANAGARI LETTER DDDA", 2430>>, <<"DEVANAGARI LETTER BBA", 2431>>, <<"BENGALI ANJI", 2432>>,
    <<"BENGALI SIGN CANDRABINDU", 2433>>, <<"BENGALI SIGN ANUSVARA", 2434>>,
    <<"BENGALI SIGN VISARGA", 2435>>, <<"BENGALI LETTER A", 2437>>, <<"BENGALI LETTER AA", 2438>>,
    <<"BENGALI LETTER I", 2439>>, <<"BENGALI LETTER II", 2440>>, <<"BENGALI LETTER U", 2441>>,
    <<"BENGALI LETTER UU", 2442>>, <<"BENGALI LETTER VOCALIC R", 2443>>,
    <<"BENGALI LETTER VOCALIC L", 2444>>, <<"BENGALI LETTER E", 2447>>, <<"BENGALI LETTER AI", 2448>>,
    <<"BENGALI LETTER O", 2451>>, <<"BENGALI LETTER AU", 2452>>, <<"BENGALI LETTER KA", 2453>>,
    <<"BENGALI LETTER KHA", 2454>>, <<"BENGALI LETTER GA", 2455>>, <<"BENGALI LETTER GHA", 2456>>,
    <<"BENGALI LETTER NGA", 2457>>, <<"BENGALI LETTER CA", 2458>>, <<"BENGALI LETTER CHA", 2459>>,
    <<"BENGALI LETTER JA", 2460>>, <<"BENGALI LETTER JHA", 2461>>, <<"BENGALI LETTER NYA", 2462>>,
    <<"BENGALI LETTER TTA", 2463>>, <<"BENGALI LETTER TTHA", 2464>>, <<"BENGALI LETTER DDA", 2465>>,
    <<"BENGALI LETTER DDHA", 2466>>, <<"BENGALI LETTER NNA", 2467>>, <<"BENGALI LETTER TA", 2468>>,
    <<"BENGALI LETTER THA", 2469>>, <<"BENGALI LETTER DA", 2470>>, <<"BENGALI LETTER DHA", 2471>>,
    <<"BENGALI LETTER NA", 2472>>, <<"BENGALI LETTER PA", 2474>>, <<"BENGALI LETTER PHA", 2475>>,
    <<"BENGALI LETTER BA", 2476>>, <<"BENGALI LETTER BHA", 2477>>, <<"BENGALI LETTER MA", 2478>>,
    <<"BENGALI LETTER YA", 2479>>, <<"BENGALI LETTER RA", 2480>>, <<"BENGALI LETTER LA", 2482>>,
    <<"BENGALI LETTER SHA", 2486>>, <<"BENGALI LETTER SSA", 2487>>, <<"BENGALI LETTER SA", 2488>>,
    <<"BENGALI LETTER HA", 2489>>, <<"BENGALI SIGN NUKTA", 2492>>, <<"BENGALI SIGN AVAGRAHA", 2493>>,
    <<"BENGALI VOWEL SIGN AA", 2494>>, <<"BENGALI VOWEL SIGN I", 2495>>,
    <<"BENGALI VOWEL SIGN II", 2496>>, <<"BENGALI VOWEL SIGN U", 2497>>,
    <<"BENGALI VOWEL SIGN UU", 2498>>, <<"BENGALI VOWEL SIGN VOCALIC R", 2499>>,
    <<"BENGALI VOWEL SIGN VOCALIC RR", 2500>>, <<"BENGALI VOWEL SIGN E", 2503>>,
    <<"BENGALI VOWEL SIGN AI", 2504>>, <<"BENGALI VOWEL SIGN O", 2507>>,
    <<"BENGALI VOWEL SIGN AU", 2508>>, <<"BENGALI SIGN VIRAMA", 2509>>,
    <<"BENGALI LETTER KHANDA TA", 2510>>, <<"BENGALI AU LENGTH MARK", 2519>>,
    <<"BENGALI LETTER RRA", 2524>>, <<"BENGALI LETTER RHA", 2525>>, <<"BENGALI LETTER YYA", 2527>>,
    <<"BENGALI LETTER VOCALIC RR", 2528>>, <<"BENGALI LETTER VOCALIC LL", 2529>>,
    <<"BENGALI VOWEL SIGN VOCALIC L", 2530>>, <<"BENGALI VOWEL SIGN VOCALIC LL", 2531>>,
    <<"BENGALI DIGIT ZERO", 2534>>, <<"BENGALI DIGIT ONE", 2535>>, <<"BENGALI DIGIT TWO", 2536>>,
    <<"BENGALI DIGIT THREE", 2537>>, <<"BENGALI DIGIT FOUR", 2538>>, <<"BENGALI DIGIT FIVE", 2539>>,
    <<"BENGALI DIGIT SIX", 2540>>, <<"BENGALI DIGIT SEVEN", 2541>>, <<"BENGALI DIGIT EIGHT", 2542>>,
    <<"BENGALI DIGIT NINE", 2543>>, <<"BENGALI LETTER RA WITH MIDDLE DIAGONAL", 2544>>,
    <<"BENGALI LETTER RA WITH LOWER DIAGONAL", 2545>>, <<"BENGALI RUPEE MARK", 2546>>,
    <<"BENGALI RUPEE SIGN", 2547>>, <<"BENGALI CURRENCY NUMERATOR ONE", 2548>>,
    <<"BENGALI CURRENCY NUMERATOR TWO", 2549>>, <<"BENGALI CURRENCY NUMERATOR THREE", 2550>>,
    <<"BENGALI CURRENCY NUMERATOR FOUR", 2551>>,
    <<"BENGALI CURRENCY NUMERATOR ONE LESS THAN THE DENOMINATOR", 2552>>,
    <<"BENGALI CURRENCY DENOMINATOR SIXTEEN", 2553>>, <<"BENGALI ISSHAR", 2554>>,
    <<"BENGALI GANDA MARK", 2555>>, <<"BENGALI LETTER VEDIC ANUSVARA", 2556>>,
    <<"BENGALI ABBREVIATION SIGN", 2557>>, <<"BENGALI SANDHI MARK", 2558>>,
    <<"GURMUKHI SIGN ADAK BINDI", 2561>>, <<"GURMUKHI SIGN BINDI", 2562>>,
    <<"GURMUKHI SIGN VISARGA", 2563>>, <<"GURMUKHI LETTER A", 2565>>, <<"GURMUKHI LETTER AA", 2566>>,
    <<"GURMUKHI LETTER I", 2567>>, <<"GURMUKHI LETTER II", 2568>>, <<"GURMUKHI LETTER U", 2569>>,
    <<"GURMUKHI LETTER UU", 2570>>, <<"GURMUKHI LETTER EE", 2575>>, <<"GURMUKHI LETTER AI", 2576>>,
    <<"GURMUKHI LETTER OO", 2579>>, <<"GURMUKHI LETTER AU", 2580>>, <<"GURMUKHI LETTER KA", 2581>>,
    <<"GURMUKHI LETTER KHA", 2582>>, <<"GURMUKHI LETTER GA", 2583>>, <<"GURMUKHI LETTER GHA", 2584>>,
    <<"GURMUKHI LETTER NGA", 2585>>, <<"GURMUKHI LETTER CA", 2586>>, <<"GURMUKHI LETTER CHA", 2587>>,
    <<"GURMUKHI LETTER JA", 2588>>, <<"GURMUKHI LETTER JHA", 2589>>, <<"GURMUKHI LETTER NYA", 2590>>,
    <<"GURMUKHI LETTER TTA", 2591>>, <<"GURMUKHI LETTER TTHA", 2592>>, <<"GURMUKHI LETTER DDA", 2593>>,
    <<"GURMUKHI LETTER DDHA", 2594>>, <<"GURMUKHI LETTER NNA", 2595>>, <<"GURMUKHI LETTER TA", 2596>>,
    <<"GURMUKHI LETTER THA", 2597>>, <<"GURMUKHI LETTER DA", 2598>>, <<"GURMUKHI LETTER DHA", 2599>>,
    <<"GURMUKHI LETTER NA", 2600>>, <<"GURMUKHI LETTER PA", 2602>>, <<"GURMUKHI LETTER PHA", 2603>>,
    <<"GURMUKHI LETTER BA", 2604>>, <<"GURMUKHI LETTER BHA", 2605>>, <<"GURMUKHI LETTER MA", 2606>>,
    <<"GURMUKHI LETTER YA", 2607>>, <<"GURMUKHI LETTER RA", 2608>>, <<"GURMUKHI LETTER LA", 2610>>,
    <<"GURMUKHI LETTER LLA", 2611>>, <<"GURMUKHI LETTER VA", 2613>>, <<"GURMUKHI LETTER SHA", 2614>>,
    <<"GURMUKHI LETTER SA", 2616>>, <<"GURMUKHI LETTER HA", 2617>>, <<"GURMUKHI SIGN NUKTA", 2620>>,
    <<"GURMUKHI VOWEL SIGN AA", 2622>>, <<"GURMUKHI VOWEL SIGN I", 2623>>,
    <<"GURMUKHI VOWEL SIGN II", 2624>>, <<"GURMUKHI VOWEL SIGN U", 2625>>,
    <<"GURMUKHI VOWEL SIGN UU", 2626>>, <<"GURMUKHI VOWEL SIGN EE", 2631>>,
    <<"GURMUKHI VOWEL SIGN AI", 2632>>, <<"GURMUKHI VOWEL SIGN OO", 2635>>,
    <<"GURMUKHI VOWEL SIGN AU", 2636>>, <<"GURMUKHI SIGN VIRAMA", 2637>>,
    <<"GURMUKHI SIGN UDAAT", 2641>>, <<"GURMUKHI LETTER KHHA", 2649>>,
    <<"GURMUKHI LETTER GHHA", 2650>>, <<"GURMUKHI LETTER ZA", 2651>>, <<"GURMUKHI LETTER RRA", 2652>>,
    <<"GURMUKHI LETTER FA", 2654>>, <<"GURMUKHI DIGIT ZERO", 2662>>, <<"GURMUKHI DIGIT ONE", 2663>>,
    <<"GURMUKHI DIGIT TWO", 2664>>, <<"GURMUKHI DIGIT THREE", 2665>>, <<"GURMUKHI DIGIT FOUR", 2666>>,
    <<"GURMUKHI DIGIT FIVE", 2667>>, <<"GURMUKHI DIGIT SIX", 2668>>, <<"GURMUKHI DIGIT SEVEN", 2669>>,
    <<"GURMUKHI DIGIT EIGHT", 2670>>, <<"GURMUKHI DIGIT NINE", 2671>>, <<"GURMUKHI TIPPI", 2672>>,
    <<"GURMUKHI ADDAK", 2673>>, <<"GURMUKHI IRI", 2674>>, <<"GURMUKHI URA", 2675>>,
    <<"GURMUKHI EK ONKAR", 2676>>, <<"GURMUKHI SIGN YAKASH", 2677>>,
    <<"GURMUKHI ABBREVIATION SIGN", 2678>>, <<"GUJARATI SIGN CANDRABINDU", 2689>>,
    <<"GUJARATI SIGN ANUSVARA", 2690>>, <<"GUJARATI SIGN VISARGA", 2691>>,
    <<"GUJARATI LETTER A", 2693>>, <<"GUJARATI LETTER AA", 2694>>, <<"GUJARATI LETTER I", 2695>>,
    <<"GUJARATI LETTER II", 2696>>, <<"GUJARATI LETTER U", 2697>>, <<"GUJARATI LETTER UU", 2698>>,
    <<"GUJARATI LETTER VOCALIC R", 2699>>, <<"GUJARATI LETTER VOCALIC L", 2700>>,
    <<"GUJARATI VOWEL CANDRA E", 2701>>, <<"GUJARATI LETTER E", 2703>>, <<"GUJARATI LETTER AI", 2704>>,
    <<"GUJARATI VOWEL CANDRA O", 2705>>, <<"GUJARATI LETTER O", 2707>>, <<"GUJARATI LETTER AU", 2708>>,
    <<"GUJARATI LETTER KA", 2709>>, <<"GUJARATI LETTER KHA", 2710>>, <<"GUJARATI LETTER GA", 2711>>,
    <<"GUJARATI LETTER GHA", 2712>>, <<"GUJARATI LETTER NGA", 2713>>, <<"GUJARATI LETTER CA", 2714>>,
    <<"GUJARATI LETTER CHA", 2715>>, <<"GUJARATI LETTER JA", 2716>>, <<"GUJARATI LETTER JHA", 2717>>,
    <<"GUJARATI LETTER NYA", 2718>>, <<"GUJARATI LETTER TTA", 2719>>, <<"GUJARATI LETTER TTHA", 2720>>,
    <<"GUJARATI LETTER DDA", 2721>>, <<"GUJARATI LETTER DDHA", 2722>>, <<"GUJARATI LETTER NNA", 2723>>,
    <<"GUJARATI LETTER TA", 2724>>, <<"GUJARATI LETTER THA", 2725>>, <<"GUJARATI LETTER DA", 2726>>,
    <<"GUJARATI LETTER DHA", 2727>>, <<"GUJARATI LETTER NA", 2728>>, <<"GUJARATI LETTER PA", 2730>>,
    <<"GUJARATI LETTER PHA", 2731>>, <<"GUJARATI LETTER BA", 2732>>, <<"GUJARATI LETTER BHA", 2733>>,
    <<"GUJARATI LETTER MA", 2734>>, <<"GUJARATI LETTER YA", 2735>>, <<"GUJARATI LETTER RA", 2736>>,
    <<"GUJARATI LETTER LA", 2738>>, <<"GUJARATI LETTER LLA", 2739>>, <<"GUJARATI LETTER VA", 2741>>,
    <<"GUJARATI LETTER SHA", 2742>>, <<"GUJARATI LETTER SSA", 2743>>, <<"GUJARATI LETTER SA", 2744>>,
    <<"GUJARATI LETTER HA", 2745>>, <<"GUJARATI SIGN NUKTA", 2748>>,
    <<"GUJARATI SIGN AVAGRAHA", 2749>>, <<"GUJARATI VOWEL SIGN AA", 2750>>,
    <<"GUJARATI VOWEL SIGN I", 2751>>, <<"GUJARATI VOWEL SIGN II", 2752>>,
    <<"GUJARATI VOWEL SIGN U", 2753>>, <<"GUJARATI VOWEL SIGN UU", 2754>>,
    <<"GUJARATI VOWEL SIGN VOCALIC R", 2755>>, <<"GUJARATI VOWEL SIGN VOCALIC RR", 2756>>,
    <<"GUJARATI VOWEL SIGN CANDRA E", 2757>>, <<"GUJARATI VOWEL SIGN E", 2759>>,
    <<"GUJARATI VOWEL SIGN AI", 2760>>, <<"GUJARATI VOWEL SIGN CANDRA O", 2761>>,
    <<"GUJARATI VOWEL SIGN O", 2763>>, <<"GUJARATI VOWEL SIGN AU", 2764>>,
    <<"GUJARATI SIGN VIRAMA", 2765>>, <<"GUJARATI OM", 2768>>, <<"GUJARATI LETTER VOCALIC RR", 2784>>,
    <<"GUJARATI LETTER VOCALIC LL", 2785>>, <<"GUJARATI VOWEL SIGN VOCALIC L", 2786>>,
    <<"GUJARATI VOWEL SIGN VOCALIC LL", 2787>>, <<"GUJARATI DIGIT ZERO", 2790>>,
    <<"GUJARATI DIGIT ONE", 2791>>, <<"GUJARATI DIGIT TWO", 2792>>, <<"GUJARATI DIGIT THREE", 2793>>,
    <<"GUJARATI DIGIT FOUR", 2794>>, <<"GUJARATI DIGIT FIVE", 2795>>, <<"GUJARATI DIGIT SIX", 2796>>,
    <<"GUJARATI DIGIT SEVEN", 2797>>, <<"GUJARATI DIGIT EIGHT", 2798>>,
    <<"GUJARATI DIGIT NINE", 2799>>, <<"GUJARATI ABBREVIATION SIGN", 2800>>,
    <<"GUJARATI RUPEE SIGN", 2801>>, <<"GUJARATI LETTER ZHA", 2809>>, <<"GUJARATI SIGN SUKUN", 2810>>,
    <<"GUJARATI SIGN SHADDA", 2811>>, <<"GUJARATI SIGN MADDAH", 2812>>,
    <<"GUJARATI SIGN THREE-DOT NUKTA ABOVE", 2813>>, <<"GUJARATI SIGN CIRCLE NUKTA ABOVE", 2814>>,
    <<"GUJARATI SIGN TWO-CIRCLE NUKTA ABOVE", 2815>>, <<"ORIYA SIGN CANDRABINDU", 2817>>,
    <<"ORIYA SIGN ANUSVARA", 2818>>, <<"ORIYA SIGN VISARGA", 2819>>, <<"ORIYA LETTER A", 2821>>,
    <<"ORIYA LETTER AA", 2822>>, <<"ORIYA LETTER I", 2823>>, <<"ORIYA LETTER II", 2824>>,
    <<"ORIYA LETTER U", 2825>>, <<"ORIYA LETTER UU", 2826>>, <<"ORIYA LETTER VOCALIC R", 2827>>,
    <<"ORIYA LETTER VOCALIC L", 2828>>, <<"ORIYA LETTER E", 2831>>, <<"ORIYA LETTER AI", 2832>>,
    <<"ORIYA LETTER O", 2835>>, <<"ORIYA LETTER AU", 2836>>, <<"ORIYA LETTER KA", 2837>>,
    <<"ORIYA LETTER KHA", 2838>>, <<"ORIYA LETTER GA", 2839>>, <<"ORIYA LETTER GHA", 2840>>,
    <<"ORIYA LETTER NGA", 2841>>, <<"ORIYA LETTER CA", 2842>>, <<"ORIYA LETTER CHA", 2843>>,
    <<"ORIYA LETTER JA", 2844>>, <<"ORIYA LETTER JHA", 2845>>, <<"ORIYA LETTER NYA", 2846>>,
    <<"ORIYA LETTER TTA", 2847>>, <<"ORIYA LETTER TTHA", 2848>>, <<"ORIYA LETTER DDA", 2849>>,
    <<"ORIYA LETTER DDHA", 2850>>, <<"ORIYA LETTER NNA", 2851>>, <<"ORIYA LETTER TA", 2852>>,
    <<"ORIYA LETTER THA", 2853>>, <<"ORIYA LETTER DA", 2854>>, <<"ORIYA LETTER DHA", 2855>>,
    <<"ORIYA LETTER NA", 2856>>, <<"ORIYA LETTER PA", 2858>>, <<"ORIYA LETTER PHA", 2859>>,
    <<"ORIYA LETTER BA", 2860>>, <<"ORIYA LETTER BHA", 2861>>, <<"ORIYA LETTER MA", 2862>>,
    <<"ORIYA LETTER YA", 2863>>, <<"ORIYA LETTER RA", 2864>>, <<"ORIYA LETTER LA", 2866>>,
    <<"ORIYA LETTER LLA", 2867>>, <<"ORIYA LETTER VA", 2869>>, <<"ORIYA LETTER SHA", 2870>>,
    <<"ORIYA LETTER SSA", 2871>>, <<"ORIYA LETTER SA", 2872>>, <<"ORIYA LETTER HA", 2873>>,
    <<"ORIYA SIGN NUKTA", 2876>>, <<"ORIYA SIGN AVAGRAHA", 2877>>, <<"ORIYA VOWEL SIGN AA", 2878>>,
    <<"ORIYA VOWEL SIGN I", 2879>>, <<"ORIYA VOWEL SIGN II", 2880>>, <<"ORIYA VOWEL SIGN U", 2881>>,
    <<"ORIYA VOWEL SIGN UU", 2882>>, <<"ORIYA VOWEL SIGN VOCALIC R", 2883>>,
    <<"ORIYA VOWEL SIGN VOCALIC RR", 2884>>, <<"ORIYA VOWEL SIGN E", 2887>>,
    <<"ORIYA VOWEL SIGN AI", 2888>>, <<"ORIYA VOWEL SIGN O", 2891>>, <<"ORIYA VOWEL SIGN AU", 2892>>,
    <<"ORIYA SIGN VIRAMA", 2893>>, <<"ORIYA SIGN OVERLINE", 2901>>, <<"ORIYA AI LENGTH MARK", 2902>>,
    <<"ORIYA AU LENGTH MARK", 2903>>, <<"ORIYA LETTER RRA", 2908>>, <<"ORIYA LETTER RHA", 2909>>,
    <<"ORIYA LETTER YYA", 2911>>, <<"ORIYA LETTER VOCALIC RR", 2912>>,
    <<"ORIYA LETTER VOCALIC LL", 2913>>, <<"ORIYA VOWEL SIGN VOCALIC L", 2914>>,
    <<"ORIYA VOWEL SIGN VOCALIC LL", 2915>>, <<"ORIYA DIGIT ZERO", 2918>>, <<"ORIYA DIGIT ONE", 2919>>,
    <<"ORIYA DIGIT TWO", 2920>>, <<"ORIYA DIGIT THREE", 2921>>, <<"ORIYA DIGIT FOUR", 2922>>,
    <<"ORIYA DIGIT FIVE", 2923>>, <<"ORIYA DIGIT SIX", 2924>>, <<"ORIYA DIGIT SEVEN", 2925>>,
    <<"ORIYA DIGIT EIGHT", 2926>>, <<"ORIYA DIGIT NINE", 2927>>, <<"ORIYA ISSHAR", 2928>>,
    <<"ORIYA LETTER WA", 2929>>, <<"ORIYA FRACTION ONE QUARTER", 2930>>,
    <<"ORIYA FRACTION ONE HALF", 2931>>, <<"ORIYA FRACTION THREE QUARTERS", 2932>>,
    <<"ORIYA FRACTION ONE SIXTEENTH", 2933>>, <<"ORIYA FRACTION ONE EIGHTH", 2934>>,
    <<"ORIYA FRACTION THREE SIXTEENTHS", 2935>>, <<"TAMIL SIGN ANUSVARA", 2946>>,
    <<"TAMIL SIGN VISARGA", 2947>>, <<"TAMIL LETTER A", 2949>>, <<"TAMIL LETTER AA", 2950>>,
    <<"TAMIL LETTER I", 2951>>, <<"TAMIL LETTER II", 2952>>, <<"TAMIL LETTER U", 2953>>,
    <<"TAMIL LETTER UU", 2954>>, <<"TAMIL LETTER E", 2958>>, <<"TAMIL LETTER EE", 2959>>,
    <<"TAMIL LETTER AI", 2960>>, <<"TAMIL LETTER O", 2962>>, <<"TAMIL LETTER OO", 2963>>,
    <<"TAMIL LETTER AU", 2964>>, <<"TAMIL LETTER KA", 2965>>, <<"TAMIL LETTER NGA", 2969>>,
    <<"TAMIL LETTER CA", 2970>>, <<"TAMIL LETTER JA", 2972>>, <<"TAMIL LETTER NYA", 2974>>,
    <<"TAMIL LETTER TTA", 2975>>, <<"TAMIL LETTER NNA", 2979>>, <<"TAMIL LETTER TA", 2980>>,
    <<"TAMIL LETTER NA", 2984>>, <<"TAMIL LETTER NNNA", 2985>>, <<"TAMIL LETTER PA", 2986>>,
    <<"TAMIL LETTER MA", 2990>>, <<"TAMIL LETTER YA", 2991>>, <<"TAMIL LETTER RA", 2992>>,
    <<"TAMIL LETTER RRA", 2993>>, <<"TAMIL LETTER LA", 2994>>, <<"TAMIL LETTER LLA", 2995>>,
    <<"TAMIL LETTER LLLA", 2996>>, <<"TAMIL LETTER VA", 2997>>, <<"TAMIL LETTER SHA", 2998>>,
    <<"TAMIL LETTER SSA", 2999>>, <<"TAMIL LETTER SA", 3000>>, <<"TAMIL LETTER HA", 3001>>,
    <<"TAMIL VOWEL SIGN AA", 3006>>, <<"TAMIL VOWEL SIGN I", 3007>>, <<"TAMIL VOWEL SIGN II", 3008>>,
    <<"TAMIL VOWEL SIGN U", 3009>>, <<"TAMIL VOWEL SIGN UU", 3010>>, <<"TAMIL VOWEL SIGN E", 3014>>,
    <<"TAMIL VOWEL SIGN EE", 3015>>, <<"TAMIL VOWEL SIGN AI", 3016>>, <<"TAMIL VOWEL SIGN O", 3018>>,
    <<"TAMIL VOWEL SIGN OO", 3019>>, <<"TAMIL VOWEL SIGN AU", 3020>>, <<"TAMIL SIGN VIRAMA", 3021>>,
    <<"TAMIL OM", 3024>>, <<"TAMIL AU LENGTH MARK", 3031>>, <<"TAMIL DIGIT ZERO", 3046>>,
    <<"TAMIL DIGIT ONE", 3047>>, <<"TAMIL DIGIT TWO", 3048>>, <<"TAMIL DIGIT THREE", 3049>>,
    <<"TAMIL DIGIT FOUR", 3050>>, <<"TAMIL DIGIT FIVE", 3051>>, <<"TAMIL DIGIT SIX", 3052>>,
    <<"TAMIL DIGIT SEVEN", 3053>>, <<"TAMIL DIGIT EIGHT", 3054>>, <<"TAMIL DIGIT NINE", 3055>>,
    <<"TAMIL NUMBER TEN", 3056>>, <<"TAMIL NUMBER ONE HUNDRED", 3057>>,
    <<"TAMIL NUMBER ONE THOUSAND", 3058>>, <<"TAMIL DAY SIGN", 3059>>, <<"TAMIL MONTH SIGN", 3060>>,
    <<"TAMIL YEAR SIGN", 3061>>, <<"TAMIL DEBIT SIGN", 3062>>, <<"TAMIL CREDIT SIGN", 3063>>,
    <<"TAMIL AS ABOVE SIGN", 3064>>, <<"TAMIL RUPEE SIGN", 3065>>, <<"TAMIL NUMBER SIGN", 3066>>,
    <<"TELUGU SIGN COMBINING CANDRABINDU ABOVE", 3072>>, <<"TELUGU SIGN CANDRABINDU", 3073>>,
    <<"TELUGU SIGN ANUSVARA", 3074>>, <<"TELUGU SIGN VISARGA", 3075>>,
    <<"TELUGU SIGN COMBINING ANUSVARA ABOVE", 3076>>, <<"TELUGU LETTER A", 3077>>,
    <<"TELUGU LETTER AA", 3078>>, <<"TELUGU LETTER I", 3079>>, <<"TELUGU LETTER II", 3080>>,
    <<"TELUGU LETTER U", 3081>>, <<"TELUGU LETTER UU", 3082>>, <<"TELUGU LETTER VOCALIC R", 3083>>,
    <<"TELUGU LETTER VOCALIC L", 3084>>, <<"TELUGU LETTER E", 3086>>, <<"TELUGU LETTER EE", 3087>>,
    <<"TELUGU LETTER AI", 3088>>, <<"TELUGU LETTER O", 3090>>, <<"TELUGU LETTER OO", 3091>>,
    <<"TELUGU LETTER AU", 3092>>, <<"TELUGU LETTER KA", 3093>>, <<"TELUGU LETTER KHA", 3094>>,
    <<"TELUGU LETTER GA", 3095>>, <<"TELUGU LETTER GHA", 3096>>, <<"TELUGU LETTER NGA", 3097>>,
    <<"TELUGU LETTER CA", 3098>>, <<"TELUGU LETTER CHA", 3099>>, <<"TELUGU LETTER JA", 3100>>,
    <<"TELUGU LETTER JHA", 3101>>, <<"TELUGU LETTER NYA", 3102>>, <<"TELUGU LETTER TTA", 3103>>,
    <<"TELUGU LETTER TTHA", 3104>>, <<"TELUGU LETTER DDA", 3105>>, <<"TELUGU LETTER DDHA", 3106>>,
    <<"TELUGU LETTER NNA", 3107>>, <<"TELUGU LETTER TA", 3108>>, <<"TELUGU LETTER THA", 3109>>,
    <<"TELUGU LETTER DA", 3110>>, <<"TELUGU LETTER DHA", 3111>>, <<"TELUGU LETTER NA", 3112>>,
    <<"TELUGU LETTER PA", 3114>>, <<"TELUGU LETTER PHA", 3115>>, <<"TELUGU LETTER BA", 3116>>,
    <<"TELUGU LETTER BHA", 3117>>, <<"TELUGU LETTER MA", 3118>>, <<"TELUGU LETTER YA", 3119>>,
    <<"TELUGU LETTER RA", 3120>>, <<"TELUGU LETTER RRA", 3121>>, <<"TELUGU LETTER LA", 3122>>,
    <<"TELUGU LETTER LLA", 3123>>, <<"TELUGU LETTER LLLA", 3124>>, <<"TELUGU LETTER VA", 3125>>,
    <<"TELUGU LETTER SHA", 3126>>, <<"TELUGU LETTER SSA", 3127>>, <<"TELUGU LETTER SA", 3128>>,
    <<"TELUGU LETTER HA", 3129>>, <<"TELUGU SIGN NUKTA", 3132>>, <<"TELUGU SIGN AVAGRAHA", 3133>>,
    <<"TELUGU VOWEL SIGN AA", 3134>>, <<"TELUGU VOWEL SIGN I", 3135>>,
    <<"TELUGU VOWEL SIGN II", 3136>>, <<"TELUGU VOWEL SIGN U", 3137>>,
    <<"TELUGU VOWEL SIGN UU", 3138>>, <<"TELUGU VOWEL SIGN VOCALIC R", 3139>>,
    <<"TELUGU VOWEL SIGN VOCALIC RR", 3140>>, <<"TELUGU VOWEL SIGN E", 3142>>,
    <<"TELUGU VOWEL SIGN EE", 3143>>, <<"TELUGU VOWEL SIGN AI", 3144>>,
    <<"TELUGU VOWEL SIGN O", 3146>>, <<"TELUGU VOWEL SIGN OO", 3147>>,
    <<"TELUGU VOWEL SIGN AU", 3148>>, <<"TELUGU SIGN VIRAMA", 3149>>, <<"TELUGU LENGTH MARK", 3157>>,
    <<"TELUGU AI LENGTH MARK", 3158>>, <<"TELUGU LETTER TSA", 3160>>, <<"TELUGU LETTER DZA", 3161>>,
    <<"TELUGU LETTER RRRA", 3162>>, <<"TELUGU LETTER NAKAARA POLLU", 3165>>,
    <<"TELUGU LETTER VOCALIC RR", 3168>>, <<"TELUGU LETTER VOCALIC LL", 3169>>,
    <<"TELUGU VOWEL SIGN VOCALIC L", 3170>>, <<"TELUGU VOWEL SIGN VOCALIC LL", 3171>>,
    <<"TELUGU DIGIT ZERO", 3174>>, <<"TELUGU DIGIT ONE", 3175>>, <<"TELUGU DIGIT TWO", 3176>>,
    <<"TELUGU DIGIT THREE", 3177>>, <<"TELUGU DIGIT FOUR", 3178>>, <<"TELUGU DIGIT FIVE", 3179>>,
    <<"TELUGU DIGIT SIX", 3180>>, <<"TELUGU DIGIT SEVEN", 3181>>, <<"TELUGU DIGIT EIGHT", 3182>>,
    <<"TELUGU DIGIT NINE", 3183>>, <<"TELUGU SIGN SIDDHAM", 3191>>,
    <<"TELUGU FRACTION DIGIT ZERO FOR ODD POWERS OF FOUR", 3192>>,
    <<"TELUGU FRACTION DIGIT ONE FOR ODD POWERS OF FOUR", 3193>>,
    <<"TELUGU FRACTION DIGIT TWO FOR ODD POWERS OF FOUR", 3194>>,
    <<"TELUGU FRACTION DIGIT THREE FOR ODD POWERS OF FOUR", 3195>>,
    <<"TELUGU FRACTION DIGIT ONE FOR EVEN POWERS OF FOUR", 3196>>,
    <<"TELUGU FRACTION DIGIT TWO FOR EVEN POWERS OF FOUR", 3197>>,
    <<"TELUGU FRACTION DIGIT THREE FOR EVEN POWERS OF FOUR", 3198>>, <<"TELUGU SIGN TUUMU", 3199>>,
    <<"KANNADA SIGN SPACING CANDRABINDU", 3200>>, <<"KANNADA SIGN CANDRABINDU", 3201>>,
    <<"KANNADA SIGN ANUSVARA", 3202>>, <<"KANNADA SIGN VISARGA", 3203>>,
    <<"KANNADA SIGN SIDDHAM", 3204>>, <<"KANNADA LETTER A", 3205>>, <<"KANNADA LETTER AA", 3206>>,
    <<"KANNADA LETTER I", 3207>>, <<"KANNADA LETTER II", 3208>>, <<"KANNADA LETTER U", 3209>>,
    <<"KANNADA LETTER UU", 3210>>, <<"KANNADA LETTER VOCALIC R", 3211>>,
    <<"KANNADA LETTER VOCALIC L", 3212>>, <<"KANNADA LETTER E", 3214>>, <<"KANNADA LETTER EE", 3215>>,
    <<"KANNADA LETTER AI", 3216>>, <<"KANNADA LETTER O", 3218>>, <<"KANNADA LETTER OO", 3219>>,
    <<"KANNADA LETTER AU", 3220>>, <<"KANNADA LETTER KA", 3221>>, <<"KANNADA LETTER KHA", 3222>>,
    <<"KANNADA LETTER GA", 3223>>, <<"KANNADA LETTER GHA", 3224>>, <<"KANNADA LETTER NGA", 3225>>,
    <<"KANNADA LETTER CA", 3226>>, <<"KANNADA LETTER CHA", 3227>>, <<"KANNADA LETTER JA", 3228>>,
    <<"KANNADA LETTER JHA", 3229>>, <<"KANNADA LETTER NYA", 3230>>, <<"KANNADA LETTER TTA", 3231>>,
    <<"KANNADA LETTER TTHA", 3232>>, <<"KANNADA LETTER DDA", 3233>>, <<"KANNADA LETTER DDHA", 3234>>,
    <<"KANNADA LETTER NNA", 3235>>, <<"KANNADA LETTER TA", 3236>>, <<"KANNADA LETTER THA", 3237>>,
    <<"KANNADA LETTER DA", 3238>>, <<"KANNADA LETTER DHA", 3239>>, <<"KANNADA LETTER NA", 3240>>,
    <<"KANNADA LETTER PA", 3242>>, <<"KANNADA LETTER PHA", 3243>>, <<"KANNADA LETTER BA", 3244>>,
    <<"KANNADA LETTER BHA", 3245>>, <<"KANNADA LETTER MA", 3246>>, <<"KANNADA LETTER YA", 3247>>,
    <<"KANNADA LETTER RA", 3248>>, <<"KANNADA LETTER RRA", 3249>>, <<"KANNADA LETTER LA", 3250>>,
    <<"KANNADA LETTER LLA", 3251>>, <<"KANNADA LETTER VA", 3253>>, <<"KANNADA LETTER SHA", 3254>>,
    <<"KANNADA LETTER SSA", 3255>>, <<"KANNADA LETTER SA", 3256>>, <<"KANNADA LETTER HA", 3257>>,
    <<"KANNADA SIGN NUKTA", 3260>>, <<"KANNADA SIGN AVAGRAHA", 3261>>,
    <<"KANNADA VOWEL SIGN AA", 3262>>, <<"KANNADA VOWEL SIGN I", 3263>>,
    <<"KANNADA VOWEL SIGN II", 3264>>, <<"KANNADA VOWEL SIGN U", 3265>>,
    <<"KANNADA VOWEL SIGN UU", 3266>>, <<"KANNADA VOWEL SIGN VOCALIC R", 3267>>,
    <<"KANNADA VOWEL SIGN VOCALIC RR", 3268>>, <<"KANNADA VOWEL SIGN E", 3270>>,
    <<"KANNADA VOWEL SIGN EE", 3271>>, <<"KANNADA VOWEL SIGN AI", 3272>>,
    <<"KANNADA VOWEL SIGN O", 3274>>, <<"KANNADA VOWEL SIGN OO", 3275>>,
    <<"KANNADA VOWEL SIGN AU", 3276>>, <<"KANNADA SIGN VIRAMA", 3277>>,
    <<"KANNADA LENGTH MARK", 3285>>, <<"KANNADA AI LENGTH MARK", 3286>>,
    <<"KANNADA LETTER NAKAARA POLLU", 3293>>, <<"KANNADA LETTER FA", 3294>>,
    <<"KANNADA LETTER LLLA", 3294>>, <<"KANNADA LETTER VOCALIC RR", 3296>>,
    <<"KANNADA LETTER VOCALIC LL", 3297>>, <<"KANNADA VOWEL SIGN VOCALIC L", 3298>>,
    <<"KANNADA VOWEL SIGN VOCALIC LL", 3299>>, <<"KANNADA DIGIT ZERO", 3302>>,
    <<"KANNADA DIGIT ONE", 3303>>, <<"KANNADA DIGIT TWO", 3304>>, <<"KANNADA DIGIT THREE", 3305>>,
    <<"KANNADA DIGIT FOUR", 3306>>, <<"KANNADA DIGIT FIVE", 3307>>, <<"KANNADA DIGIT SIX", 3308>>,
    <<"KANNADA DIGIT SEVEN", 3309>>, <<"KANNADA DIGIT EIGHT", 3310>>, <<"KANNADA DIGIT NINE", 3311>>,
    <<"KANNADA SIGN JIHVAMULIYA", 3313>>, <<"KANNADA SIGN UPADHMANIYA", 3314>>,
    <<"MALAYALAM SIGN COMBINING ANUSVARA ABOVE", 3328>>, <<"MALAYALAM SIGN CANDRABINDU", 3329>>,
    <<"MALAYALAM SIGN ANUSVARA", 3330>>, <<"MALAYALAM SIGN VISARGA", 3331>>,
    <<"MALAYALAM LETTER VEDIC ANUSVARA", 3332>>, <<"MALAYALAM LETTER A", 3333>>,
    <<"MALAYALAM LETTER AA", 3334>>, <<"MALAYALAM LETTER I", 3335>>, <<"MALAYALAM LETTER II", 3336>>,
    <<"MALAYALAM LETTER U", 3337>>, <<"MALAYALAM LETTER UU", 3338>>,
    <<"MALAYALAM LETTER VOCALIC R", 3339>>, <<"MALAYALAM LETTER VOCALIC L", 3340>>,
    <<"MALAYALAM LETTER E", 3342>>, <<"MALAYALAM LETTER EE", 3343>>, <<"MALAYALAM LETTER AI", 3344>>,
    <<"MALAYALAM LETTER O", 3346>>, <<"MALAYALAM LETTER OO", 3347>>, <<"MALAYALAM LETTER AU", 3348>>,
    <<"MALAYALAM LETTER KA", 3349>>, <<"MALAYALAM LETTER KHA", 3350>>, <<"MALAYALAM LETTER GA", 3351>>,
    <<"MALAYALAM LETTER GHA", 3352>>, <<"MALAYALAM LETTER NGA", 3353>>,
    <<"MALAYALAM LETTER CA", 3354>>, <<"MALAYALAM LETTER CHA", 3355>>, <<"MALAYALAM LETTER JA", 3356>>,
    <<"MALAYALAM LETTER JHA", 3357>>, <<"MALAYALAM LETTER NYA", 3358>>,
    <<"MALAYALAM LETTER TTA", 3359>>, <<"MALAYALAM LETTER TTHA", 3360>>,
    <<"MALAYALAM LETTER DDA", 3361>>, <<"MALAYALAM LETTER DDHA", 3362>>,
    <<"MALAYALAM LETTER NNA", 3363>>, <<"MALAYALAM LETTER TA", 3364>>,
    <<"MALAYALAM LETTER THA", 3365>>, <<"MALAYALAM LETTER DA", 3366>>,
    <<"MALAYALAM LETTER DHA", 3367>>, <<"MALAYALAM LETTER NA", 3368>>,
    <<"MALAYALAM LETTER NNNA", 3369>>, <<"MALAYALAM LETTER PA", 3370>>,
    <<"MALAYALAM LETTER PHA", 3371>>, <<"MALAYALAM LETTER BA", 3372>>,
    <<"MALAYALAM LETTER BHA", 3373>>, <<"MALAYALAM LETTER MA", 3374>>, <<"MALAYALAM LETTER YA", 3375>>,
    <<"MALAYALAM LETTER RA", 3376>>, <<"MALAYALAM LETTER RRA", 3377>>, <<"MALAYALAM LETTER LA", 3378>>,
    <<"MALAYALAM LETTER LLA", 3379>>, <<"MALAYALAM LETTER LLLA", 3380>>,
    <<"MALAYALAM LETTER VA", 3381>>, <<"MALAYALAM LETTER SHA", 3382>>,
    <<"MALAYALAM LETTER SSA", 3383>>, <<"MALAYALAM LETTER SA", 3384>>, <<"MALAYALAM LETTER HA", 3385>>,
    <<"MALAYALAM LETTER TTTA", 3386>>, <<"MALAYALAM SIGN VERTICAL BAR VIRAMA", 3387>>,
    <<"MALAYALAM SIGN CIRCULAR VIRAMA", 3388>>, <<"MALAYALAM SIGN AVAGRAHA", 3389>>,
    <<"MALAYALAM VOWEL SIGN AA", 3390>>, <<"MALAYALAM VOWEL SIGN I", 3391>>,
    <<"MALAYALAM VOWEL SIGN II", 3392>>, <<"MALAYALAM VOWEL SIGN U", 3393>>,
    <<"MALAYALAM VOWEL SIGN UU", 3394>>, <<"MALAYALAM VOWEL SIGN VOCALIC R", 3395>>,
    <<"MALAYALAM VOWEL SIGN VOCALIC RR", 3396>>, <<"MALAYALAM VOWEL SIGN E", 3398>>,
    <<"MALAYALAM VOWEL SIGN EE", 3399>>, <<"MALAYALAM VOWEL SIGN AI", 3400>>,
    <<"MALAYALAM VOWEL SIGN O", 3402>>, <<"MALAYALAM VOWEL SIGN OO", 3403>>,
    <<"MALAYALAM VOWEL SIGN AU", 3404>>, <<"MALAYALAM SIGN VIRAMA", 3405>>,
    <<"MALAYALAM LETTER DOT REPH", 3406>>, <<"MALAYALAM SIGN PARA", 3407>>,
    <<"MALAYALAM LETTER CHILLU M", 3412>>, <<"MALAYALAM LETTER CHILLU Y", 3413>>,
    <<"MALAYALAM LETTER CHILLU LLL", 3414>>, <<"MALAYALAM AU LENGTH MARK", 3415>>,
    <<"MALAYALAM FRACTION ONE ONE-HUNDRED-AND-SIXTIETH", 3416>>,
    <<"MALAYALAM FRACTION ONE FORTIETH", 3417>>, <<"MALAYALAM FRACTION THREE EIGHTIETHS", 3418>>,
    <<"MALAYALAM FRACTION ONE TWENTIETH", 3419>>, <<"MALAYALAM FRACTION ONE TENTH", 3420>>,
    <<"MALAYALAM FRACTION THREE TWENTIETHS", 3421>>, <<"MALAYALAM FRACTION ONE FIFTH", 3422>>,
    <<"MALAYALAM LETTER ARCHAIC II", 3423>>, <<"MALAYALAM LETTER VOCALIC RR", 3424>>,
    <<"MALAYALAM LETTER VOCALIC LL", 3425>>, <<"MALAYALAM VOWEL SIGN VOCALIC L", 3426>>,
    <<"MALAYALAM VOWEL SIGN VOCALIC LL", 3427>>, <<"MALAYALAM DIGIT ZERO", 3430>>,
    <<"MALAYALAM DIGIT ONE", 3431>>, <<"MALAYALAM DIGIT TWO", 3432>>,
    <<"MALAYALAM DIGIT THREE", 3433>>, <<"MALAYALAM DIGIT FOUR", 3434>>,
    <<"MALAYALAM DIGIT FIVE", 3435>>, <<"MALAYALAM DIGIT SIX", 3436>>,
    <<"MALAYALAM DIGIT SEVEN", 3437>>, <<"MALAYALAM DIGIT EIGHT", 3438>>,
    <<"MALAYALAM DIGIT NINE", 3439>>, <<"MALAYALAM NUMBER TEN", 3440>>,
    <<"MALAYALAM NUMBER ONE HUNDRED", 3441>>, <<"MALAYALAM NUMBER ONE THOUSAND", 3442>>,
    <<"MALAYALAM FRACTION ONE QUARTER", 3443>>, <<"MALAYALAM FRACTION ONE HALF", 3444>>,
    <<"MALAYALAM FRACTION THREE QUARTERS", 3445>>, <<"MALAYALAM FRACTION ONE SIXTEENTH", 3446>>,
    <<"MALAYALAM FRACTION ONE EIGHTH", 3447>>, <<"MALAYALAM FRACTION THREE SIXTEENTHS", 3448>>,
    <<"MALAYALAM DATE MARK", 3449>>, <<"MALAYALAM LETTER CHILLU NN", 3450>>,
    <<"MALAYALAM LETTER CHILLU N", 3451>>, <<"MALAYALAM LETTER CHILLU RR", 3452>>,
    <<"MALAYALAM LETTER CHILLU L", 3453>>, <<"MALAYALAM LETTER CHILLU LL", 3454>>,
    <<"MALAYALAM LETTER CHILLU K", 3455>>, <<"SINHALA SIGN CANDRABINDU", 3457>>,
    <<"SINHALA SIGN ANUSVARAYA", 3458>>, <<"SINHALA SIGN VISARGAYA", 3459>>,
    <<"SINHALA LETTER AYANNA", 3461>>, <<"SINHALA LETTER AAYANNA", 3462>>,
    <<"SINHALA LETTER AEYANNA", 3463>>, <<"SINHALA LETTER AEEYANNA", 3464>>,
    <<"SINHALA LETTER IYANNA", 3465>>, <<"SINHALA LETTER IIYANNA", 3466>>,
    <<"SINHALA LETTER UYANNA", 3467>>, <<"SINHALA LETTER UUYANNA", 3468>>,
    <<"SINHALA LETTER IRUYANNA", 3469>>, <<"SINHALA LETTER IRUUYANNA", 3470>>,
    <<"SINHALA LETTER ILUYANNA", 3471>>, <<"SINHALA LETTER ILUUYANNA", 3472>>,
    <<"SINHALA LETTER EYANNA", 3473>>, <<"SINHALA LETTER EEYANNA", 3474>>,
    <<"SINHALA LETTER AIYANNA", 3475>>, <<"SINHALA LETTER OYANNA", 3476>>,
    <<"SINHALA LETTER OOYANNA", 3477>>, <<"SINHALA LETTER AUYANNA", 3478>>,
    <<"SINHALA LETTER ALPAPRAANA KAYANNA", 3482>>, <<"SINHALA LETTER MAHAAPRAANA KAYANNA", 3483>>,
    <<"SINHALA LETTER ALPAPRAANA GAYANNA", 3484>>, <<"SINHALA LETTER MAHAAPRAANA GAYANNA", 3485>>,
    <<"SINHALA LETTER KANTAJA NAASIKYAYA", 3486>>, <<"SINHALA LETTER SANYAKA GAYANNA", 3487>>,
    <<"SINHALA LETTER ALPAPRAANA CAYANNA", 3488>>, <<"SINHALA LETTER MAHAAPRAANA CAYANNA", 3489>>,
    <<"SINHALA LETTER ALPAPRAANA JAYANNA", 3490>>, <<"SINHALA LETTER MAHAAPRAANA JAYANNA", 3491>>,
    <<"SINHALA LETTER TAALUJA NAASIKYAYA", 3492>>,
    <<"SINHALA LETTER TAALUJA SANYOOGA NAAKSIKYAYA", 3493>>,
    <<"SINHALA LETTER SANYAKA JAYANNA", 3494>>, <<"SINHALA LETTER ALPAPRAANA TTAYANNA", 3495>>,
    <<"SINHALA LETTER MAHAAPRAANA TTAYANNA", 3496>>, <<"SINHALA LETTER ALPAPRAANA DDAYANNA", 3497>>,
    <<"SINHALA LETTER MAHAAPRAANA DDAYANNA", 3498>>, <<"SINHALA LETTER MUURDHAJA NAYANNA", 3499>>,
    <<"SINHALA LETTER SANYAKA DDAYANNA", 3500>>, <<"SINHALA LETTER ALPAPRAANA TAYANNA", 3501>>,
    <<"SINHALA LETTER MAHAAPRAANA TAYANNA", 3502>>, <<"SINHALA LETTER ALPAPRAANA DAYANNA", 3503>>,
    <<"SINHALA LETTER MAHAAPRAANA DAYANNA", 3504>>, <<"SINHALA LETTER DANTAJA NAYANNA", 3505>>,
    <<"SINHALA LETTER SANYAKA DAYANNA", 3507>>, <<"SINHALA LETTER ALPAPRAANA PAYANNA", 3508>>,
    <<"SINHALA LETTER MAHAAPRAANA PAYANNA", 3509>>, <<"SINHALA LETTER ALPAPRAANA BAYANNA", 3510>>,
    <<"SINHALA LETTER MAHAAPRAANA BAYANNA", 3511>>, <<"SINHALA LETTER MAYANNA", 3512>>,
    <<"SINHALA LETTER AMBA BAYANNA", 3513>>, <<"SINHALA LETTER YAYANNA", 3514>>,
    <<"SINHALA LETTER RAYANNA", 3515>>, <<"SINHALA LETTER DANTAJA LAYANNA", 3517>>,
    <<"SINHALA LETTER VAYANNA", 3520>>, <<"SINHALA LETTER TAALUJA SAYANNA", 3521>>,
    <<"SINHALA LETTER MUURDHAJA SAYANNA", 3522>>, <<"SINHALA LETTER DANTAJA SAYANNA", 3523>>,
    <<"SINHALA LETTER HAYANNA", 3524>>, <<"SINHALA LETTER MUURDHAJA LAYANNA", 3525>>,
    <<"SINHALA LETTER FAYANNA", 3526>>, <<"SINHALA SIGN AL-LAKUNA", 3530>>,
    <<"SINHALA VOWEL SIGN AELA-PILLA", 3535>>, <<"SINHALA VOWEL SIGN KETTI AEDA-PILLA", 3536>>,
    <<"SINHALA VOWEL SIGN DIGA AEDA-PILLA", 3537>>, <<"SINHALA VOWEL SIGN KETTI IS-PILLA", 3538>>,
    <<"SINHALA VOWEL SIGN DIGA IS-PILLA", 3539>>, <<"SINHALA VOWEL SIGN KETTI PAA-PILLA", 3540>>,
    <<"SINHALA VOWEL SIGN DIGA PAA-PILLA", 3542>>, <<"SINHALA VOWEL SIGN GAETTA-PILLA", 3544>>,
    <<"SINHALA VOWEL SIGN KOMBUVA", 3545>>, <<"SINHALA VOWEL SIGN DIGA KOMBUVA", 3546>>,
    <<"SINHALA VOWEL SIGN KOMBU DEKA", 3547>>, <<"SINHALA VOWEL SIGN KOMBUVA HAA AELA-PILLA", 3548>>,
    <<"SINHALA VOWEL SIGN KOMBUVA HAA DIGA AELA-PILLA", 3549>>,
    <<"SINHALA VOWEL SIGN KOMBUVA HAA GAYANUKITTA", 3550>>, <<"SINHALA VOWEL SIGN GAYANUKITTA", 3551>>,
    <<"SINHALA LITH DIGIT ZERO", 3558>>, <<"SINHALA LITH DIGIT ONE", 3559>>,
    <<"SINHALA LITH DIGIT TWO", 3560>>, <<"SINHALA LITH DIGIT THREE", 3561>>,
    <<"SINHALA LITH DIGIT FOUR", 3562>>, <<"SINHALA LITH DIGIT FIVE", 3563>>,
    <<"SINHALA LITH DIGIT SIX", 3564>>, <<"SINHALA LITH DIGIT SEVEN", 3565>>,
    <<"SINHALA LITH DIGIT EIGHT", 3566>>, <<"SINHALA LITH DIGIT NINE", 3567>>,
    <<"SINHALA VOWEL SIGN DIGA GAETTA-PILLA", 3570>>, <<"SINHALA VOWEL SIGN DIGA GAYANUKITTA", 3571>>,
    <<"SINHALA PUNCTUATION KUNDDALIYA", 3572>>, <<"THAI CHARACTER KO KAI", 3585>>,
    <<"THAI CHARACTER KHO KHAI", 3586>>, <<"THAI CHARACTER KHO KHUAT", 3587>>,
    <<"THAI CHARACTER KHO KHWAI", 3588>>, <<"THAI CHARACTER KHO KHON", 3589>>,
    <<"THAI CHARACTER KHO RAKHANG", 3590>>, <<"THAI CHARACTER NGO NGU", 3591>>,
    <<"THAI CHARACTER CHO CHAN", 3592>>, <<"THAI CHARACTER CHO CHING", 3593>>,
    <<"THAI CHARACTER CHO CHANG", 3594>>, <<"THAI CHARACTER SO SO", 3595>>,
    <<"THAI CHARACTER CHO CHOE", 3596>>, <<"THAI CHARACTER YO YING", 3597>>,
    <<"THAI CHARACTER DO CHADA", 3598>>, <<"THAI CHARACTER TO PATAK", 3599>>,
    <<"THAI CHARACTER THO THAN", 3600>>, <<"THAI CHARACTER THO NANGMONTHO", 3601>>,
    <<"THAI CHARACTER THO PHUTHAO", 3602>>, <<"THAI CHARACTER NO NEN", 3603>>,
    <<"THAI CHARACTER DO DEK", 3604>>, <<"THAI CHARACTER TO TAO", 3605>>,
    <<"THAI CHARACTER THO THUNG", 3606>>, <<"THAI CHARACTER THO THAHAN", 3607>>,
    <<"THAI CHARACTER THO THONG", 3608>>, <<"THAI CHARACTER NO NU", 3609>>,
    <<"THAI CHARACTER BO BAIMAI", 3610>>, <<"THAI CHARACTER PO PLA", 3611>>,
    <<"THAI CHARACTER PHO PHUNG", 3612>>, <<"THAI CHARACTER FO FA", 3613>>,
    <<"THAI CHARACTER PHO PHAN", 3614>>, <<"THAI CHARACTER FO FAN", 3615>>,
    <<"THAI CHARACTER PHO SAMPHAO", 3616>>, <<"THAI CHARACTER MO MA", 3617>>,
    <<"THAI CHARACTER YO YAK", 3618>>, <<"THAI CHARACTER RO RUA", 3619>>,
    <<"THAI CHARACTER RU", 3620>>, <<"THAI CHARACTER LO LING", 3621>>, <<"THAI CHARACTER LU", 3622>>,
    <<"THAI CHARACTER WO WAEN", 3623>>, <<"THAI CHARACTER SO SALA", 3624>>,
    <<"THAI CHARACTER SO RUSI", 3625>>, <<"THAI CHARACTER SO SUA", 3626>>,
    <<"THAI CHARACTER HO HIP", 3627>>, <<"THAI CHARACTER LO CHULA", 3628>>,
    <<"THAI CHARACTER O ANG", 3629>>, <<"THAI CHARACTER HO NOKHUK", 3630>>,
    <<"THAI CHARACTER PAIYANNOI", 3631>>, <<"THAI CHARACTER SARA A", 3632>>,
    <<"THAI CHARACTER MAI HAN-AKAT", 3633>>, <<"THAI CHARACTER SARA AA", 3634>>,
    <<"THAI CHARACTER SARA AM", 3635>>, <<"THAI CHARACTER SARA I", 3636>>,
    <<"THAI CHARACTER SARA II", 3637>>, <<"THAI CHARACTER SARA UE", 3638>>,
    <<"THAI CHARACTER SARA UEE", 3639>>, <<"THAI CHARACTER SARA U", 3640>>,
    <<"THAI CHARACTER SARA UU", 3641>>, <<"THAI CHARACTER PHINTHU", 3642>>,
    <<"THAI CURRENCY SYMBOL BAHT", 3647>>, <<"THAI CHARACTER SARA E", 3648>>,
    <<"THAI CHARACTER SARA AE", 3649>>, <<"THAI CHARACTER SARA O", 3650>>,
    <<"THAI CHARACTER SARA AI MAIMUAN", 3651>>, <<"THAI CHARACTER SARA AI MAIMALAI", 3652>>,
    <<"THAI CHARACTER LAKKHANGYAO", 3653>>, <<"THAI CHARACTER MAIYAMOK", 3654>>,
    <<"THAI CHARACTER MAITAIKHU", 3655>>, <<"THAI CHARACTER MAI EK", 3656>>,
    <<"THAI CHARACTER MAI THO", 3657>>, <<"THAI CHARACTER MAI TRI", 3658>>,
    <<"THAI CHARACTER MAI CHATTAWA", 3659>>, <<"THAI CHARACTER THANTHAKHAT", 3660>>,
    <<"THAI CHARACTER NIKHAHIT", 3661>>, <<"THAI CHARACTER YAMAKKAN", 3662>>,
    <<"THAI CHARACTER FONGMAN", 3663>>, <<"THAI DIGIT ZERO", 3664>>, <<"THAI DIGIT ONE", 3665>>,
    <<"THAI DIGIT TWO", 3666>>, <<"THAI DIGIT THREE", 3667>>, <<"THAI DIGIT FOUR", 3668>>,
    <<"THAI DIGIT FIVE", 3669>>, <<"THAI DIGIT SIX", 3670>>, <<"THAI DIGIT SEVEN", 3671>>,
    <<"THAI DIGIT EIGHT", 3672>>, <<"THAI DIGIT NINE", 3673>>, <<"THAI CHARACTER ANGKHANKHU", 3674>>,
    <<"THAI CHARACTER KHOMUT", 3675>>, <<"LAO LETTER KO", 3713>>, <<"LAO LETTER KHO SUNG", 3714>>,
    <<"LAO LETTER KHO TAM", 3716>>, <<"LAO LETTER PALI GHA", 3718>>, <<"LAO LETTER NGO", 3719>>,
    <<"LAO LETTER CO", 3720>>, <<"LAO LETTER PALI CHA", 3721>>, <<"LAO LETTER SO TAM", 3722>>,
    <<"LAO LETTER PALI JHA", 3724>>, <<"LAO LETTER NYO", 3725>>, <<"LAO LETTER PALI NYA", 3726>>,
    <<"LAO LETTER PALI TTA", 3727>>, <<"LAO LETTER PALI TTHA", 3728>>, <<"LAO LETTER PALI DDA", 3729>>,
    <<"LAO LETTER PALI DDHA", 3730>>, <<"LAO LETTER PALI NNA", 3731>>, <<"LAO LETTER DO", 3732>>,
    <<"LAO LETTER TO", 3733>>, <<"LAO LETTER THO SUNG", 3734>>, <<"LAO LETTER THO TAM", 3735>>,
    <<"LAO LETTER PALI DHA", 3736>>, <<"LAO LETTER NO", 3737>>, <<"LAO LETTER BO", 3738>>,
    <<"LAO LETTER PO", 3739>>, <<"LAO LETTER PHO SUNG", 3740>>, <<"LAO LETTER FO FON", 3741>>,
    <<"LAO LETTER FO TAM", 3741>>, <<"LAO LETTER PHO TAM", 3742>>, <<"LAO LETTER FO FAY", 3743>>,
    <<"LAO LETTER FO SUNG", 3743>>, <<"LAO LETTER PALI BHA", 3744>>, <<"LAO LETTER MO", 3745>>,
    <<"LAO LETTER YO", 3746>>, <<"LAO LETTER LO LING", 3747>>, <<"LAO LETTER RO", 3747>>,
    <<"LAO LETTER LO", 3749>>, <<"LAO LETTER LO LOOT", 3749>>, <<"LAO LETTER WO", 3751>>,
    <<"LAO LETTER SANSKRIT SHA", 3752>>, <<"LAO LETTER SANSKRIT SSA", 3753>>,
    <<"LAO LETTER SO SUNG", 3754>>, <<"LAO LETTER HO SUNG", 3755>>, <<"LAO LETTER PALI LLA", 3756>>,
    <<"LAO LETTER O", 3757>>, <<"LAO LETTER HO TAM", 3758>>, <<"LAO ELLIPSIS", 3759>>,
    <<"LAO VOWEL SIGN A", 3760>>, <<"LAO VOWEL SIGN MAI KAN", 3761>>, <<"LAO VOWEL SIGN AA", 3762>>,
    <<"LAO VOWEL SIGN AM", 3763>>, <<"LAO VOWEL SIGN I", 3764>>, <<"LAO VOWEL SIGN II", 3765>>,
    <<"LAO VOWEL SIGN Y", 3766>>, <<"LAO VOWEL SIGN YY", 3767>>, <<"LAO VOWEL SIGN U", 3768>>,
    <<"LAO VOWEL SIGN UU", 3769>>, <<"LAO SIGN PALI VIRAMA", 3770>>,
    <<"LAO VOWEL SIGN MAI KON", 3771>>, <<"LAO SEMIVOWEL SIGN LO", 3772>>,
    <<"LAO SEMIVOWEL SIGN NYO", 3773>>, <<"LAO VOWEL SIGN E", 3776>>, <<"LAO VOWEL SIGN EI", 3777>>,
    <<"LAO VOWEL SIGN O", 3778>>, <<"LAO VOWEL SIGN AY", 3779>>, <<"LAO VOWEL SIGN AI", 3780>>,
    <<"LAO KO LA", 3782>>, <<"LAO TONE MAI EK", 3784>>, <<"LAO TONE MAI THO", 3785>>,
    <<"LAO TONE MAI TI", 3786>>, <<"LAO TONE MAI CATAWA", 3787>>, <<"LAO CANCELLATION MARK", 3788>>,
    <<"LAO NIGGAHITA", 3789>>, <<"LAO DIGIT ZERO", 3792>>, <<"LAO DIGIT ONE", 3793>>,
    <<"LAO DIGIT TWO", 3794>>, <<"LAO DIGIT THREE", 3795>>, <<"LAO DIGIT FOUR", 3796>>,
    <<"LAO DIGIT FIVE", 3797>>, <<"LAO DIGIT SIX", 3798>>, <<"LAO DIGIT SEVEN", 3799>>,
    <<"LAO DIGIT EIGHT", 3800>>, <<"LAO DIGIT NINE", 3801>>, <<"LAO HO NO", 3804>>,
    <<"LAO HO MO", 3805>>, <<"LAO LETTER KHMU GO", 3806>>, <<"LAO LETTER KHMU NYO", 3807>>,
    <<"TIBETAN SYLLABLE OM", 3840>>, <<"TIBETAN MARK GTER YIG MGO TRUNCATED A", 3841>>,
    <<"TIBETAN MARK GTER YIG MGO -UM RNAM BCAD MA", 3842>>,
    <<"TIBETAN MARK GTER YIG MGO -UM GTER TSHEG MA", 3843>>,
    <<"TIBETAN MARK INITIAL YIG MGO MDUN MA", 3844>>, <<"TIBETAN MARK CLOSING YIG MGO SGAB MA", 3845>>,
    <<"TIBETAN MARK CARET YIG MGO PHUR SHAD MA", 3846>>,
    <<"TIBETAN MARK YIG MGO TSHEG SHAD MA", 3847>>, <<"TIBETAN MARK SBRUL SHAD", 3848>>,
    <<"TIBETAN MARK BSKUR YIG MGO", 3849>>, <<"TIBETAN MARK BKA- SHOG YIG MGO", 3850>>,
    <<"TIBETAN MARK INTERSYLLABIC TSHEG", 3851>>, <<"TIBETAN MARK DELIMITER TSHEG BSTAR", 3852>>,
    <<"TIBETAN MARK SHAD", 3853>>, <<"TIBETAN MARK NYIS SHAD", 3854>>,
    <<"TIBETAN MARK TSHEG SHAD", 3855>>, <<"TIBETAN MARK NYIS TSHEG SHAD", 3856>>,
    <<"TIBETAN MARK RIN CHEN SPUNGS SHAD", 3857>>, <<"TIBETAN MARK RGYA GRAM SHAD", 3858>>,
    <<"TIBETAN MARK CARET -DZUD RTAGS ME LONG CAN", 3859>>, <<"TIBETAN MARK GTER TSHEG", 3860>>,
    <<"TIBETAN LOGOTYPE SIGN CHAD RTAGS", 3861>>, <<"TIBETAN LOGOTYPE SIGN LHAG RTAGS", 3862>>,
    <<"TIBETAN ASTROLOGICAL SIGN SGRA GCAN -CHAR RTAGS", 3863>>,
    <<"TIBETAN ASTROLOGICAL SIGN -KHYUD PA", 3864>>,
    <<"TIBETAN ASTROLOGICAL SIGN SDONG TSHUGS", 3865>>, <<"TIBETAN SIGN RDEL DKAR GCIG", 3866>>,
    <<"TIBETAN SIGN RDEL DKAR GNYIS", 3867>>, <<"TIBETAN SIGN RDEL DKAR GSUM", 3868>>,
    <<"TIBETAN SIGN RDEL NAG GCIG", 3869>>, <<"TIBETAN SIGN RDEL NAG GNYIS", 3870>>,
    <<"TIBETAN SIGN RDEL DKAR RDEL NAG", 3871>>, <<"TIBETAN DIGIT ZERO", 3872>>,
    <<"TIBETAN DIGIT ONE", 3873>>, <<"TIBETAN DIGIT TWO", 3874>>, <<"TIBETAN DIGIT THREE", 3875>>,
    <<"TIBETAN DIGIT FOUR", 3876>>, <<"TIBETAN DIGIT FIVE", 3877>>, <<"TIBETAN DIGIT SIX", 3878>>,
    <<"TIBETAN DIGIT SEVEN", 3879>>, <<"TIBETAN DIGIT EIGHT", 3880>>, <<"TIBETAN DIGIT NINE", 3881>>,
    <<"TIBETAN DIGIT HALF ONE", 3882>>, <<"TIBETAN DIGIT HALF TWO", 3883>>,
    <<"TIBETAN DIGIT HALF THREE", 3884>>, <<"TIBETAN DIGIT HALF FOUR", 3885>>,
    <<"TIBETAN DIGIT HALF FIVE", 3886>>, <<"TIBETAN DIGIT HALF SIX", 3887>>,
    <<"TIBETAN DIGIT HALF SEVEN", 3888>>, <<"TIBETAN DIGIT HALF EIGHT", 3889>>,
    <<"TIBETAN DIGIT HALF NINE", 3890>>, <<"TIBETAN DIGIT HALF ZERO", 3891>>,
    <<"TIBETAN MARK BSDUS RTAGS", 3892>>, <<"TIBETAN MARK NGAS BZUNG NYI ZLA", 3893>>,
    <<"TIBETAN MARK CARET -DZUD RTAGS BZHI MIG CAN", 3894>>,
    <<"TIBETAN MARK NGAS BZUNG SGOR RTAGS", 3895>>, <<"TIBETAN MARK CHE MGO", 3896>>,
    <<"TIBETAN MARK TSA -PHRU", 3897>>, <<"TIBETAN MARK GUG RTAGS GYON", 3898>>,
    <<"TIBETAN MARK GUG RTAGS GYAS", 3899>>, <<"TIBETAN MARK ANG KHANG GYON", 3900>>,
    <<"TIBETAN MARK ANG KHANG GYAS", 3901>>, <<"TIBETAN SIGN YAR TSHES", 3902>>,
    <<"TIBETAN SIGN MAR TSHES", 3903>>, <<"TIBETAN LETTER KA", 3904>>, <<"TIBETAN LETTER KHA", 3905>>,
    <<"TIBETAN LETTER GA", 3906>>, <<"TIBETAN LETTER GHA", 3907>>, <<"TIBETAN LETTER NGA", 3908>>,
    <<"TIBETAN LETTER CA", 3909>>, <<"TIBETAN LETTER CHA", 3910>>, <<"TIBETAN LETTER JA", 3911>>,
    <<"TIBETAN LETTER NYA", 3913>>, <<"TIBETAN LETTER TTA", 3914>>, <<"TIBETAN LETTER TTHA", 3915>>,
    <<"TIBETAN LETTER DDA", 3916>>, <<"TIBETAN LETTER DDHA", 3917>>, <<"TIBETAN LETTER NNA", 3918>>,
    <<"TIBETAN LETTER TA", 3919>>, <<"TIBETAN LETTER THA", 3920>>, <<"TIBETAN LETTER DA", 3921>>,
    <<"TIBETAN LETTER DHA", 3922>>, <<"TIBETAN LETTER NA", 3923>>, <<"TIBETAN LETTER PA", 3924>>,
    <<"TIBETAN LETTER PHA", 3925>>, <<"TIBETAN LETTER BA", 3926>>, <<"TIBETAN LETTER BHA", 3927>>,
    <<"TIBETAN LETTER MA", 3928>>, <<"TIBETAN LETTER TSA", 3929>>, <<"TIBETAN LETTER TSHA", 3930>>,
    <<"TIBETAN LETTER DZA", 3931>>, <<"TIBETAN LETTER DZHA", 3932>>, <<"TIBETAN LETTER WA", 3933>>,
    <<"TIBETAN LETTER ZHA", 3934>>, <<"TIBETAN LETTER ZA", 3935>>, <<"TIBETAN LETTER -A", 3936>>,
    <<"TIBETAN LETTER YA", 3937>>, <<"TIBETAN LETTER RA", 3938>>, <<"TIBETAN LETTER LA", 3939>>,
    <<"TIBETAN LETTER SHA", 3940>>, <<"TIBETAN LETTER SSA", 3941>>, <<"TIBETAN LETTER SA", 3942>>,
    <<"TIBETAN LETTER HA", 3943>>, <<"TIBETAN LETTER A", 3944>>, <<"TIBETAN LETTER KSSA", 3945>>,
    <<"TIBETAN LETTER FIXED-FORM RA", 3946>>, <<"TIBETAN LETTER KKA", 3947>>,
    <<"TIBETAN LETTER RRA", 3948>>, <<"TIBETAN VOWEL SIGN AA", 3953>>,
    <<"TIBETAN VOWEL SIGN I", 3954>>, <<"TIBETAN VOWEL SIGN II", 3955>>,
    <<"TIBETAN VOWEL SIGN U", 3956>>, <<"TIBETAN VOWEL SIGN UU", 3957>>,
    <<"TIBETAN VOWEL SIGN VOCALIC R", 3958>>, <<"TIBETAN VOWEL SIGN VOCALIC RR", 3959>>,
    <<"TIBETAN VOWEL SIGN VOCALIC L", 3960>>, <<"TIBETAN VOWEL SIGN VOCALIC LL", 3961>>,
    <<"TIBETAN VOWEL SIGN E", 3962>>, <<"TIBETAN VOWEL SIGN EE", 3963>>,
    <<"TIBETAN VOWEL SIGN O", 3964>>, <<"TIBETAN VOWEL SIGN OO", 3965>>,
    <<"TIBETAN SIGN RJES SU NGA RO", 3966>>, <<"TIBETAN SIGN RNAM BCAD", 3967>>,
    <<"TIBETAN VOWEL SIGN REVERSED I", 3968>>, <<"TIBETAN VOWEL SIGN REVERSED II", 3969>>,
    <<"TIBETAN SIGN NYI ZLA NAA DA", 3970>>, <<"TIBETAN SIGN SNA LDAN", 3971>>,
    <<"TIBETAN MARK HALANTA", 3972>>, <<"TIBETAN MARK PALUTA", 3973>>,
    <<"TIBETAN SIGN LCI RTAGS", 3974>>, <<"TIBETAN SIGN YANG RTAGS", 3975>>,
    <<"TIBETAN SIGN LCE TSA CAN", 3976>>, <<"TIBETAN SIGN MCHU CAN", 3977>>,
    <<"TIBETAN SIGN GRU CAN RGYINGS", 3978>>, <<"TIBETAN SIGN GRU MED RGYINGS", 3979>>,
    <<"TIBETAN SIGN INVERTED MCHU CAN", 3980>>, <<"TIBETAN SUBJOINED SIGN LCE TSA CAN", 3981>>,
    <<"TIBETAN SUBJOINED SIGN MCHU CAN", 3982>>, <<"TIBETAN SUBJOINED SIGN INVERTED MCHU CAN", 3983>>,
    <<"TIBETAN SUBJOINED LETTER KA", 3984>>, <<"TIBETAN SUBJOINED LETTER KHA", 3985>>,
    <<"TIBETAN SUBJOINED LETTER GA", 3986>>, <<"TIBETAN SUBJOINED LETTER GHA", 3987>>,
    <<"TIBETAN SUBJOINED LETTER NGA", 3988>>, <<"TIBETAN SUBJOINED LETTER CA", 3989>>,
    <<"TIBETAN SUBJOINED LETTER CHA", 3990>>, <<"TIBETAN SUBJOINED LETTER JA", 3991>>,
    <<"TIBETAN SUBJOINED LETTER NYA", 3993>>, <<"TIBETAN SUBJOINED LETTER TTA", 3994>>,
    <<"TIBETAN SUBJOINED LETTER TTHA", 3995>>, <<"TIBETAN SUBJOINED LETTER DDA", 3996>>,
    <<"TIBETAN SUBJOINED LETTER DDHA", 3997>>, <<"TIBETAN SUBJOINED LETTER NNA", 3998>>,
    <<"TIBETAN SUBJOINED LETTER TA", 3999>>, <<"TIBETAN SUBJOINED LETTER THA", 4000>>,
    <<"TIBETAN SUBJOINED LETTER DA", 4001>>, <<"TIBETAN SUBJOINED LETTER DHA", 4002>>,
    <<"TIBETAN SUBJOINED LETTER NA", 4003>>, <<"TIBETAN SUBJOINED LETTER PA", 4004>>,
    <<"TIBETAN SUBJOINED LETTER PHA", 4005>>, <<"TIBETAN SUBJOINED LETTER BA", 4006>>,
    <<"TIBETAN SUBJOINED LETTER BHA", 4007>>, <<"TIBETAN SUBJOINED LETTER MA", 4008>>,
    <<"TIBETAN SUBJOINED LETTER TSA", 4009>>, <<"TIBETAN SUBJOINED LETTER TSHA", 4010>>,
    <<"TIBETAN SUBJOINED LETTER DZA", 4011>>, <<"TIBETAN SUBJOINED LETTER DZHA", 4012>>,
    <<"TIBETAN SUBJOINED LETTER WA", 4013>>, <<"TIBETAN SUBJOINED LETTER ZHA", 4014>>,
    <<"TIBETAN SUBJOINED LETTER ZA", 4015>>, <<"TIBETAN SUBJOINED LETTER -A", 4016>>,
    <<"TIBETAN SUBJOINED LETTER YA", 4017>>, <<"TIBETAN SUBJOINED LETTER RA", 4018>>,
    <<"TIBETAN SUBJOINED LETTER LA", 4019>>, <<"TIBETAN SUBJOINED LETTER SHA", 4020>>,
    <<"TIBETAN SUBJOINED LETTER SSA", 4021>>, <<"TIBETAN SUBJOINED LETTER SA", 4022>>,
    <<"TIBETAN SUBJOINED LETTER HA", 4023>>, <<"TIBETAN SUBJOINED LETTER A", 4024>>,
    <<"TIBETAN SUBJOINED LETTER KSSA", 4025>>, <<"TIBETAN SUBJOINED LETTER FIXED-FORM WA", 4026>>,
    <<"TIBETAN SUBJOINED LETTER FIXED-FORM YA", 4027>>,
    <<"TIBETAN SUBJOINED LETTER FIXED-FORM RA", 4028>>, <<"TIBETAN KU RU KHA", 4030>>,
    <<"TIBETAN KU RU KHA BZHI MIG CAN", 4031>>, <<"TIBETAN CANTILLATION SIGN HEAVY BEAT", 4032>>,
    <<"TIBETAN CANTILLATION SIGN LIGHT BEAT", 4033>>, <<"TIBETAN CANTILLATION SIGN CANG TE-U", 4034>>,
    <<"TIBETAN CANTILLATION SIGN SBUB -CHAL", 4035>>, <<"TIBETAN SYMBOL DRIL BU", 4036>>,
    <<"TIBETAN SYMBOL RDO RJE", 4037>>, <<"TIBETAN SYMBOL PADMA GDAN", 4038>>,
    <<"TIBETAN SYMBOL RDO RJE RGYA GRAM", 4039>>, <<"TIBETAN SYMBOL PHUR PA", 4040>>,
    <<"TIBETAN SYMBOL NOR BU", 4041>>, <<"TIBETAN SYMBOL NOR BU NYIS -KHYIL", 4042>>,
    <<"TIBETAN SYMBOL NOR BU GSUM -KHYIL", 4043>>, <<"TIBETAN SYMBOL NOR BU BZHI -KHYIL", 4044>>,
    <<"TIBETAN SIGN RDEL NAG RDEL DKAR", 4046>>, <<"TIBETAN SIGN RDEL NAG GSUM", 4047>>,
    <<"TIBETAN MARK BKA- SHOG GI MGO RGYAN", 4048>>, <<"TIBETAN MARK BSKA- SHOG GI MGO RGYAN", 4048>>,
    <<"TIBETAN MARK MNYAM YIG GI MGO RGYAN", 4049>>, <<"TIBETAN MARK NYIS TSHEG", 4050>>,
    <<"TIBETAN MARK INITIAL BRDA RNYING YIG MGO MDUN MA", 4051>>,
    <<"TIBETAN MARK CLOSING BRDA RNYING YIG MGO SGAB MA", 4052>>, <<"RIGHT-FACING SVASTI SIGN", 4053>>,
    <<"LEFT-FACING SVASTI SIGN", 4054>>, <<"RIGHT-FACING SVASTI SIGN WITH DOTS", 4055>>,
    <<"LEFT-FACING SVASTI SIGN WITH DOTS", 4056>>, <<"TIBETAN MARK LEADING MCHAN RTAGS", 4057>>,
    <<"TIBETAN MARK TRAILING MCHAN RTAGS", 4058>>, <<"MYANMAR LETTER KA", 4096>>,
    <<"MYANMAR LETTER KHA", 4097>>, <<"MYANMAR LETTER GA", 4098>>, <<"MYANMAR LETTER GHA", 4099>>,
    <<"MYANMAR LETTER NGA", 4100>>, <<"MYANMAR LETTER CA", 4101>>, <<"MYANMAR LETTER CHA", 4102>>,
    <<"MYANMAR LETTER JA", 4103>>, <<"MYANMAR LETTER JHA", 4104>>, <<"MYANMAR LETTER NYA", 4105>>,
    <<"MYANMAR LETTER NNYA", 4106>>, <<"MYANMAR LETTER TTA", 4107>>, <<"MYANMAR LETTER TTHA", 4108>>,
    <<"MYANMAR LETTER DDA", 4109>>, <<"MYANMAR LETTER DDHA", 4110>>, <<"MYANMAR LETTER NNA", 4111>>,
    <<"MYANMAR LETTER TA", 4112>>, <<"MYANMAR LETTER THA", 4113>>, <<"MYANMAR LETTER DA", 4114>>,
    <<"MYANMAR LETTER DHA", 4115>>, <<"MYANMAR LETTER NA", 4116>>, <<"MYANMAR LETTER PA", 4117>>,
    <<"MYANMAR LETTER PHA", 4118>>, <<"MYANMAR LETTER BA", 4119>>, <<"MYANMAR LETTER BHA", 4120>>,
    <<"MYANMAR LETTER MA", 4121>>, <<"MYANMAR LETTER YA", 4122>>, <<"MYANMAR LETTER RA", 4123>>,
    <<"MYANMAR LETTER LA", 4124>>, <<"MYANMAR LETTER WA", 4125>>, <<"MYANMAR LETTER SA", 4126>>,
    <<"MYANMAR LETTER HA", 4127>>, <<"MYANMAR LETTER LLA", 4128>>, <<"MYANMAR LETTER A", 4129>>,
    <<"MYANMAR LETTER SHAN A", 4130>>, <<"MYANMAR LETTER I", 4131>>, <<"MYANMAR LETTER II", 4132>>,
    <<"MYANMAR LETTER U", 4133>>, <<"MYANMAR LETTER UU", 4134>>, <<"MYANMAR LETTER E", 4135>>,
    <<"MYANMAR LETTER MON E", 4136>>, <<"MYANMAR LETTER O", 4137>>, <<"MYANMAR LETTER AU", 4138>>,
    <<"MYANMAR VOWEL SIGN TALL AA", 4139>>, <<"MYANMAR VOWEL SIGN AA", 4140>>,
    <<"MYANMAR VOWEL SIGN I", 4141>>, <<"MYANMAR VOWEL SIGN II", 4142>>,
    <<"MYANMAR VOWEL SIGN U", 4143>>, <<"MYANMAR VOWEL SIGN UU", 4144>>,
    <<"MYANMAR VOWEL SIGN E", 4145>>, <<"MYANMAR VOWEL SIGN AI", 4146>>,
    <<"MYANMAR VOWEL SIGN MON II", 4147>>, <<"MYANMAR VOWEL SIGN MON O", 4148>>,
    <<"MYANMAR VOWEL SIGN E ABOVE", 4149>>, <<"MYANMAR SIGN ANUSVARA", 4150>>,
    <<"MYANMAR SIGN DOT BELOW", 4151>>, <<"MYANMAR SIGN VISARGA", 4152>>,
    <<"MYANMAR SIGN VIRAMA", 4153>>, <<"MYANMAR SIGN ASAT", 4154>>,
    <<"MYANMAR CONSONANT SIGN MEDIAL YA", 4155>>, <<"MYANMAR CONSONANT SIGN MEDIAL RA", 4156>>,
    <<"MYANMAR CONSONANT SIGN MEDIAL WA", 4157>>, <<"MYANMAR CONSONANT SIGN MEDIAL HA", 4158>>,
    <<"MYANMAR LETTER GREAT SA", 4159>>, <<"MYANMAR DIGIT ZERO", 4160>>, <<"MYANMAR DIGIT ONE", 4161>>,
    <<"MYANMAR DIGIT TWO", 4162>>, <<"MYANMAR DIGIT THREE", 4163>>, <<"MYANMAR DIGIT FOUR", 4164>>,
    <<"MYANMAR DIGIT FIVE", 4165>>, <<"MYANMAR DIGIT SIX", 4166>>, <<"MYANMAR DIGIT SEVEN", 4167>>,
    <<"MYANMAR DIGIT EIGHT", 4168>>, <<"MYANMAR DIGIT NINE", 4169>>,
    <<"MYANMAR SIGN LITTLE SECTION", 4170>>, <<"MYANMAR SIGN SECTION", 4171>>,
    <<"MYANMAR SYMBOL LOCATIVE", 4172>>, <<"MYANMAR SYMBOL COMPLETED", 4173>>,
    <<"MYANMAR SYMBOL AFOREMENTIONED", 4174>>, <<"MYANMAR SYMBOL GENITIVE", 4175>>,
    <<"MYANMAR LETTER SHA", 4176>>, <<"MYANMAR LETTER SSA", 4177>>,
    <<"MYANMAR LETTER VOCALIC R", 4178>>, <<"MYANMAR LETTER VOCALIC RR", 4179>>,
    <<"MYANMAR LETTER VOCALIC L", 4180>>, <<"MYANMAR LETTER VOCALIC LL", 4181>>,
    <<"MYANMAR VOWEL SIGN VOCALIC R", 4182>>, <<"MYANMAR VOWEL SIGN VOCALIC RR", 4183>>,
    <<"MYANMAR VOWEL SIGN VOCALIC L", 4184>>, <<"MYANMAR VOWEL SIGN VOCALIC LL", 4185>>,
    <<"MYANMAR LETTER MON NGA", 4186>>, <<"MYANMAR LETTER MON JHA", 4187>>,
    <<"MYANMAR LETTER MON BBA", 4188>>, <<"MYANMAR LETTER MON BBE", 4189>>,
    <<"MYANMAR CONSONANT SIGN MON MEDIAL NA", 4190>>, <<"MYANMAR CONSONANT SIGN MON MEDIAL MA", 4191>>,
    <<"MYANMAR CONSONANT SIGN MON MEDIAL LA", 4192>>, <<"MYANMAR LETTER SGAW KAREN SHA", 4193>>,
    <<"MYANMAR VOWEL SIGN SGAW KAREN EU", 4194>>, <<"MYANMAR TONE MARK SGAW KAREN HATHI", 4195>>,
    <<"MYANMAR TONE MARK SGAW KAREN KE PHO", 4196>>, <<"MYANMAR LETTER WESTERN PWO KAREN THA", 4197>>,
    <<"MYANMAR LETTER WESTERN PWO KAREN PWA", 4198>>,
    <<"MYANMAR VOWEL SIGN WESTERN PWO KAREN EU", 4199>>,
    <<"MYANMAR VOWEL SIGN WESTERN PWO KAREN UE", 4200>>,
    <<"MYANMAR SIGN WESTERN PWO KAREN TONE-1", 4201>>,
    <<"MYANMAR SIGN WESTERN PWO KAREN TONE-2", 4202>>,
    <<"MYANMAR SIGN WESTERN PWO KAREN TONE-3", 4203>>,
    <<"MYANMAR SIGN WESTERN PWO KAREN TONE-4", 4204>>,
    <<"MYANMAR SIGN WESTERN PWO KAREN TONE-5", 4205>>,
    <<"MYANMAR LETTER EASTERN PWO KAREN NNA", 4206>>, <<"MYANMAR LETTER EASTERN PWO KAREN YWA", 4207>>,
    <<"MYANMAR LETTER EASTERN PWO KAREN GHWA", 4208>>, <<"MYANMAR VOWEL SIGN GEBA KAREN I", 4209>>,
    <<"MYANMAR VOWEL SIGN KAYAH OE", 4210>>, <<"MYANMAR VOWEL SIGN KAYAH U", 4211>>,
    <<"MYANMAR VOWEL SIGN KAYAH EE", 4212>>, <<"MYANMAR LETTER SHAN KA", 4213>>,
    <<"MYANMAR LETTER SHAN KHA", 4214>>, <<"MYANMAR LETTER SHAN GA", 4215>>,
    <<"MYANMAR LETTER SHAN CA", 4216>>, <<"MYANMAR LETTER SHAN ZA", 4217>>,
    <<"MYANMAR LETTER SHAN NYA", 4218>>, <<"MYANMAR LETTER SHAN DA", 4219>>,
    <<"MYANMAR LETTER SHAN NA", 4220>>, <<"MYANMAR LETTER SHAN PHA", 4221>>,
    <<"MYANMAR LETTER SHAN FA", 4222>>, <<"MYANMAR LETTER SHAN BA", 4223>>,
    <<"MYANMAR LETTER SHAN THA", 4224>>, <<"MYANMAR LETTER SHAN HA", 4225>>,
    <<"MYANMAR CONSONANT SIGN SHAN MEDIAL WA", 4226>>, <<"MYANMAR VOWEL SIGN SHAN AA", 4227>>,
    <<"MYANMAR VOWEL SIGN SHAN E", 4228>>, <<"MYANMAR VOWEL SIGN SHAN E ABOVE", 4229>>,
    <<"MYANMAR VOWEL SIGN SHAN FINAL Y", 4230>>, <<"MYANMAR SIGN SHAN TONE-2", 4231>>,
    <<"MYANMAR SIGN SHAN TONE-3", 4232>>, <<"MYANMAR SIGN SHAN TONE-5", 4233>>,
    <<"MYANMAR SIGN SHAN TONE-6", 4234>>, <<"MYANMAR SIGN SHAN COUNCIL TONE-2", 4235>>,
    <<"MYANMAR SIGN SHAN COUNCIL TONE-3", 4236>>, <<"MYANMAR SIGN SHAN COUNCIL EMPHATIC TONE", 4237>>,
    <<"MYANMAR LETTER RUMAI PALAUNG FA", 4238>>, <<"MYANMAR SIGN RUMAI PALAUNG TONE-5", 4239>>,
    <<"MYANMAR SHAN DIGIT ZERO", 4240>>, <<"MYANMAR SHAN DIGIT ONE", 4241>>,
    <<"MYANMAR SHAN DIGIT TWO", 4242>>, <<"MYANMAR SHAN DIGIT THREE", 4243>>,
    <<"MYANMAR SHAN DIGIT FOUR", 4244>>, <<"MYANMAR SHAN DIGIT FIVE", 4245>>,
    <<"MYANMAR SHAN DIGIT SIX", 4246>>, <<"MYANMAR SHAN DIGIT SEVEN", 4247>>,
    <<"MYANMAR SHAN DIGIT EIGHT", 4248>>, <<"MYANMAR SHAN DIGIT NINE", 4249>>,
    <<"MYANMAR SIGN KHAMTI TONE-1", 4250>>, <<"MYANMAR SIGN KHAMTI TONE-3", 4251>>,
    <<"MYANMAR VOWEL SIGN AITON A", 4252>>, <<"MYANMAR VOWEL SIGN AITON AI", 4253>>,
    <<"MYANMAR SYMBOL SHAN ONE", 4254>>, <<"MYANMAR SYMBOL SHAN EXCLAMATION", 4255>>,
    <<"GEORGIAN CAPITAL LETTER AN", 4256>>, <<"GEORGIAN CAPITAL LETTER BAN", 4257>>,
    <<"GEORGIAN CAPITAL LETTER GAN", 4258>>, <<"GEORGIAN CAPITAL LETTER DON", 4259>>,
    <<"GEORGIAN CAPITAL LETTER EN", 4260>>, <<"GEORGIAN CAPITAL LETTER VIN", 4261>>,
    <<"GEORGIAN CAPITAL LETTER ZEN", 4262>>, <<"GEORGIAN CAPITAL LETTER TAN", 4263>>,
    <<"GEORGIAN CAPITAL LETTER IN", 4264>>, <<"GEORGIAN CAPITAL LETTER KAN", 4265>>,
    <<"GEORGIAN CAPITAL LETTER LAS", 4266>>, <<"GEORGIAN CAPITAL LETTER MAN", 4267>>,
    <<"GEORGIAN CAPITAL LETTER NAR", 4268>>, <<"GEORGIAN CAPITAL LETTER ON", 4269>>,
    <<"GEORGIAN CAPITAL LETTER PAR", 4270>>, <<"GEORGIAN CAPITAL LETTER ZHAR", 4271>>,
    <<"GEORGIAN CAPITAL LETTER RAE", 4272>>, <<"GEORGIAN CAPITAL LETTER SAN", 4273>>,
    <<"GEORGIAN CAPITAL LETTER TAR", 4274>>, <<"GEORGIAN CAPITAL LETTER UN", 4275>>,
    <<"GEORGIAN CAPITAL LETTER PHAR", 4276>>, <<"GEORGIAN CAPITAL LETTER KHAR", 4277>>,
    <<"GEORGIAN CAPITAL LETTER GHAN", 4278>>, <<"GEORGIAN CAPITAL LETTER QAR", 4279>>,
    <<"GEORGIAN CAPITAL LETTER SHIN", 4280>>, <<"GEORGIAN CAPITAL LETTER CHIN", 4281>>,
    <<"GEORGIAN CAPITAL LETTER CAN", 4282>>, <<"GEORGIAN CAPITAL LETTER JIL", 4283>>,
    <<"GEORGIAN CAPITAL LETTER CIL", 4284>>, <<"GEORGIAN CAPITAL LETTER CHAR", 4285>>,
    <<"GEORGIAN CAPITAL LETTER XAN", 4286>>, <<"GEORGIAN CAPITAL LETTER JHAN", 4287>>,
    <<"GEORGIAN CAPITAL LETTER HAE", 4288>>, <<"GEORGIAN CAPITAL LETTER HE", 4289>>,
    <<"GEORGIAN CAPITAL LETTER HIE", 4290>>, <<"GEORGIAN CAPITAL LETTER WE", 4291>>,
    <<"GEORGIAN CAPITAL LETTER HAR", 4292>>, <<"GEORGIAN CAPITAL LETTER HOE", 4293>>,
    <<"GEORGIAN CAPITAL LETTER YN", 4295>>, <<"GEORGIAN CAPITAL LETTER AEN", 4301>>,
    <<"GEORGIAN LETTER AN", 4304>>, <<"GEORGIAN LETTER BAN", 4305>>, <<"GEORGIAN LETTER GAN", 4306>>,
    <<"GEORGIAN LETTER DON", 4307>>, <<"GEORGIAN LETTER EN", 4308>>, <<"GEORGIAN LETTER VIN", 4309>>,
    <<"GEORGIAN LETTER ZEN", 4310>>, <<"GEORGIAN LETTER TAN", 4311>>, <<"GEORGIAN LETTER IN", 4312>>,
    <<"GEORGIAN LETTER KAN", 4313>>, <<"GEORGIAN LETTER LAS", 4314>>, <<"GEORGIAN LETTER MAN", 4315>>,
    <<"GEORGIAN LETTER NAR", 4316>>, <<"GEORGIAN LETTER ON", 4317>>, <<"GEORGIAN LETTER PAR", 4318>>,
    <<"GEORGIAN LETTER ZHAR", 4319>>, <<"GEORGIAN LETTER RAE", 4320>>, <<"GEORGIAN LETTER SAN", 4321>>,
    <<"GEORGIAN LETTER TAR", 4322>>, <<"GEORGIAN LETTER UN", 4323>>, <<"GEORGIAN LETTER PHAR", 4324>>,
    <<"GEORGIAN LETTER KHAR", 4325>>, <<"GEORGIAN LETTER GHAN", 4326>>,
    <<"GEORGIAN LETTER QAR", 4327>>, <<"GEORGIAN LETTER SHIN", 4328>>,
    <<"GEORGIAN LETTER CHIN", 4329>>, <<"GEORGIAN LETTER CAN", 4330>>, <<"GEORGIAN LETTER JIL", 4331>>,
    <<"GEORGIAN LETTER CIL", 4332>>, <<"GEORGIAN LETTER CHAR", 4333>>, <<"GEORGIAN LETTER XAN", 4334>>,
    <<"GEORGIAN LETTER JHAN", 4335>>, <<"GEORGIAN LETTER HAE", 4336>>, <<"GEORGIAN LETTER HE", 4337>>,
    <<"GEORGIAN LETTER HIE", 4338>>, <<"GEORGIAN LETTER WE", 4339>>, <<"GEORGIAN LETTER HAR", 4340>>,
    <<"GEORGIAN LETTER HOE", 4341>>, <<"GEORGIAN LETTER FI", 4342>>, <<"GEORGIAN LETTER YN", 4343>>,
    <<"GEORGIAN LETTER ELIFI", 4344>>, <<"GEORGIAN LETTER TURNED GAN", 4345>>,
    <<"GEORGIAN LETTER AIN", 4346>>, <<"GEORGIAN PARAGRAPH SEPARATOR", 4347>>,
    <<"MODIFIER LETTER GEORGIAN NAR", 4348>>, <<"GEORGIAN LETTER AEN", 4349>>,
    <<"GEORGIAN LETTER HARD SIGN", 4350>>, <<"GEORGIAN LETTER LABIAL SIGN", 4351>>,
    <<"HANGUL CHOSEONG KIYEOK", 4352>>, <<"HANGUL CHOSEONG SSANGKIYEOK", 4353>>,
    <<"HANGUL CHOSEONG NIEUN", 4354>>, <<"HANGUL CHOSEONG TIKEUT", 4355>>,
    <<"HANGUL CHOSEONG SSANGTIKEUT", 4356>>, <<"HANGUL CHOSEONG RIEUL", 4357>>,
    <<"HANGUL CHOSEONG MIEUM", 4358>>, <<"HANGUL CHOSEONG PIEUP", 4359>>,
    <<"HANGUL CHOSEONG SSANGPIEUP", 4360>>, <<"HANGUL CHOSEONG SIOS", 4361>>,
    <<"HANGUL CHOSEONG SSANGSIOS", 4362>>, <<"HANGUL CHOSEONG IEUNG", 4363>>,
    <<"HANGUL CHOSEONG CIEUC", 4364>>, <<"HANGUL CHOSEONG SSANGCIEUC", 4365>>,
    <<"HANGUL CHOSEONG CHIEUCH", 4366>>, <<"HANGUL CHOSEONG KHIEUKH", 4367>>,
    <<"HANGUL CHOSEONG THIEUTH", 4368>>, <<"HANGUL CHOSEONG PHIEUPH", 4369>>,
    <<"HANGUL CHOSEONG HIEUH", 4370>>, <<"HANGUL CHOSEONG NIEUN-KIYEOK", 4371>>,
    <<"HANGUL CHOSEONG SSANGNIEUN", 4372>>, <<"HANGUL CHOSEONG NIEUN-TIKEUT", 4373>>,
    <<"HANGUL CHOSEONG NIEUN-PIEUP", 4374>>, <<"HANGUL CHOSEONG TIKEUT-KIYEOK", 4375>>,
    <<"HANGUL CHOSEONG RIEUL-NIEUN", 4376>>, <<"HANGUL CHOSEONG SSANGRIEUL", 4377>>,
    <<"HANGUL CHOSEONG RIEUL-HIEUH", 4378>>, <<"HANGUL CHOSEONG KAPYEOUNRIEUL", 4379>>,
    <<"HANGUL CHOSEONG MIEUM-PIEUP", 4380>>, <<"HANGUL CHOSEONG KAPYEOUNMIEUM", 4381>>,
    <<"HANGUL CHOSEONG PIEUP-KIYEOK", 4382>>, <<"HANGUL CHOSEONG PIEUP-NIEUN", 4383>>,
    <<"HANGUL CHOSEONG PIEUP-TIKEUT", 4384>>, <<"HANGUL CHOSEONG PIEUP-SIOS", 4385>>,
    <<"HANGUL CHOSEONG PIEUP-SIOS-KIYEOK", 4386>>, <<"HANGUL CHOSEONG PIEUP-SIOS-TIKEUT", 4387>>,
    <<"HANGUL CHOSEONG PIEUP-SIOS-PIEUP", 4388>>, <<"HANGUL CHOSEONG PIEUP-SSANGSIOS", 4389>>,
    <<"HANGUL CHOSEONG PIEUP-SIOS-CIEUC", 4390>>, <<"HANGUL CHOSEONG PIEUP-CIEUC", 4391>>,
    <<"HANGUL CHOSEONG PIEUP-CHIEUCH", 4392>>, <<"HANGUL CHOSEONG PIEUP-THIEUTH", 4393>>,
    <<"HANGUL CHOSEONG PIEUP-PHIEUPH", 4394>>, <<"HANGUL CHOSEONG KAPYEOUNPIEUP", 4395>>,
    <<"HANGUL CHOSEONG KAPYEOUNSSANGPIEUP", 4396>>, <<"HANGUL CHOSEONG SIOS-KIYEOK", 4397>>,
    <<"HANGUL CHOSEONG SIOS-NIEUN", 4398>>, <<"HANGUL CHOSEONG SIOS-TIKEUT", 4399>>,
    <<"HANGUL CHOSEONG SIOS-RIEUL", 4400>>, <<"HANGUL CHOSEONG SIOS-MIEUM", 4401>>,
    <<"HANGUL CHOSEONG SIOS-PIEUP", 4402>>, <<"HANGUL CHOSEONG SIOS-PIEUP-KIYEOK", 4403>>,
    <<"HANGUL CHOSEONG SIOS-SSANGSIOS", 4404>>, <<"HANGUL CHOSEONG SIOS-IEUNG", 4405>>,
    <<"HANGUL CHOSEONG SIOS-CIEUC", 4406>>, <<"HANGUL CHOSEONG SIOS-CHIEUCH", 4407>>,
    <<"HANGUL CHOSEONG SIOS-KHIEUKH", 4408>>, <<"HANGUL CHOSEONG SIOS-THIEUTH", 4409>>,
    <<"HANGUL CHOSEONG SIOS-PHIEUPH", 4410>>, <<"HANGUL CHOSEONG SIOS-HIEUH", 4411>>,
    <<"HANGUL CHOSEONG CHITUEUMSIOS", 4412>>, <<"HANGUL CHOSEONG CHITUEUMSSANGSIOS", 4413>>,
    <<"HANGUL CHOSEONG CEONGCHIEUMSIOS", 4414>>, <<"HANGUL CHOSEONG CEONGCHIEUMSSANGSIOS", 4415>>,
    <<"HANGUL CHOSEONG PANSIOS", 4416>>, <<"HANGUL CHOSEONG IEUNG-KIYEOK", 4417>>,
    <<"HANGUL CHOSEONG IEUNG-TIKEUT", 4418>>, <<"HANGUL CHOSEONG IEUNG-MIEUM", 4419>>,
    <<"HANGUL CHOSEONG IEUNG-PIEUP", 4420>>, <<"HANGUL CHOSEONG IEUNG-SIOS", 4421>>,
    <<"HANGUL CHOSEONG IEUNG-PANSIOS", 4422>>, <<"HANGUL CHOSEONG SSANGIEUNG", 4423>>,
    <<"HANGUL CHOSEONG IEUNG-CIEUC", 4424>>, <<"HANGUL CHOSEONG IEUNG-CHIEUCH", 4425>>,
    <<"HANGUL CHOSEONG IEUNG-THIEUTH", 4426>>, <<"HANGUL CHOSEONG IEUNG-PHIEUPH", 4427>>,
    <<"HANGUL CHOSEONG YESIEUNG", 4428>>, <<"HANGUL CHOSEONG CIEUC-IEUNG", 4429>>,
    <<"HANGUL CHOSEONG CHITUEUMCIEUC", 4430>>, <<"HANGUL CHOSEONG CHITUEUMSSANGCIEUC", 4431>>,
    <<"HANGUL CHOSEONG CEONGCHIEUMCIEUC", 4432>>, <<"HANGUL CHOSEONG CEONGCHIEUMSSANGCIEUC", 4433>>,
    <<"HANGUL CHOSEONG CHIEUCH-KHIEUKH", 4434>>, <<"HANGUL CHOSEONG CHIEUCH-HIEUH", 4435>>,
    <<"HANGUL CHOSEONG CHITUEUMCHIEUCH", 4436>>, <<"HANGUL CHOSEONG CEONGCHIEUMCHIEUCH", 4437>>,
    <<"HANGUL CHOSEONG PHIEUPH-PIEUP", 4438>>, <<"HANGUL CHOSEONG KAPYEOUNPHIEUPH", 4439>>,
    <<"HANGUL CHOSEONG SSANGHIEUH", 4440>>, <<"HANGUL CHOSEONG YEORINHIEUH", 4441>>,
    <<"HANGUL CHOSEONG KIYEOK-TIKEUT", 4442>>, <<"HANGUL CHOSEONG NIEUN-SIOS", 4443>>,
    <<"HANGUL CHOSEONG NIEUN-CIEUC", 4444>>, <<"HANGUL CHOSEONG NIEUN-HIEUH", 4445>>,
    <<"HANGUL CHOSEONG TIKEUT-RIEUL", 4446>>, <<"HANGUL CHOSEONG FILLER", 4447>>,
    <<"HANGUL JUNGSEONG FILLER", 4448>>, <<"HANGUL JUNGSEONG A", 4449>>,
    <<"HANGUL JUNGSEONG AE", 4450>>, <<"HANGUL JUNGSEONG YA", 4451>>, <<"HANGUL JUNGSEONG YAE", 4452>>,
    <<"HANGUL JUNGSEONG EO", 4453>>, <<"HANGUL JUNGSEONG E", 4454>>, <<"HANGUL JUNGSEONG YEO", 4455>>,
    <<"HANGUL JUNGSEONG YE", 4456>>, <<"HANGUL JUNGSEONG O", 4457>>, <<"HANGUL JUNGSEONG WA", 4458>>,
    <<"HANGUL JUNGSEONG WAE", 4459>>, <<"HANGUL JUNGSEONG OE", 4460>>, <<"HANGUL JUNGSEONG YO", 4461>>,
    <<"HANGUL JUNGSEONG U", 4462>>, <<"HANGUL JUNGSEONG WEO", 4463>>, <<"HANGUL JUNGSEONG WE", 4464>>,
    <<"HANGUL JUNGSEONG WI", 4465>>, <<"HANGUL JUNGSEONG YU", 4466>>, <<"HANGUL JUNGSEONG EU", 4467>>,
    <<"HANGUL JUNGSEONG YI", 4468>>, <<"HANGUL JUNGSEONG I", 4469>>, <<"HANGUL JUNGSEONG A-O", 4470>>,
    <<"HANGUL JUNGSEONG A-U", 4471>>, <<"HANGUL JUNGSEONG YA-O", 4472>>,
    <<"HANGUL JUNGSEONG YA-YO", 4473>>, <<"HANGUL JUNGSEONG EO-O", 4474>>,
    <<"HANGUL JUNGSEONG EO-U", 4475>>, <<"HANGUL JUNGSEONG EO-EU", 4476>>,
    <<"HANGUL JUNGSEONG YEO-O", 4477>>, <<"HANGUL JUNGSEONG YEO-U", 4478>>,
    <<"HANGUL JUNGSEONG O-EO", 4479>>, <<"HANGUL JUNGSEONG O-E", 4480>>,
    <<"HANGUL JUNGSEONG O-YE", 4481>>, <<"HANGUL JUNGSEONG O-O", 4482>>,
    <<"HANGUL JUNGSEONG O-U", 4483>>, <<"HANGUL JUNGSEONG YO-YA", 4484>>,
    <<"HANGUL JUNGSEONG YO-YAE", 4485>>, <<"HANGUL JUNGSEONG YO-YEO", 4486>>,
    <<"HANGUL JUNGSEONG YO-O", 4487>>, <<"HANGUL JUNGSEONG YO-I", 4488>>,
    <<"HANGUL JUNGSEONG U-A", 4489>>, <<"HANGUL JUNGSEONG U-AE", 4490>>,
    <<"HANGUL JUNGSEONG U-EO-EU", 4491>>, <<"HANGUL JUNGSEONG U-YE", 4492>>,
    <<"HANGUL JUNGSEONG U-U", 4493>>, <<"HANGUL JUNGSEONG YU-A", 4494>>,
    <<"HANGUL JUNGSEONG YU-EO", 4495>>, <<"HANGUL JUNGSEONG YU-E", 4496>>,
    <<"HANGUL JUNGSEONG YU-YEO", 4497>>, <<"HANGUL JUNGSEONG YU-YE", 4498>>,
    <<"HANGUL JUNGSEONG YU-U", 4499>>, <<"HANGUL JUNGSEONG YU-I", 4500>>,
    <<"HANGUL JUNGSEONG EU-U", 4501>>, <<"HANGUL JUNGSEONG EU-EU", 4502>>,
    <<"HANGUL JUNGSEONG YI-U", 4503>>, <<"HANGUL JUNGSEONG I-A", 4504>>,
    <<"HANGUL JUNGSEONG I-YA", 4505>>, <<"HANGUL JUNGSEONG I-O", 4506>>,
    <<"HANGUL JUNGSEONG I-U", 4507>>, <<"HANGUL JUNGSEONG I-EU", 4508>>,
    <<"HANGUL JUNGSEONG I-ARAEA", 4509>>, <<"HANGUL JUNGSEONG ARAEA", 4510>>,
    <<"HANGUL JUNGSEONG ARAEA-EO", 4511>>, <<"HANGUL JUNGSEONG ARAEA-U", 4512>>,
    <<"HANGUL JUNGSEONG ARAEA-I", 4513>>, <<"HANGUL JUNGSEONG SSANGARAEA", 4514>>,
    <<"HANGUL JUNGSEONG A-EU", 4515>>, <<"HANGUL JUNGSEONG YA-U", 4516>>,
    <<"HANGUL JUNGSEONG YEO-YA", 4517>>, <<"HANGUL JUNGSEONG O-YA", 4518>>,
    <<"HANGUL JUNGSEONG O-YAE", 4519>>, <<"HANGUL JONGSEONG KIYEOK", 4520>>,
    <<"HANGUL JONGSEONG SSANGKIYEOK", 4521>>, <<"HANGUL JONGSEONG KIYEOK-SIOS", 4522>>,
    <<"HANGUL JONGSEONG NIEUN", 4523>>, <<"HANGUL JONGSEONG NIEUN-CIEUC", 4524>>,
    <<"HANGUL JONGSEONG NIEUN-HIEUH", 4525>>, <<"HANGUL JONGSEONG TIKEUT", 4526>>,
    <<"HANGUL JONGSEONG RIEUL", 4527>>, <<"HANGUL JONGSEONG RIEUL-KIYEOK", 4528>>,
    <<"HANGUL JONGSEONG RIEUL-MIEUM", 4529>>, <<"HANGUL JONGSEONG RIEUL-PIEUP", 4530>>,
    <<"HANGUL JONGSEONG RIEUL-SIOS", 4531>>, <<"HANGUL JONGSEONG RIEUL-THIEUTH", 4532>>,
    <<"HANGUL JONGSEONG RIEUL-PHIEUPH", 4533>>, <<"HANGUL JONGSEONG RIEUL-HIEUH", 4534>>,
    <<"HANGUL JONGSEONG MIEUM", 4535>>, <<"HANGUL JONGSEONG PIEUP", 4536>>,
    <<"HANGUL JONGSEONG PIEUP-SIOS", 4537>>, <<"HANGUL JONGSEONG SIOS", 4538>>,
    <<"HANGUL JONGSEONG SSANGSIOS", 4539>>, <<"HANGUL JONGSEONG IEUNG", 4540>>,
    <<"HANGUL JONGSEONG CIEUC", 4541>>, <<"HANGUL JONGSEONG CHIEUCH", 4542>>,
    <<"HANGUL JONGSEONG KHIEUKH", 4543>>, <<"HANGUL JONGSEONG THIEUTH", 4544>>,
    <<"HANGUL JONGSEONG PHIEUPH", 4545>>, <<"HANGUL JONGSEONG HIEUH", 4546>>,
    <<"HANGUL JONGSEONG KIYEOK-RIEUL", 4547>>, <<"HANGUL JONGSEONG KIYEOK-SIOS-KIYEOK", 4548>>,
    <<"HANGUL JONGSEONG NIEUN-KIYEOK", 4549>>, <<"HANGUL JONGSEONG NIEUN-TIKEUT", 4550>>,
    <<"HANGUL JONGSEONG NIEUN-SIOS", 4551>>, <<"HANGUL JONGSEONG NIEUN-PANSIOS", 4552>>,
    <<"HANGUL JONGSEONG NIEUN-THIEUTH", 4553>>, <<"HANGUL JONGSEONG TIKEUT-KIYEOK", 4554>>,
    <<"HANGUL JONGSEONG TIKEUT-RIEUL", 4555>>, <<"HANGUL JONGSEONG RIEUL-KIYEOK-SIOS", 4556>>,
    <<"HANGUL JONGSEONG RIEUL-NIEUN", 4557>>, <<"HANGUL JONGSEONG RIEUL-TIKEUT", 4558>>,
    <<"HANGUL JONGSEONG RIEUL-TIKEUT-HIEUH", 4559>>, <<"HANGUL JONGSEONG SSANGRIEUL", 4560>>,
    <<"HANGUL JONGSEONG RIEUL-MIEUM-KIYEOK", 4561>>, <<"HANGUL JONGSEONG RIEUL-MIEUM-SIOS", 4562>>,
    <<"HANGUL JONGSEONG RIEUL-PIEUP-SIOS", 4563>>, <<"HANGUL JONGSEONG RIEUL-PIEUP-HIEUH", 4564>>,
    <<"HANGUL JONGSEONG RIEUL-KAPYEOUNPIEUP", 4565>>, <<"HANGUL JONGSEONG RIEUL-SSANGSIOS", 4566>>,
    <<"HANGUL JONGSEONG RIEUL-PANSIOS", 4567>>, <<"HANGUL JONGSEONG RIEUL-KHIEUKH", 4568>>,
    <<"HANGUL JONGSEONG RIEUL-YEORINHIEUH", 4569>>, <<"HANGUL JONGSEONG MIEUM-KIYEOK", 4570>>,
    <<"HANGUL JONGSEONG MIEUM-RIEUL", 4571>>, <<"HANGUL JONGSEONG MIEUM-PIEUP", 4572>>,
    <<"HANGUL JONGSEONG MIEUM-SIOS", 4573>>, <<"HANGUL JONGSEONG MIEUM-SSANGSIOS", 4574>>,
    <<"HANGUL JONGSEONG MIEUM-PANSIOS", 4575>>, <<"HANGUL JONGSEONG MIEUM-CHIEUCH", 4576>>,
    <<"HANGUL JONGSEONG MIEUM-HIEUH", 4577>>, <<"HANGUL JONGSEONG KAPYEOUNMIEUM", 4578>>,
    <<"HANGUL JONGSEONG PIEUP-RIEUL", 4579>>, <<"HANGUL JONGSEONG PIEUP-PHIEUPH", 4580>>,
    <<"HANGUL JONGSEONG PIEUP-HIEUH", 4581>>, <<"HANGUL JONGSEONG KAPYEOUNPIEUP", 4582>>,
    <<"HANGUL JONGSEONG SIOS-KIYEOK", 4583>>, <<"HANGUL JONGSEONG SIOS-TIKEUT", 4584>>,
    <<"HANGUL JONGSEONG SIOS-RIEUL", 4585>>, <<"HANGUL JONGSEONG SIOS-PIEUP", 4586>>,
    <<"HANGUL JONGSEONG PANSIOS", 4587>>, <<"HANGUL JONGSEONG IEUNG-KIYEOK", 4588>>,
    <<"HANGUL JONGSEONG YESIEUNG-KIYEOK", 4588>>, <<"HANGUL JONGSEONG IEUNG-SSANGKIYEOK", 4589>>,
    <<"HANGUL JONGSEONG YESIEUNG-SSANGKIYEOK", 4589>>, <<"HANGUL JONGSEONG SSANGIEUNG", 4590>>,
    <<"HANGUL JONGSEONG SSANGYESIEUNG", 4590>>, <<"HANGUL JONGSEONG IEUNG-KHIEUKH", 4591>>,
    <<"HANGUL JONGSEONG YESIEUNG-KHIEUKH", 4591>>, <<"HANGUL JONGSEONG YESIEUNG", 4592>>,
    <<"HANGUL JONGSEONG YESIEUNG-SIOS", 4593>>, <<"HANGUL JONGSEONG YESIEUNG-PANSIOS", 4594>>,
    <<"HANGUL JONGSEONG PHIEUPH-PIEUP", 4595>>, <<"HANGUL JONGSEONG KAPYEOUNPHIEUPH", 4596>>,
    <<"HANGUL JONGSEONG HIEUH-NIEUN", 4597>>, <<"HANGUL JONGSEONG HIEUH-RIEUL", 4598>>,
    <<"HANGUL JONGSEONG HIEUH-MIEUM", 4599>>, <<"HANGUL JONGSEONG HIEUH-PIEUP", 4600>>,
    <<"HANGUL JONGSEONG YEORINHIEUH", 4601>>, <<"HANGUL JONGSEONG KIYEOK-NIEUN", 4602>>,
    <<"HANGUL JONGSEONG KIYEOK-PIEUP", 4603>>, <<"HANGUL JONGSEONG KIYEOK-CHIEUCH", 4604>>,
    <<"HANGUL JONGSEONG KIYEOK-KHIEUKH", 4605>>, <<"HANGUL JONGSEONG KIYEOK-HIEUH", 4606>>,
    <<"HANGUL JONGSEONG SSANGNIEUN", 4607>>, <<"ETHIOPIC SYLLABLE HA", 4608>>,
    <<"ETHIOPIC SYLLABLE HU", 4609>>, <<"ETHIOPIC SYLLABLE HI", 4610>>,
    <<"ETHIOPIC SYLLABLE HAA", 4611>>, <<"ETHIOPIC SYLLABLE HEE", 4612>>,
    <<"ETHIOPIC SYLLABLE HE", 4613>>, <<"ETHIOPIC SYLLABLE HO", 4614>>,
    <<"ETHIOPIC SYLLABLE HOA", 4615>>, <<"ETHIOPIC SYLLABLE LA", 4616>>,
    <<"ETHIOPIC SYLLABLE LU", 4617>>, <<"ETHIOPIC SYLLABLE LI", 4618>>,
    <<"ETHIOPIC SYLLABLE LAA", 4619>>, <<"ETHIOPIC SYLLABLE LEE", 4620>>,
    <<"ETHIOPIC SYLLABLE LE", 4621>>, <<"ETHIOPIC SYLLABLE LO", 4622>>,
    <<"ETHIOPIC SYLLABLE LWA", 4623>>, <<"ETHIOPIC SYLLABLE HHA", 4624>>,
    <<"ETHIOPIC SYLLABLE HHU", 4625>>, <<"ETHIOPIC SYLLABLE HHI", 4626>>,
    <<"ETHIOPIC SYLLABLE HHAA", 4627>>, <<"ETHIOPIC SYLLABLE HHEE", 4628>>,
    <<"ETHIOPIC SYLLABLE HHE", 4629>>, <<"ETHIOPIC SYLLABLE HHO", 4630>>,
    <<"ETHIOPIC SYLLABLE HHWA", 4631>>, <<"ETHIOPIC SYLLABLE MA", 4632>>,
    <<"ETHIOPIC SYLLABLE MU", 4633>>, <<"ETHIOPIC SYLLABLE MI", 4634>>,
    <<"ETHIOPIC SYLLABLE MAA", 4635>>, <<"ETHIOPIC SYLLABLE MEE", 4636>>,
    <<"ETHIOPIC SYLLABLE ME", 4637>>, <<"ETHIOPIC SYLLABLE MO", 4638>>,
    <<"ETHIOPIC SYLLABLE MWA", 4639>>, <<"ETHIOPIC SYLLABLE SZA", 4640>>,
    <<"ETHIOPIC SYLLABLE SZU", 4641>>, <<"ETHIOPIC SYLLABLE SZI", 4642>>,
    <<"ETHIOPIC SYLLABLE SZAA", 4643>>, <<"ETHIOPIC SYLLABLE SZEE", 4644>>,
    <<"ETHIOPIC SYLLABLE SZE", 4645>>, <<"ETHIOPIC SYLLABLE SZO", 4646>>,
    <<"ETHIOPIC SYLLABLE SZWA", 4647>>, <<"ETHIOPIC SYLLABLE RA", 4648>>,
    <<"ETHIOPIC SYLLABLE RU", 4649>>, <<"ETHIOPIC SYLLABLE RI", 4650>>,
    <<"ETHIOPIC SYLLABLE RAA", 4651>>, <<"ETHIOPIC SYLLABLE REE", 4652>>,
    <<"ETHIOPIC SYLLABLE RE", 4653>>, <<"ETHIOPIC SYLLABLE RO", 4654>>,
    <<"ETHIOPIC SYLLABLE RWA", 4655>>, <<"ETHIOPIC SYLLABLE SA", 4656>>,
    <<"ETHIOPIC SYLLABLE SU", 4657>>, <<"ETHIOPIC SYLLABLE SI", 4658>>,
    <<"ETHIOPIC SYLLABLE SAA", 4659>>, <<"ETHIOPIC SYLLABLE SEE", 4660>>,
    <<"ETHIOPIC SYLLABLE SE", 4661>>, <<"ETHIOPIC SYLLABLE SO", 4662>>,
    <<"ETHIOPIC SYLLABLE SWA", 4663>>, <<"ETHIOPIC SYLLABLE SHA", 4664>>,
    <<"ETHIOPIC SYLLABLE SHU", 4665>>, <<"ETHIOPIC SYLLABLE SHI", 4666>>,
    <<"ETHIOPIC SYLLABLE SHAA", 4667>>, <<"ETHIOPIC SYLLABLE SHEE", 4668>>,
    <<"ETHIOPIC SYLLABLE SHE", 4669>>, <<"ETHIOPIC SYLLABLE SHO", 4670>>,
    <<"ETHIOPIC SYLLABLE SHWA", 4671>>, <<"ETHIOPIC SYLLABLE QA", 4672>>,
    <<"ETHIOPIC SYLLABLE QU", 4673>>, <<"ETHIOPIC SYLLABLE QI", 4674>>,
    <<"ETHIOPIC SYLLABLE QAA", 4675>>, <<"ETHIOPIC SYLLABLE QEE", 4676>>,
    <<"ETHIOPIC SYLLABLE QE", 4677>>, <<"ETHIOPIC SYLLABLE QO", 4678>>,
    <<"ETHIOPIC SYLLABLE QOA", 4679>>, <<"ETHIOPIC SYLLABLE QWA", 4680>>,
    <<"ETHIOPIC SYLLABLE QWI", 4682>>, <<"ETHIOPIC SYLLABLE QWAA", 4683>>,
    <<"ETHIOPIC SYLLABLE QWEE", 4684>>, <<"ETHIOPIC SYLLABLE QWE", 4685>>,
    <<"ETHIOPIC SYLLABLE QHA", 4688>>, <<"ETHIOPIC SYLLABLE QHU", 4689>>,
    <<"ETHIOPIC SYLLABLE QHI", 4690>>, <<"ETHIOPIC SYLLABLE QHAA", 4691>>,
    <<"ETHIOPIC SYLLABLE QHEE", 4692>>, <<"ETHIOPIC SYLLABLE QHE", 4693>>,
    <<"ETHIOPIC SYLLABLE QHO", 4694>>, <<"ETHIOPIC SYLLABLE QHWA", 4696>>,
    <<"ETHIOPIC SYLLABLE QHWI", 4698>>, <<"ETHIOPIC SYLLABLE QHWAA", 4699>>,
    <<"ETHIOPIC SYLLABLE QHWEE", 4700>>, <<"ETHIOPIC SYLLABLE QHWE", 4701>>,
    <<"ETHIOPIC SYLLABLE BA", 4704>>, <<"ETHIOPIC SYLLABLE BU", 4705>>,
    <<"ETHIOPIC SYLLABLE BI", 4706>>, <<"ETHIOPIC SYLLABLE BAA", 4707>>,
    <<"ETHIOPIC SYLLABLE BEE", 4708>>, <<"ETHIOPIC SYLLABLE BE", 4709>>,
    <<"ETHIOPIC SYLLABLE BO", 4710>>, <<"ETHIOPIC SYLLABLE BWA", 4711>>,
    <<"ETHIOPIC SYLLABLE VA", 4712>>, <<"ETHIOPIC SYLLABLE VU", 4713>>,
    <<"ETHIOPIC SYLLABLE VI", 4714>>, <<"ETHIOPIC SYLLABLE VAA", 4715>>,
    <<"ETHIOPIC SYLLABLE VEE", 4716>>, <<"ETHIOPIC SYLLABLE VE", 4717>>,
    <<"ETHIOPIC SYLLABLE VO", 4718>>, <<"ETHIOPIC SYLLABLE VWA", 4719>>,
    <<"ETHIOPIC SYLLABLE TA", 4720>>, <<"ETHIOPIC SYLLABLE TU", 4721>>,
    <<"ETHIOPIC SYLLABLE TI", 4722>>, <<"ETHIOPIC SYLLABLE TAA", 4723>>,
    <<"ETHIOPIC SYLLABLE TEE", 4724>>, <<"ETHIOPIC SYLLABLE TE", 4725>>,
    <<"ETHIOPIC SYLLABLE TO", 4726>>, <<"ETHIOPIC SYLLABLE TWA", 4727>>,
    <<"ETHIOPIC SYLLABLE CA", 4728>>, <<"ETHIOPIC SYLLABLE CU", 4729>>,
    <<"ETHIOPIC SYLLABLE CI", 4730>>, <<"ETHIOPIC SYLLABLE CAA", 4731>>,
    <<"ETHIOPIC SYLLABLE CEE", 4732>>, <<"ETHIOPIC SYLLABLE CE", 4733>>,
    <<"ETHIOPIC SYLLABLE CO", 4734>>, <<"ETHIOPIC SYLLABLE CWA", 4735>>,
    <<"ETHIOPIC SYLLABLE XA", 4736>>, <<"ETHIOPIC SYLLABLE XU", 4737>>,
    <<"ETHIOPIC SYLLABLE XI", 4738>>, <<"ETHIOPIC SYLLABLE XAA", 4739>>,
    <<"ETHIOPIC SYLLABLE XEE", 4740>>, <<"ETHIOPIC SYLLABLE XE", 4741>>,
    <<"ETHIOPIC SYLLABLE XO", 4742>>, <<"ETHIOPIC SYLLABLE XOA", 4743>>,
    <<"ETHIOPIC SYLLABLE XWA", 4744>>, <<"ETHIOPIC SYLLABLE XWI", 4746>>,
    <<"ETHIOPIC SYLLABLE XWAA", 4747>>, <<"ETHIOPIC SYLLABLE XWEE", 4748>>,
    <<"ETHIOPIC SYLLABLE XWE", 4749>>, <<"ETHIOPIC SYLLABLE NA", 4752>>,
    <<"ETHIOPIC SYLLABLE NU", 4753>>, <<"ETHIOPIC SYLLABLE NI", 4754>>,
    <<"ETHIOPIC SYLLABLE NAA", 4755>>, <<"ETHIOPIC SYLLABLE NEE", 4756>>,
    <<"ETHIOPIC SYLLABLE NE", 4757>>, <<"ETHIOPIC SYLLABLE NO", 4758>>,
    <<"ETHIOPIC SYLLABLE NWA", 4759>>, <<"ETHIOPIC SYLLABLE NYA", 4760>>,
    <<"ETHIOPIC SYLLABLE NYU", 4761>>, <<"ETHIOPIC SYLLABLE NYI", 4762>>,
    <<"ETHIOPIC SYLLABLE NYAA", 4763>>, <<"ETHIOPIC SYLLABLE NYEE", 4764>>,
    <<"ETHIOPIC SYLLABLE NYE", 4765>>, <<"ETHIOPIC SYLLABLE NYO", 4766>>,
    <<"ETHIOPIC SYLLABLE NYWA", 4767>>, <<"ETHIOPIC SYLLABLE GLOTTAL A", 4768>>,
    <<"ETHIOPIC SYLLABLE GLOTTAL U", 4769>>, <<"ETHIOPIC SYLLABLE GLOTTAL I", 4770>>,
    <<"ETHIOPIC SYLLABLE GLOTTAL AA", 4771>>, <<"ETHIOPIC SYLLABLE GLOTTAL EE", 4772>>,
    <<"ETHIOPIC SYLLABLE GLOTTAL E", 4773>>, <<"ETHIOPIC SYLLABLE GLOTTAL O", 4774>>,
    <<"ETHIOPIC SYLLABLE GLOTTAL WA", 4775>>, <<"ETHIOPIC SYLLABLE KA", 4776>>,
    <<"ETHIOPIC SYLLABLE KU", 4777>>, <<"ETHIOPIC SYLLABLE KI", 4778>>,
    <<"ETHIOPIC SYLLABLE KAA", 4779>>, <<"ETHIOPIC SYLLABLE KEE", 4780>>,
    <<"ETHIOPIC SYLLABLE KE", 4781>>, <<"ETHIOPIC SYLLABLE KO", 4782>>,
    <<"ETHIOPIC SYLLABLE KOA", 4783>>, <<"ETHIOPIC SYLLABLE KWA", 4784>>,
    <<"ETHIOPIC SYLLABLE KWI", 4786>>, <<"ETHIOPIC SYLLABLE KWAA", 4787>>,
    <<"ETHIOPIC SYLLABLE KWEE", 4788>>, <<"ETHIOPIC SYLLABLE KWE", 4789>>,
    <<"ETHIOPIC SYLLABLE KXA", 4792>>, <<"ETHIOPIC SYLLABLE KXU", 4793>>,
    <<"ETHIOPIC SYLLABLE KXI", 4794>>, <<"ETHIOPIC SYLLABLE KXAA", 4795>>,
    <<"ETHIOPIC SYLLABLE KXEE", 4796>>, <<"ETHIOPIC SYLLABLE KXE", 4797>>,
    <<"ETHIOPIC SYLLABLE KXO", 4798>>, <<"ETHIOPIC SYLLABLE KXWA", 4800>>,
    <<"ETHIOPIC SYLLABLE KXWI", 4802>>, <<"ETHIOPIC SYLLABLE KXWAA", 4803>>,
    <<"ETHIOPIC SYLLABLE KXWEE", 4804>>, <<"ETHIOPIC SYLLABLE KXWE", 4805>>,
    <<"ETHIOPIC SYLLABLE WA", 4808>>, <<"ETHIOPIC SYLLABLE WU", 4809>>,
    <<"ETHIOPIC SYLLABLE WI", 4810>>, <<"ETHIOPIC SYLLABLE WAA", 4811>>,
    <<"ETHIOPIC SYLLABLE WEE", 4812>>, <<"ETHIOPIC SYLLABLE WE", 4813>>,
    <<"ETHIOPIC SYLLABLE WO", 4814>>, <<"ETHIOPIC SYLLABLE WOA", 4815>>,
    <<"ETHIOPIC SYLLABLE PHARYNGEAL A", 4816>>, <<"ETHIOPIC SYLLABLE PHARYNGEAL U", 4817>>,
    <<"ETHIOPIC SYLLABLE PHARYNGEAL I", 4818>>, <<"ETHIOPIC SYLLABLE PHARYNGEAL AA", 4819>>,
    <<"ETHIOPIC SYLLABLE PHARYNGEAL EE", 4820>>, <<"ETHIOPIC SYLLABLE PHARYNGEAL E", 4821>>,
    <<"ETHIOPIC SYLLABLE PHARYNGEAL O", 4822>>, <<"ETHIOPIC SYLLABLE ZA", 4824>>,
    <<"ETHIOPIC SYLLABLE ZU", 4825>>, <<"ETHIOPIC SYLLABLE ZI", 4826>>,
    <<"ETHIOPIC SYLLABLE ZAA", 4827>>, <<"ETHIOPIC SYLLABLE ZEE", 4828>>,
    <<"ETHIOPIC SYLLABLE ZE", 4829>>, <<"ETHIOPIC SYLLABLE ZO", 4830>>,
    <<"ETHIOPIC SYLLABLE ZWA", 4831>>, <<"ETHIOPIC SYLLABLE ZHA", 4832>>,
    <<"ETHIOPIC SYLLABLE ZHU", 4833>>, <<"ETHIOPIC SYLLABLE ZHI", 4834>>,
    <<"ETHIOPIC SYLLABLE ZHAA", 4835>>, <<"ETHIOPIC SYLLABLE ZHEE", 4836>>,
    <<"ETHIOPIC SYLLABLE ZHE", 4837>>, <<"ETHIOPIC SYLLABLE ZHO", 4838>>,
    <<"ETHIOPIC SYLLABLE ZHWA", 4839>>, <<"ETHIOPIC SYLLABLE YA", 4840>>,
    <<"ETHIOPIC SYLLABLE YU", 4841>>, <<"ETHIOPIC SYLLABLE YI", 4842>>,
    <<"ETHIOPIC SYLLABLE YAA", 4843>>, <<"ETHIOPIC SYLLABLE YEE", 4844>>,
    <<"ETHIOPIC SYLLABLE YE", 4845>>, <<"ETHIOPIC SYLLABLE YO", 4846>>,
    <<"ETHIOPIC SYLLABLE YOA", 4847>>, <<"ETHIOPIC SYLLABLE DA", 4848>>,
    <<"ETHIOPIC SYLLABLE DU", 4849>>, <<"ETHIOPIC SYLLABLE DI", 4850>>,
    <<"ETHIOPIC SYLLABLE DAA", 4851>>, <<"ETHIOPIC SYLLABLE DEE", 4852>>,
    <<"ETHIOPIC SYLLABLE DE", 4853>>, <<"ETHIOPIC SYLLABLE DO", 4854>>,
    <<"ETHIOPIC SYLLABLE DWA", 4855>>, <<"ETHIOPIC SYLLABLE DDA", 4856>>,
    <<"ETHIOPIC SYLLABLE DDU", 4857>>, <<"ETHIOPIC SYLLABLE DDI", 4858>>,
    <<"ETHIOPIC SYLLABLE DDAA", 4859>>, <<"ETHIOPIC SYLLABLE DDEE", 4860>>,
    <<"ETHIOPIC SYLLABLE DDE", 4861>>, <<"ETHIOPIC SYLLABLE DDO", 4862>>,
    <<"ETHIOPIC SYLLABLE DDWA", 4863>>, <<"ETHIOPIC SYLLABLE JA", 4864>>,
    <<"ETHIOPIC SYLLABLE JU", 4865>>, <<"ETHIOPIC SYLLABLE JI", 4866>>,
    <<"ETHIOPIC SYLLABLE JAA", 4867>>, <<"ETHIOPIC SYLLABLE JEE", 4868>>,
    <<"ETHIOPIC SYLLABLE JE", 4869>>, <<"ETHIOPIC SYLLABLE JO", 4870>>,
    <<"ETHIOPIC SYLLABLE JWA", 4871>>, <<"ETHIOPIC SYLLABLE GA", 4872>>,
    <<"ETHIOPIC SYLLABLE GU", 4873>>, <<"ETHIOPIC SYLLABLE GI", 4874>>,
    <<"ETHIOPIC SYLLABLE GAA", 4875>>, <<"ETHIOPIC SYLLABLE GEE", 4876>>,
    <<"ETHIOPIC SYLLABLE GE", 4877>>, <<"ETHIOPIC SYLLABLE GO", 4878>>,
    <<"ETHIOPIC SYLLABLE GOA", 4879>>, <<"ETHIOPIC SYLLABLE GWA", 4880>>,
    <<"ETHIOPIC SYLLABLE GWI", 4882>>, <<"ETHIOPIC SYLLABLE GWAA", 4883>>,
    <<"ETHIOPIC SYLLABLE GWEE", 4884>>, <<"ETHIOPIC SYLLABLE GWE", 4885>>,
    <<"ETHIOPIC SYLLABLE GGA", 4888>>, <<"ETHIOPIC SYLLABLE GGU", 4889>>,
    <<"ETHIOPIC SYLLABLE GGI", 4890>>, <<"ETHIOPIC SYLLABLE GGAA", 4891>>,
    <<"ETHIOPIC SYLLABLE GGEE", 4892>>, <<"ETHIOPIC SYLLABLE GGE", 4893>>,
    <<"ETHIOPIC SYLLABLE GGO", 4894>>, <<"ETHIOPIC SYLLABLE GGWAA", 4895>>,
    <<"ETHIOPIC SYLLABLE THA", 4896>>, <<"ETHIOPIC SYLLABLE THU", 4897>>,
    <<"ETHIOPIC SYLLABLE THI", 4898>>, <<"ETHIOPIC SYLLABLE THAA", 4899>>,
    <<"ETHIOPIC SYLLABLE THEE", 4900>>, <<"ETHIOPIC SYLLABLE THE", 4901>>,
    <<"ETHIOPIC SYLLABLE THO", 4902>>, <<"ETHIOPIC SYLLABLE THWA", 4903>>,
    <<"ETHIOPIC SYLLABLE CHA", 4904>>, <<"ETHIOPIC SYLLABLE CHU", 4905>>,
    <<"ETHIOPIC SYLLABLE CHI", 4906>>, <<"ETHIOPIC SYLLABLE CHAA", 4907>>,
    <<"ETHIOPIC SYLLABLE CHEE", 4908>>, <<"ETHIOPIC SYLLABLE CHE", 4909>>,
    <<"ETHIOPIC SYLLABLE CHO", 4910>>, <<"ETHIOPIC SYLLABLE CHWA", 4911>>,
    <<"ETHIOPIC SYLLABLE PHA", 4912>>, <<"ETHIOPIC SYLLABLE PHU", 4913>>,
    <<"ETHIOPIC SYLLABLE PHI", 4914>>, <<"ETHIOPIC SYLLABLE PHAA", 4915>>,
    <<"ETHIOPIC SYLLABLE PHEE", 4916>>, <<"ETHIOPIC SYLLABLE PHE", 4917>>,
    <<"ETHIOPIC SYLLABLE PHO", 4918>>, <<"ETHIOPIC SYLLABLE PHWA", 4919>>,
    <<"ETHIOPIC SYLLABLE TSA", 4920>>, <<"ETHIOPIC SYLLABLE TSU", 4921>>,
    <<"ETHIOPIC SYLLABLE TSI", 4922>>, <<"ETHIOPIC SYLLABLE TSAA", 4923>>,
    <<"ETHIOPIC SYLLABLE TSEE", 4924>>, <<"ETHIOPIC SYLLABLE TSE", 4925>>,
    <<"ETHIOPIC SYLLABLE TSO", 4926>>, <<"ETHIOPIC SYLLABLE TSWA", 4927>>,
    <<"ETHIOPIC SYLLABLE TZA", 4928>>, <<"ETHIOPIC SYLLABLE TZU", 4929>>,
    <<"ETHIOPIC SYLLABLE TZI", 4930>>, <<"ETHIOPIC SYLLABLE TZAA", 4931>>,
    <<"ETHIOPIC SYLLABLE TZEE", 4932>>, <<"ETHIOPIC SYLLABLE TZE", 4933>>,
    <<"ETHIOPIC SYLLABLE TZO", 4934>>, <<"ETHIOPIC SYLLABLE TZOA", 4935>>,
    <<"ETHIOPIC SYLLABLE FA", 4936>>, <<"ETHIOPIC SYLLABLE FU", 4937>>,
    <<"ETHIOPIC SYLLABLE FI", 4938>>, <<"ETHIOPIC SYLLABLE FAA", 4939>>,
    <<"ETHIOPIC SYLLABLE FEE", 4940>>, <<"ETHIOPIC SYLLABLE FE", 4941>>,
    <<"ETHIOPIC SYLLABLE FO", 4942>>, <<"ETHIOPIC SYLLABLE FWA", 4943>>,
    <<"ETHIOPIC SYLLABLE PA", 4944>>, <<"ETHIOPIC SYLLABLE PU", 4945>>,
    <<"ETHIOPIC SYLLABLE PI", 4946>>, <<"ETHIOPIC SYLLABLE PAA", 4947>>,
    <<"ETHIOPIC SYLLABLE PEE", 4948>>, <<"ETHIOPIC SYLLABLE PE", 4949>>,
    <<"ETHIOPIC SYLLABLE PO", 4950>>, <<"ETHIOPIC SYLLABLE PWA", 4951>>,
    <<"ETHIOPIC SYLLABLE RYA", 4952>>, <<"ETHIOPIC SYLLABLE MYA", 4953>>,
    <<"ETHIOPIC SYLLABLE FYA", 4954>>, <<"ETHIOPIC COMBINING GEMINATION AND VOWEL LENGTH MARK", 4957>>,
    <<"ETHIOPIC COMBINING VOWEL LENGTH MARK", 4958>>, <<"ETHIOPIC COMBINING GEMINATION MARK", 4959>>,
    <<"ETHIOPIC SECTION MARK", 4960>>, <<"ETHIOPIC WORDSPACE", 4961>>, <<"ETHIOPIC FULL STOP", 4962>>,
    <<"ETHIOPIC COMMA", 4963>>, <<"ETHIOPIC SEMICOLON", 4964>>, <<"ETHIOPIC COLON", 4965>>,
    <<"ETHIOPIC PREFACE COLON", 4966>>, <<"ETHIOPIC QUESTION MARK", 4967>>,
    <<"ETHIOPIC PARAGRAPH SEPARATOR", 4968>>, <<"ETHIOPIC DIGIT ONE", 4969>>,
    <<"ETHIOPIC DIGIT TWO", 4970>>, <<"ETHIOPIC DIGIT THREE", 4971>>, <<"ETHIOPIC DIGIT FOUR", 4972>>,
    <<"ETHIOPIC DIGIT FIVE", 4973>>, <<"ETHIOPIC DIGIT SIX", 4974>>, <<"ETHIOPIC DIGIT SEVEN", 4975>>,
    <<"ETHIOPIC DIGIT EIGHT", 4976>>, <<"ETHIOPIC DIGIT NINE", 4977>>, <<"ETHIOPIC NUMBER TEN", 4978>>,
    <<"ETHIOPIC NUMBER TWENTY", 4979>>, <<"ETHIOPIC NUMBER THIRTY", 4980>>,
    <<"ETHIOPIC NUMBER FORTY", 4981>>, <<"ETHIOPIC NUMBER FIFTY", 4982>>,
    <<"ETHIOPIC NUMBER SIXTY", 4983>>, <<"ETHIOPIC NUMBER SEVENTY", 4984>>,
    <<"ETHIOPIC NUMBER EIGHTY", 4985>>, <<"ETHIOPIC NUMBER NINETY", 4986>>,
    <<"ETHIOPIC NUMBER HUNDRED", 4987>>, <<"ETHIOPIC NUMBER TEN THOUSAND", 4988>>,
    <<"ETHIOPIC SYLLABLE SEBATBEIT MWA", 4992>>, <<"ETHIOPIC SYLLABLE MWI", 4993>>,
    <<"ETHIOPIC SYLLABLE MWEE", 4994>>, <<"ETHIOPIC SYLLABLE MWE", 4995>>,
    <<"ETHIOPIC SYLLABLE SEBATBEIT BWA", 4996>>, <<"ETHIOPIC SYLLABLE BWI", 4997>>,
    <<"ETHIOPIC SYLLABLE BWEE", 4998>>, <<"ETHIOPIC SYLLABLE BWE", 4999>>,
    <<"ETHIOPIC SYLLABLE SEBATBEIT FWA", 5000>>, <<"ETHIOPIC SYLLABLE FWI", 5001>>,
    <<"ETHIOPIC SYLLABLE FWEE", 5002>>, <<"ETHIOPIC SYLLABLE FWE", 5003>>,
    <<"ETHIOPIC SYLLABLE SEBATBEIT PWA", 5004>>, <<"ETHIOPIC SYLLABLE PWI", 5005>>,
    <<"ETHIOPIC SYLLABLE PWEE", 5006>>, <<"ETHIOPIC SYLLABLE PWE", 5007>>,
    <<"ETHIOPIC TONAL MARK YIZET", 5008>>, <<"ETHIOPIC TONAL MARK DERET", 5009>>,
    <<"ETHIOPIC TONAL MARK RIKRIK", 5010>>, <<"ETHIOPIC TONAL MARK SHORT RIKRIK", 5011>>,
    <<"ETHIOPIC TONAL MARK DIFAT", 5012>>, <<"ETHIOPIC TONAL MARK KENAT", 5013>>,
    <<"ETHIOPIC TONAL MARK CHIRET", 5014>>, <<"ETHIOPIC TONAL MARK HIDET", 5015>>,
    <<"ETHIOPIC TONAL MARK DERET-HIDET", 5016>>, <<"ETHIOPIC TONAL MARK KURT", 5017>>,
    <<"CHEROKEE LETTER A", 5024>>, <<"CHEROKEE LETTER E", 5025>>, <<"CHEROKEE LETTER I", 5026>>,
    <<"CHEROKEE LETTER O", 5027>>, <<"CHEROKEE LETTER U", 5028>>, <<"CHEROKEE LETTER V", 5029>>,
    <<"CHEROKEE LETTER GA", 5030>>, <<"CHEROKEE LETTER KA", 5031>>, <<"CHEROKEE LETTER GE", 5032>>,
    <<"CHEROKEE LETTER GI", 5033>>, <<"CHEROKEE LETTER GO", 5034>>, <<"CHEROKEE LETTER GU", 5035>>,
    <<"CHEROKEE LETTER GV", 5036>>, <<"CHEROKEE LETTER HA", 5037>>, <<"CHEROKEE LETTER HE", 5038>>,
    <<"CHEROKEE LETTER HI", 5039>>, <<"CHEROKEE LETTER HO", 5040>>, <<"CHEROKEE LETTER HU", 5041>>,
    <<"CHEROKEE LETTER HV", 5042>>, <<"CHEROKEE LETTER LA", 5043>>, <<"CHEROKEE LETTER LE", 5044>>,
    <<"CHEROKEE LETTER LI", 5045>>, <<"CHEROKEE LETTER LO", 5046>>, <<"CHEROKEE LETTER LU", 5047>>,
    <<"CHEROKEE LETTER LV", 5048>>, <<"CHEROKEE LETTER MA", 5049>>, <<"CHEROKEE LETTER ME", 5050>>,
    <<"CHEROKEE LETTER MI", 5051>>, <<"CHEROKEE LETTER MO", 5052>>, <<"CHEROKEE LETTER MU", 5053>>,
    <<"CHEROKEE LETTER NA", 5054>>, <<"CHEROKEE LETTER HNA", 5055>>, <<"CHEROKEE LETTER NAH", 5056>>,
    <<"CHEROKEE LETTER NE", 5057>>, <<"CHEROKEE LETTER NI", 5058>>, <<"CHEROKEE LETTER NO", 5059>>,
    <<"CHEROKEE LETTER NU", 5060>>, <<"CHEROKEE LETTER NV", 5061>>, <<"CHEROKEE LETTER QUA", 5062>>,
    <<"CHEROKEE LETTER QUE", 5063>>, <<"CHEROKEE LETTER QUI", 5064>>, <<"CHEROKEE LETTER QUO", 5065>>,
    <<"CHEROKEE LETTER QUU", 5066>>, <<"CHEROKEE LETTER QUV", 5067>>, <<"CHEROKEE LETTER SA", 5068>>,
    <<"CHEROKEE LETTER S", 5069>>, <<"CHEROKEE LETTER SE", 5070>>, <<"CHEROKEE LETTER SI", 5071>>,
    <<"CHEROKEE LETTER SO", 5072>>, <<"CHEROKEE LETTER SU", 5073>>, <<"CHEROKEE LETTER SV", 5074>>,
    <<"CHEROKEE LETTER DA", 5075>>, <<"CHEROKEE LETTER TA", 5076>>, <<"CHEROKEE LETTER DE", 5077>>,
    <<"CHEROKEE LETTER TE", 5078>>, <<"CHEROKEE LETTER DI", 5079>>, <<"CHEROKEE LETTER TI", 5080>>,
    <<"CHEROKEE LETTER DO", 5081>>, <<"CHEROKEE LETTER DU", 5082>>, <<"CHEROKEE LETTER DV", 5083>>,
    <<"CHEROKEE LETTER DLA", 5084>>, <<"CHEROKEE LETTER TLA", 5085>>, <<"CHEROKEE LETTER TLE", 5086>>,
    <<"CHEROKEE LETTER TLI", 5087>>, <<"CHEROKEE LETTER TLO", 5088>>, <<"CHEROKEE LETTER TLU", 5089>>,
    <<"CHEROKEE LETTER TLV", 5090>>, <<"CHEROKEE LETTER TSA", 5091>>, <<"CHEROKEE LETTER TSE", 5092>>,
    <<"CHEROKEE LETTER TSI", 5093>>, <<"CHEROKEE LETTER TSO", 5094>>, <<"CHEROKEE LETTER TSU", 5095>>,
    <<"CHEROKEE LETTER TSV", 5096>>, <<"CHEROKEE LETTER WA", 5097>>, <<"CHEROKEE LETTER WE", 5098>>,
    <<"CHEROKEE LETTER WI", 5099>>, <<"CHEROKEE LETTER WO", 5100>>, <<"CHEROKEE LETTER WU", 5101>>,
    <<"CHEROKEE LETTER WV", 5102>>, <<"CHEROKEE LETTER YA", 5103>>, <<"CHEROKEE LETTER YE", 5104>>,
    <<"CHEROKEE LETTER YI", 5105>>, <<"CHEROKEE LETTER YO", 5106>>, <<"CHEROKEE LETTER YU", 5107>>,
    <<"CHEROKEE LETTER YV", 5108>>, <<"CHEROKEE LETTER MV", 5109>>,
    <<"CHEROKEE SMALL LETTER YE", 5112>>, <<"CHEROKEE SMALL LETTER YI", 5113>>,
    <<"CHEROKEE SMALL LETTER YO", 5114>>, <<"CHEROKEE SMALL LETTER YU", 5115>>,
    <<"CHEROKEE SMALL LETTER YV", 5116>>, <<"CHEROKEE SMALL LETTER MV", 5117>>,
    <<"CANADIAN SYLLABICS HYPHEN", 5120>>, <<"CANADIAN SYLLABICS E", 5121>>,
    <<"CANADIAN SYLLABICS AAI", 5122>>, <<"CANADIAN SYLLABICS I", 5123>>,
    <<"CANADIAN SYLLABICS II", 5124>>, <<"CANADIAN SYLLABICS O", 5125>>,
    <<"CANADIAN SYLLABICS OO", 5126>>, <<"CANADIAN SYLLABICS Y-CREE OO", 5127>>,
    <<"CANADIAN SYLLABICS CARRIER EE", 5128>>, <<"CANADIAN SYLLABICS CARRIER I", 5129>>,
    <<"CANADIAN SYLLABICS A", 5130>>, <<"CANADIAN SYLLABICS AA", 5131>>,
    <<"CANADIAN SYLLABICS WE", 5132>>, <<"CANADIAN SYLLABICS WEST-CREE WE", 5133>>,
    <<"CANADIAN SYLLABICS WI", 5134>>, <<"CANADIAN SYLLABICS WEST-CREE WI", 5135>>,
    <<"CANADIAN SYLLABICS WII", 5136>>, <<"CANADIAN SYLLABICS WEST-CREE WII", 5137>>,
    <<"CANADIAN SYLLABICS WO", 5138>>, <<"CANADIAN SYLLABICS WEST-CREE WO", 5139>>,
    <<"CANADIAN SYLLABICS WOO", 5140>>, <<"CANADIAN SYLLABICS WEST-CREE WOO", 5141>>,
    <<"CANADIAN SYLLABICS NASKAPI WOO", 5142>>, <<"CANADIAN SYLLABICS WA", 5143>>,
    <<"CANADIAN SYLLABICS WEST-CREE WA", 5144>>, <<"CANADIAN SYLLABICS WAA", 5145>>,
    <<"CANADIAN SYLLABICS WEST-CREE WAA", 5146>>, <<"CANADIAN SYLLABICS NASKAPI WAA", 5147>>,
    <<"CANADIAN SYLLABICS AI", 5148>>, <<"CANADIAN SYLLABICS Y-CREE W", 5149>>,
    <<"CANADIAN SYLLABICS GLOTTAL STOP", 5150>>, <<"CANADIAN SYLLABICS FINAL ACUTE", 5151>>,
    <<"CANADIAN SYLLABICS FINAL GRAVE", 5152>>, <<"CANADIAN SYLLABICS FINAL BOTTOM HALF RING", 5153>>,
    <<"CANADIAN SYLLABICS FINAL TOP HALF RING", 5154>>,
    <<"CANADIAN SYLLABICS FINAL RIGHT HALF RING", 5155>>, <<"CANADIAN SYLLABICS FINAL RING", 5156>>,
    <<"CANADIAN SYLLABICS FINAL DOUBLE ACUTE", 5157>>,
    <<"CANADIAN SYLLABICS FINAL DOUBLE SHORT VERTICAL STROKES", 5158>>,
    <<"CANADIAN SYLLABICS FINAL MIDDLE DOT", 5159>>,
    <<"CANADIAN SYLLABICS FINAL SHORT HORIZONTAL STROKE", 5160>>,
    <<"CANADIAN SYLLABICS FINAL PLUS", 5161>>, <<"CANADIAN SYLLABICS FINAL DOWN TACK", 5162>>,
    <<"CANADIAN SYLLABICS EN", 5163>>, <<"CANADIAN SYLLABICS IN", 5164>>,
    <<"CANADIAN SYLLABICS ON", 5165>>, <<"CANADIAN SYLLABICS AN", 5166>>,
    <<"CANADIAN SYLLABICS PE", 5167>>, <<"CANADIAN SYLLABICS PAAI", 5168>>,
    <<"CANADIAN SYLLABICS PI", 5169>>, <<"CANADIAN SYLLABICS PII", 5170>>,
    <<"CANADIAN SYLLABICS PO", 5171>>, <<"CANADIAN SYLLABICS POO", 5172>>,
    <<"CANADIAN SYLLABICS Y-CREE POO", 5173>>, <<"CANADIAN SYLLABICS CARRIER HEE", 5174>>,
    <<"CANADIAN SYLLABICS CARRIER HI", 5175>>, <<"CANADIAN SYLLABICS PA", 5176>>,
    <<"CANADIAN SYLLABICS PAA", 5177>>, <<"CANADIAN SYLLABICS PWE", 5178>>,
    <<"CANADIAN SYLLABICS WEST-CREE PWE", 5179>>, <<"CANADIAN SYLLABICS PWI", 5180>>,
    <<"CANADIAN SYLLABICS WEST-CREE PWI", 5181>>, <<"CANADIAN SYLLABICS PWII", 5182>>,
    <<"CANADIAN SYLLABICS WEST-CREE PWII", 5183>>, <<"CANADIAN SYLLABICS PWO", 5184>>,
    <<"CANADIAN SYLLABICS WEST-CREE PWO", 5185>>, <<"CANADIAN SYLLABICS PWOO", 5186>>,
    <<"CANADIAN SYLLABICS WEST-CREE PWOO", 5187>>, <<"CANADIAN SYLLABICS PWA", 5188>>,
    <<"CANADIAN SYLLABICS WEST-CREE PWA", 5189>>, <<"CANADIAN SYLLABICS PWAA", 5190>>,
    <<"CANADIAN SYLLABICS WEST-CREE PWAA", 5191>>, <<"CANADIAN SYLLABICS Y-CREE PWAA", 5192>>,
    <<"CANADIAN SYLLABICS P", 5193>>, <<"CANADIAN SYLLABICS WEST-CREE P", 5194>>,
    <<"CANADIAN SYLLABICS CARRIER H", 5195>>, <<"CANADIAN SYLLABICS TE", 5196>>,
    <<"CANADIAN SYLLABICS TAAI", 5197>>, <<"CANADIAN SYLLABICS TI", 5198>>,
    <<"CANADIAN SYLLABICS TII", 5199>>, <<"CANADIAN SYLLABICS TO", 5200>>,
    <<"CANADIAN SYLLABICS TOO", 5201>>, <<"CANADIAN SYLLABICS Y-CREE TOO", 5202>>,
    <<"CANADIAN SYLLABICS CARRIER DEE", 5203>>, <<"CANADIAN SYLLABICS CARRIER DI", 5204>>,
    <<"CANADIAN SYLLABICS TA", 5205>>, <<"CANADIAN SYLLABICS TAA", 5206>>,
    <<"CANADIAN SYLLABICS TWE", 5207>>, <<"CANADIAN SYLLABICS WEST-CREE TWE", 5208>>,
    <<"CANADIAN SYLLABICS TWI", 5209>>, <<"CANADIAN SYLLABICS WEST-CREE TWI", 5210>>,
    <<"CANADIAN SYLLABICS TWII", 5211>>, <<"CANADIAN SYLLABICS WEST-CREE TWII", 5212>>,
    <<"CANADIAN SYLLABICS TWO", 5213>>, <<"CANADIAN SYLLABICS WEST-CREE TWO", 5214>>,
    <<"CANADIAN SYLLABICS TWOO", 5215>>, <<"CANADIAN SYLLABICS WEST-CREE TWOO", 5216>>,
    <<"CANADIAN SYLLABICS TWA", 5217>>, <<"CANADIAN SYLLABICS WEST-CREE TWA", 5218>>,
    <<"CANADIAN SYLLABICS TWAA", 5219>>, <<"CANADIAN SYLLABICS WEST-CREE TWAA", 5220>>,
    <<"CANADIAN SYLLABICS NASKAPI TWAA", 5221>>, <<"CANADIAN SYLLABICS T", 5222>>,
    <<"CANADIAN SYLLABICS TTE", 5223>>, <<"CANADIAN SYLLABICS TTI", 5224>>,
    <<"CANADIAN SYLLABICS TTO", 5225>>, <<"CANADIAN SYLLABICS TTA", 5226>>,
    <<"CANADIAN SYLLABICS KE", 5227>>, <<"CANADIAN SYLLABICS KAAI", 5228>>,
    <<"CANADIAN SYLLABICS KI", 5229>>, <<"CANADIAN SYLLABICS KII", 5230>>,
    <<"CANADIAN SYLLABICS KO", 5231>>, <<"CANADIAN SYLLABICS KOO", 5232>>,
    <<"CANADIAN SYLLABICS Y-CREE KOO", 5233>>, <<"CANADIAN SYLLABICS KA", 5234>>,
    <<"CANADIAN SYLLABICS KAA", 5235>>, <<"CANADIAN SYLLABICS KWE", 5236>>,
    <<"CANADIAN SYLLABICS WEST-CREE KWE", 5237>>, <<"CANADIAN SYLLABICS KWI", 5238>>,
    <<"CANADIAN SYLLABICS WEST-CREE KWI", 5239>>, <<"CANADIAN SYLLABICS KWII", 5240>>,
    <<"CANADIAN SYLLABICS WEST-CREE KWII", 5241>>, <<"CANADIAN SYLLABICS KWO", 5242>>,
    <<"CANADIAN SYLLABICS WEST-CREE KWO", 5243>>, <<"CANADIAN SYLLABICS KWOO", 5244>>,
    <<"CANADIAN SYLLABICS WEST-CREE KWOO", 5245>>, <<"CANADIAN SYLLABICS KWA", 5246>>,
    <<"CANADIAN SYLLABICS WEST-CREE KWA", 5247>>, <<"CANADIAN SYLLABICS KWAA", 5248>>,
    <<"CANADIAN SYLLABICS WEST-CREE KWAA", 5249>>, <<"CANADIAN SYLLABICS NASKAPI KWAA", 5250>>,
    <<"CANADIAN SYLLABICS K", 5251>>, <<"CANADIAN SYLLABICS KW", 5252>>,
    <<"CANADIAN SYLLABICS SOUTH-SLAVEY KEH", 5253>>, <<"CANADIAN SYLLABICS SOUTH-SLAVEY KIH", 5254>>,
    <<"CANADIAN SYLLABICS SOUTH-SLAVEY KOH", 5255>>, <<"CANADIAN SYLLABICS SOUTH-SLAVEY KAH", 5256>>,
    <<"CANADIAN SYLLABICS CE", 5257>>, <<"CANADIAN SYLLABICS CAAI", 5258>>,
    <<"CANADIAN SYLLABICS CI", 5259>>, <<"CANADIAN SYLLABICS CII", 5260>>,
    <<"CANADIAN SYLLABICS CO", 5261>>, <<"CANADIAN SYLLABICS COO", 5262>>,
    <<"CANADIAN SYLLABICS Y-CREE COO", 5263>>, <<"CANADIAN SYLLABICS CA", 5264>>,
    <<"CANADIAN SYLLABICS CAA", 5265>>, <<"CANADIAN SYLLABICS CWE", 5266>>,
    <<"CANADIAN SYLLABICS WEST-CREE CWE", 5267>>, <<"CANADIAN SYLLABICS CWI", 5268>>,
    <<"CANADIAN SYLLABICS WEST-CREE CWI", 5269>>, <<"CANADIAN SYLLABICS CWII", 5270>>,
    <<"CANADIAN SYLLABICS WEST-CREE CWII", 5271>>, <<"CANADIAN SYLLABICS CWO", 5272>>,
    <<"CANADIAN SYLLABICS WEST-CREE CWO", 5273>>, <<"CANADIAN SYLLABICS CWOO", 5274>>,
    <<"CANADIAN SYLLABICS WEST-CREE CWOO", 5275>>, <<"CANADIAN SYLLABICS CWA", 5276>>,
    <<"CANADIAN SYLLABICS WEST-CREE CWA", 5277>>, <<"CANADIAN SYLLABICS CWAA", 5278>>,
    <<"CANADIAN SYLLABICS WEST-CREE CWAA", 5279>>, <<"CANADIAN SYLLABICS NASKAPI CWAA", 5280>>,
    <<"CANADIAN SYLLABICS C", 5281>>, <<"CANADIAN SYLLABICS SAYISI TH", 5282>>,
    <<"CANADIAN SYLLABICS ME", 5283>>, <<"CANADIAN SYLLABICS MAAI", 5284>>,
    <<"CANADIAN SYLLABICS MI", 5285>>, <<"CANADIAN SYLLABICS MII", 5286>>,
    <<"CANADIAN SYLLABICS MO", 5287>>, <<"CANADIAN SYLLABICS MOO", 5288>>,
    <<"CANADIAN SYLLABICS Y-CREE MOO", 5289>>, <<"CANADIAN SYLLABICS MA", 5290>>,
    <<"CANADIAN SYLLABICS MAA", 5291>>, <<"CANADIAN SYLLABICS MWE", 5292>>,
    <<"CANADIAN SYLLABICS WEST-CREE MWE", 5293>>, <<"CANADIAN SYLLABICS MWI", 5294>>,
    <<"CANADIAN SYLLABICS WEST-CREE MWI", 5295>>, <<"CANADIAN SYLLABICS MWII", 5296>>,
    <<"CANADIAN SYLLABICS WEST-CREE MWII", 5297>>, <<"CANADIAN SYLLABICS MWO", 5298>>,
    <<"CANADIAN SYLLABICS WEST-CREE MWO", 5299>>, <<"CANADIAN SYLLABICS MWOO", 5300>>,
    <<"CANADIAN SYLLABICS WEST-CREE MWOO", 5301>>, <<"CANADIAN SYLLABICS MWA", 5302>>,
    <<"CANADIAN SYLLABICS WEST-CREE MWA", 5303>>, <<"CANADIAN SYLLABICS MWAA", 5304>>,
    <<"CANADIAN SYLLABICS WEST-CREE MWAA", 5305>>, <<"CANADIAN SYLLABICS NASKAPI MWAA", 5306>>,
    <<"CANADIAN SYLLABICS M", 5307>>, <<"CANADIAN SYLLABICS WEST-CREE M", 5308>>,
    <<"CANADIAN SYLLABICS MH", 5309>>, <<"CANADIAN SYLLABICS ATHAPASCAN M", 5310>>,
    <<"CANADIAN SYLLABICS SAYISI M", 5311>>, <<"CANADIAN SYLLABICS NE", 5312>>,
    <<"CANADIAN SYLLABICS NAAI", 5313>>, <<"CANADIAN SYLLABICS NI", 5314>>,
    <<"CANADIAN SYLLABICS NII", 5315>>, <<"CANADIAN SYLLABICS NO", 5316>>,
    <<"CANADIAN SYLLABICS NOO", 5317>>, <<"CANADIAN SYLLABICS Y-CREE NOO", 5318>>,
    <<"CANADIAN SYLLABICS NA", 5319>>, <<"CANADIAN SYLLABICS NAA", 5320>>,
    <<"CANADIAN SYLLABICS NWE", 5321>>, <<"CANADIAN SYLLABICS WEST-CREE NWE", 5322>>,
    <<"CANADIAN SYLLABICS NWA", 5323>>, <<"CANADIAN SYLLABICS WEST-CREE NWA", 5324>>,
    <<"CANADIAN SYLLABICS NWAA", 5325>>, <<"CANADIAN SYLLABICS WEST-CREE NWAA", 5326>>,
    <<"CANADIAN SYLLABICS NASKAPI NWAA", 5327>>, <<"CANADIAN SYLLABICS N", 5328>>,
    <<"CANADIAN SYLLABICS CARRIER NG", 5329>>, <<"CANADIAN SYLLABICS NH", 5330>>,
    <<"CANADIAN SYLLABICS LE", 5331>>, <<"CANADIAN SYLLABICS LAAI", 5332>>,
    <<"CANADIAN SYLLABICS LI", 5333>>, <<"CANADIAN SYLLABICS LII", 5334>>,
    <<"CANADIAN SYLLABICS LO", 5335>>, <<"CANADIAN SYLLABICS LOO", 5336>>,
    <<"CANADIAN SYLLABICS Y-CREE LOO", 5337>>, <<"CANADIAN SYLLABICS LA", 5338>>,
    <<"CANADIAN SYLLABICS LAA", 5339>>, <<"CANADIAN SYLLABICS LWE", 5340>>,
    <<"CANADIAN SYLLABICS WEST-CREE LWE", 5341>>, <<"CANADIAN SYLLABICS LWI", 5342>>,
    <<"CANADIAN SYLLABICS WEST-CREE LWI", 5343>>, <<"CANADIAN SYLLABICS LWII", 5344>>,
    <<"CANADIAN SYLLABICS WEST-CREE LWII", 5345>>, <<"CANADIAN SYLLABICS LWO", 5346>>,
    <<"CANADIAN SYLLABICS WEST-CREE LWO", 5347>>, <<"CANADIAN SYLLABICS LWOO", 5348>>,
    <<"CANADIAN SYLLABICS WEST-CREE LWOO", 5349>>, <<"CANADIAN SYLLABICS LWA", 5350>>,
    <<"CANADIAN SYLLABICS WEST-CREE LWA", 5351>>, <<"CANADIAN SYLLABICS LWAA", 5352>>,
    <<"CANADIAN SYLLABICS WEST-CREE LWAA", 5353>>, <<"CANADIAN SYLLABICS L", 5354>>,
    <<"CANADIAN SYLLABICS WEST-CREE L", 5355>>, <<"CANADIAN SYLLABICS MEDIAL L", 5356>>,
    <<"CANADIAN SYLLABICS SE", 5357>>, <<"CANADIAN SYLLABICS SAAI", 5358>>,
    <<"CANADIAN SYLLABICS SI", 5359>>, <<"CANADIAN SYLLABICS SII", 5360>>,
    <<"CANADIAN SYLLABICS SO", 5361>>, <<"CANADIAN SYLLABICS SOO", 5362>>,
    <<"CANADIAN SYLLABICS Y-CREE SOO", 5363>>, <<"CANADIAN SYLLABICS SA", 5364>>,
    <<"CANADIAN SYLLABICS SAA", 5365>>, <<"CANADIAN SYLLABICS SWE", 5366>>,
    <<"CANADIAN SYLLABICS WEST-CREE SWE", 5367>>, <<"CANADIAN SYLLABICS SWI", 5368>>,
    <<"CANADIAN SYLLABICS WEST-CREE SWI", 5369>>, <<"CANADIAN SYLLABICS SWII", 5370>>,
    <<"CANADIAN SYLLABICS WEST-CREE SWII", 5371>>, <<"CANADIAN SYLLABICS SWO", 5372>>,
    <<"CANADIAN SYLLABICS WEST-CREE SWO", 5373>>, <<"CANADIAN SYLLABICS SWOO", 5374>>,
    <<"CANADIAN SYLLABICS WEST-CREE SWOO", 5375>>, <<"CANADIAN SYLLABICS SWA", 5376>>,
    <<"CANADIAN SYLLABICS WEST-CREE SWA", 5377>>, <<"CANADIAN SYLLABICS SWAA", 5378>>,
    <<"CANADIAN SYLLABICS WEST-CREE SWAA", 5379>>, <<"CANADIAN SYLLABICS NASKAPI SWAA", 5380>>,
    <<"CANADIAN SYLLABICS S", 5381>>, <<"CANADIAN SYLLABICS ATHAPASCAN S", 5382>>,
    <<"CANADIAN SYLLABICS SW", 5383>>, <<"CANADIAN SYLLABICS BLACKFOOT S", 5384>>,
    <<"CANADIAN SYLLABICS MOOSE-CREE SK", 5385>>, <<"CANADIAN SYLLABICS NASKAPI SKW", 5386>>,
    <<"CANADIAN SYLLABICS NASKAPI S-W", 5387>>, <<"CANADIAN SYLLABICS NASKAPI SPWA", 5388>>,
    <<"CANADIAN SYLLABICS NASKAPI STWA", 5389>>, <<"CANADIAN SYLLABICS NASKAPI SKWA", 5390>>,
    <<"CANADIAN SYLLABICS NASKAPI SCWA", 5391>>, <<"CANADIAN SYLLABICS SHE", 5392>>,
    <<"CANADIAN SYLLABICS SHI", 5393>>, <<"CANADIAN SYLLABICS SHII", 5394>>,
    <<"CANADIAN SYLLABICS SHO", 5395>>, <<"CANADIAN SYLLABICS SHOO", 5396>>,
    <<"CANADIAN SYLLABICS SHA", 5397>>, <<"CANADIAN SYLLABICS SHAA", 5398>>,
    <<"CANADIAN SYLLABICS SHWE", 5399>>, <<"CANADIAN SYLLABICS WEST-CREE SHWE", 5400>>,
    <<"CANADIAN SYLLABICS SHWI", 5401>>, <<"CANADIAN SYLLABICS WEST-CREE SHWI", 5402>>,
    <<"CANADIAN SYLLABICS SHWII", 5403>>, <<"CANADIAN SYLLABICS WEST-CREE SHWII", 5404>>,
    <<"CANADIAN SYLLABICS SHWO", 5405>>, <<"CANADIAN SYLLABICS WEST-CREE SHWO", 5406>>,
    <<"CANADIAN SYLLABICS SHWOO", 5407>>, <<"CANADIAN SYLLABICS WEST-CREE SHWOO", 5408>>,
    <<"CANADIAN SYLLABICS SHWA", 5409>>, <<"CANADIAN SYLLABICS WEST-CREE SHWA", 5410>>,
    <<"CANADIAN SYLLABICS SHWAA", 5411>>, <<"CANADIAN SYLLABICS WEST-CREE SHWAA", 5412>>,
    <<"CANADIAN SYLLABICS SH", 5413>>, <<"CANADIAN SYLLABICS YE", 5414>>,
    <<"CANADIAN SYLLABICS YAAI", 5415>>, <<"CANADIAN SYLLABICS YI", 5416>>,
    <<"CANADIAN SYLLABICS YII", 5417>>, <<"CANADIAN SYLLABICS YO", 5418>>,
    <<"CANADIAN SYLLABICS YOO", 5419>>, <<"CANADIAN SYLLABICS Y-CREE YOO", 5420>>,
    <<"CANADIAN SYLLABICS YA", 5421>>, <<"CANADIAN SYLLABICS YAA", 5422>>,
    <<"CANADIAN SYLLABICS YWE", 5423>>, <<"CANADIAN SYLLABICS WEST-CREE YWE", 5424>>,
    <<"CANADIAN SYLLABICS YWI", 5425>>, <<"CANADIAN SYLLABICS WEST-CREE YWI", 5426>>,
    <<"CANADIAN SYLLABICS YWII", 5427>>, <<"CANADIAN SYLLABICS WEST-CREE YWII", 5428>>,
    <<"CANADIAN SYLLABICS YWO", 5429>>, <<"CANADIAN SYLLABICS WEST-CREE YWO", 5430>>,
    <<"CANADIAN SYLLABICS YWOO", 5431>>, <<"CANADIAN SYLLABICS WEST-CREE YWOO", 5432>>,
    <<"CANADIAN SYLLABICS YWA", 5433>>, <<"CANADIAN SYLLABICS WEST-CREE YWA", 5434>>,
    <<"CANADIAN SYLLABICS YWAA", 5435>>, <<"CANADIAN SYLLABICS WEST-CREE YWAA", 5436>>,
    <<"CANADIAN SYLLABICS NASKAPI YWAA", 5437>>, <<"CANADIAN SYLLABICS Y", 5438>>,
    <<"CANADIAN SYLLABICS BIBLE-CREE Y", 5439>>, <<"CANADIAN SYLLABICS WEST-CREE Y", 5440>>,
    <<"CANADIAN SYLLABICS SAYISI YI", 5441>>, <<"CANADIAN SYLLABICS RE", 5442>>,
    <<"CANADIAN SYLLABICS R-CREE RE", 5443>>, <<"CANADIAN SYLLABICS WEST-CREE LE", 5444>>,
    <<"CANADIAN SYLLABICS RAAI", 5445>>, <<"CANADIAN SYLLABICS RI", 5446>>,
    <<"CANADIAN SYLLABICS RII", 5447>>, <<"CANADIAN SYLLABICS RO", 5448>>,
    <<"CANADIAN SYLLABICS ROO", 5449>>, <<"CANADIAN SYLLABICS WEST-CREE LO", 5450>>,
    <<"CANADIAN SYLLABICS RA", 5451>>, <<"CANADIAN SYLLABICS RAA", 5452>>,
    <<"CANADIAN SYLLABICS WEST-CREE LA", 5453>>, <<"CANADIAN SYLLABICS RWAA", 5454>>,
    <<"CANADIAN SYLLABICS WEST-CREE RWAA", 5455>>, <<"CANADIAN SYLLABICS R", 5456>>,
    <<"CANADIAN SYLLABICS WEST-CREE R", 5457>>, <<"CANADIAN SYLLABICS MEDIAL R", 5458>>,
    <<"CANADIAN SYLLABICS FE", 5459>>, <<"CANADIAN SYLLABICS FAAI", 5460>>,
    <<"CANADIAN SYLLABICS FI", 5461>>, <<"CANADIAN SYLLABICS FII", 5462>>,
    <<"CANADIAN SYLLABICS FO", 5463>>, <<"CANADIAN SYLLABICS FOO", 5464>>,
    <<"CANADIAN SYLLABICS FA", 5465>>, <<"CANADIAN SYLLABICS FAA", 5466>>,
    <<"CANADIAN SYLLABICS FWAA", 5467>>, <<"CANADIAN SYLLABICS WEST-CREE FWAA", 5468>>,
    <<"CANADIAN SYLLABICS F", 5469>>, <<"CANADIAN SYLLABICS THE", 5470>>,
    <<"CANADIAN SYLLABICS N-CREE THE", 5471>>, <<"CANADIAN SYLLABICS THI", 5472>>,
    <<"CANADIAN SYLLABICS N-CREE THI", 5473>>, <<"CANADIAN SYLLABICS THII", 5474>>,
    <<"CANADIAN SYLLABICS N-CREE THII", 5475>>, <<"CANADIAN SYLLABICS THO", 5476>>,
    <<"CANADIAN SYLLABICS THOO", 5477>>, <<"CANADIAN SYLLABICS THA", 5478>>,
    <<"CANADIAN SYLLABICS THAA", 5479>>, <<"CANADIAN SYLLABICS THWAA", 5480>>,
    <<"CANADIAN SYLLABICS WEST-CREE THWAA", 5481>>, <<"CANADIAN SYLLABICS TH", 5482>>,
    <<"CANADIAN SYLLABICS TTHE", 5483>>, <<"CANADIAN SYLLABICS TTHI", 5484>>,
    <<"CANADIAN SYLLABICS TTHO", 5485>>, <<"CANADIAN SYLLABICS TTHA", 5486>>,
    <<"CANADIAN SYLLABICS TTH", 5487>>, <<"CANADIAN SYLLABICS TYE", 5488>>,
    <<"CANADIAN SYLLABICS TYI", 5489>>, <<"CANADIAN SYLLABICS TYO", 5490>>,
    <<"CANADIAN SYLLABICS TYA", 5491>>, <<"CANADIAN SYLLABICS NUNAVIK HE", 5492>>,
    <<"CANADIAN SYLLABICS NUNAVIK HI", 5493>>, <<"CANADIAN SYLLABICS NUNAVIK HII", 5494>>,
    <<"CANADIAN SYLLABICS NUNAVIK HO", 5495>>, <<"CANADIAN SYLLABICS NUNAVIK HOO", 5496>>,
    <<"CANADIAN SYLLABICS NUNAVIK HA", 5497>>, <<"CANADIAN SYLLABICS NUNAVIK HAA", 5498>>,
    <<"CANADIAN SYLLABICS NUNAVIK H", 5499>>, <<"CANADIAN SYLLABICS NUNAVUT H", 5500>>,
    <<"CANADIAN SYLLABICS HK", 5501>>, <<"CANADIAN SYLLABICS QAAI", 5502>>,
    <<"CANADIAN SYLLABICS QI", 5503>>, <<"CANADIAN SYLLABICS QII", 5504>>,
    <<"CANADIAN SYLLABICS QO", 5505>>, <<"CANADIAN SYLLABICS QOO", 5506>>,
    <<"CANADIAN SYLLABICS QA", 5507>>, <<"CANADIAN SYLLABICS QAA", 5508>>,
    <<"CANADIAN SYLLABICS Q", 5509>>, <<"CANADIAN SYLLABICS TLHE", 5510>>,
    <<"CANADIAN SYLLABICS TLHI", 5511>>, <<"CANADIAN SYLLABICS TLHO", 5512>>,
    <<"CANADIAN SYLLABICS TLHA", 5513>>, <<"CANADIAN SYLLABICS WEST-CREE RE", 5514>>,
    <<"CANADIAN SYLLABICS WEST-CREE RI", 5515>>, <<"CANADIAN SYLLABICS WEST-CREE RO", 5516>>,
    <<"CANADIAN SYLLABICS WEST-CREE RA", 5517>>, <<"CANADIAN SYLLABICS NGAAI", 5518>>,
    <<"CANADIAN SYLLABICS NGI", 5519>>, <<"CANADIAN SYLLABICS NGII", 5520>>,
    <<"CANADIAN SYLLABICS NGO", 5521>>, <<"CANADIAN SYLLABICS NGOO", 5522>>,
    <<"CANADIAN SYLLABICS NGA", 5523>>, <<"CANADIAN SYLLABICS NGAA", 5524>>,
    <<"CANADIAN SYLLABICS NG", 5525>>, <<"CANADIAN SYLLABICS NNG", 5526>>,
    <<"CANADIAN SYLLABICS SAYISI SHE", 5527>>, <<"CANADIAN SYLLABICS SAYISI SHI", 5528>>,
    <<"CANADIAN SYLLABICS SAYISI SHO", 5529>>, <<"CANADIAN SYLLABICS SAYISI SHA", 5530>>,
    <<"CANADIAN SYLLABICS WOODS-CREE THE", 5531>>, <<"CANADIAN SYLLABICS WOODS-CREE THI", 5532>>,
    <<"CANADIAN SYLLABICS WOODS-CREE THO", 5533>>, <<"CANADIAN SYLLABICS WOODS-CREE THA", 5534>>,
    <<"CANADIAN SYLLABICS WOODS-CREE TH", 5535>>, <<"CANADIAN SYLLABICS LHI", 5536>>,
    <<"CANADIAN SYLLABICS LHII", 5537>>, <<"CANADIAN SYLLABICS LHO", 5538>>,
    <<"CANADIAN SYLLABICS LHOO", 5539>>, <<"CANADIAN SYLLABICS LHA", 5540>>,
    <<"CANADIAN SYLLABICS LHAA", 5541>>, <<"CANADIAN SYLLABICS LH", 5542>>,
    <<"CANADIAN SYLLABICS TH-CREE THE", 5543>>, <<"CANADIAN SYLLABICS TH-CREE THI", 5544>>,
    <<"CANADIAN SYLLABICS TH-CREE THII", 5545>>, <<"CANADIAN SYLLABICS TH-CREE THO", 5546>>,
    <<"CANADIAN SYLLABICS TH-CREE THOO", 5547>>, <<"CANADIAN SYLLABICS TH-CREE THA", 5548>>,
    <<"CANADIAN SYLLABICS TH-CREE THAA", 5549>>, <<"CANADIAN SYLLABICS TH-CREE TH", 5550>>,
    <<"CANADIAN SYLLABICS AIVILIK B", 5551>>, <<"CANADIAN SYLLABICS BLACKFOOT E", 5552>>,
    <<"CANADIAN SYLLABICS BLACKFOOT I", 5553>>, <<"CANADIAN SYLLABICS BLACKFOOT O", 5554>>,
    <<"CANADIAN SYLLABICS BLACKFOOT A", 5555>>, <<"CANADIAN SYLLABICS BLACKFOOT WE", 5556>>,
    <<"CANADIAN SYLLABICS BLACKFOOT WI", 5557>>, <<"CANADIAN SYLLABICS BLACKFOOT WO", 5558>>,
    <<"CANADIAN SYLLABICS BLACKFOOT WA", 5559>>, <<"CANADIAN SYLLABICS BLACKFOOT NE", 5560>>,
    <<"CANADIAN SYLLABICS BLACKFOOT NI", 5561>>, <<"CANADIAN SYLLABICS BLACKFOOT NO", 5562>>,
    <<"CANADIAN SYLLABICS BLACKFOOT NA", 5563>>, <<"CANADIAN SYLLABICS BLACKFOOT KE", 5564>>,
    <<"CANADIAN SYLLABICS BLACKFOOT KI", 5565>>, <<"CANADIAN SYLLABICS BLACKFOOT KO", 5566>>,
    <<"CANADIAN SYLLABICS BLACKFOOT KA", 5567>>, <<"CANADIAN SYLLABICS SAYISI HE", 5568>>,
    <<"CANADIAN SYLLABICS SAYISI HI", 5569>>, <<"CANADIAN SYLLABICS SAYISI HO", 5570>>,
    <<"CANADIAN SYLLABICS SAYISI HA", 5571>>, <<"CANADIAN SYLLABICS CARRIER GHU", 5572>>,
    <<"CANADIAN SYLLABICS CARRIER GHO", 5573>>, <<"CANADIAN SYLLABICS CARRIER GHE", 5574>>,
    <<"CANADIAN SYLLABICS CARRIER GHEE", 5575>>, <<"CANADIAN SYLLABICS CARRIER GHI", 5576>>,
    <<"CANADIAN SYLLABICS CARRIER GHA", 5577>>, <<"CANADIAN SYLLABICS CARRIER RU", 5578>>,
    <<"CANADIAN SYLLABICS CARRIER RO", 5579>>, <<"CANADIAN SYLLABICS CARRIER RE", 5580>>,
    <<"CANADIAN SYLLABICS CARRIER REE", 5581>>, <<"CANADIAN SYLLABICS CARRIER RI", 5582>>,
    <<"CANADIAN SYLLABICS CARRIER RA", 5583>>, <<"CANADIAN SYLLABICS CARRIER WU", 5584>>,
    <<"CANADIAN SYLLABICS CARRIER WO", 5585>>, <<"CANADIAN SYLLABICS CARRIER WE", 5586>>,
    <<"CANADIAN SYLLABICS CARRIER WEE", 5587>>, <<"CANADIAN SYLLABICS CARRIER WI", 5588>>,
    <<"CANADIAN SYLLABICS CARRIER WA", 5589>>, <<"CANADIAN SYLLABICS CARRIER HWU", 5590>>,
    <<"CANADIAN SYLLABICS CARRIER HWO", 5591>>, <<"CANADIAN SYLLABICS CARRIER HWE", 5592>>,
    <<"CANADIAN SYLLABICS CARRIER HWEE", 5593>>, <<"CANADIAN SYLLABICS CARRIER HWI", 5594>>,
    <<"CANADIAN SYLLABICS CARRIER HWA", 5595>>, <<"CANADIAN SYLLABICS CARRIER THU", 5596>>,
    <<"CANADIAN SYLLABICS CARRIER THO", 5597>>, <<"CANADIAN SYLLABICS CARRIER THE", 5598>>,
    <<"CANADIAN SYLLABICS CARRIER THEE", 5599>>, <<"CANADIAN SYLLABICS CARRIER THI", 5600>>,
    <<"CANADIAN SYLLABICS CARRIER THA", 5601>>, <<"CANADIAN SYLLABICS CARRIER TTU", 5602>>,
    <<"CANADIAN SYLLABICS CARRIER TTO", 5603>>, <<"CANADIAN SYLLABICS CARRIER TTE", 5604>>,
    <<"CANADIAN SYLLABICS CARRIER TTEE", 5605>>, <<"CANADIAN SYLLABICS CARRIER TTI", 5606>>,
    <<"CANADIAN SYLLABICS CARRIER TTA", 5607>>, <<"CANADIAN SYLLABICS CARRIER PU", 5608>>,
    <<"CANADIAN SYLLABICS CARRIER PO", 5609>>, <<"CANADIAN SYLLABICS CARRIER PE", 5610>>,
    <<"CANADIAN SYLLABICS CARRIER PEE", 5611>>, <<"CANADIAN SYLLABICS CARRIER PI", 5612>>,
    <<"CANADIAN SYLLABICS CARRIER PA", 5613>>, <<"CANADIAN SYLLABICS CARRIER P", 5614>>,
    <<"CANADIAN SYLLABICS CARRIER GU", 5615>>, <<"CANADIAN SYLLABICS CARRIER GO", 5616>>,
    <<"CANADIAN SYLLABICS CARRIER GE", 5617>>, <<"CANADIAN SYLLABICS CARRIER GEE", 5618>>,
    <<"CANADIAN SYLLABICS CARRIER GI", 5619>>, <<"CANADIAN SYLLABICS CARRIER GA", 5620>>,
    <<"CANADIAN SYLLABICS CARRIER KHU", 5621>>, <<"CANADIAN SYLLABICS CARRIER KHO", 5622>>,
    <<"CANADIAN SYLLABICS CARRIER KHE", 5623>>, <<"CANADIAN SYLLABICS CARRIER KHEE", 5624>>,
    <<"CANADIAN SYLLABICS CARRIER KHI", 5625>>, <<"CANADIAN SYLLABICS CARRIER KHA", 5626>>,
    <<"CANADIAN SYLLABICS CARRIER KKU", 5627>>, <<"CANADIAN SYLLABICS CARRIER KKO", 5628>>,
    <<"CANADIAN SYLLABICS CARRIER KKE", 5629>>, <<"CANADIAN SYLLABICS CARRIER KKEE", 5630>>,
    <<"CANADIAN SYLLABICS CARRIER KKI", 5631>>, <<"CANADIAN SYLLABICS CARRIER KKA", 5632>>,
    <<"CANADIAN SYLLABICS CARRIER KK", 5633>>, <<"CANADIAN SYLLABICS CARRIER NU", 5634>>,
    <<"CANADIAN SYLLABICS CARRIER NO", 5635>>, <<"CANADIAN SYLLABICS CARRIER NE", 5636>>,
    <<"CANADIAN SYLLABICS CARRIER NEE", 5637>>, <<"CANADIAN SYLLABICS CARRIER NI", 5638>>,
    <<"CANADIAN SYLLABICS CARRIER NA", 5639>>, <<"CANADIAN SYLLABICS CARRIER MU", 5640>>,
    <<"CANADIAN SYLLABICS CARRIER MO", 5641>>, <<"CANADIAN SYLLABICS CARRIER ME", 5642>>,
    <<"CANADIAN SYLLABICS CARRIER MEE", 5643>>, <<"CANADIAN SYLLABICS CARRIER MI", 5644>>,
    <<"CANADIAN SYLLABICS CARRIER MA", 5645>>, <<"CANADIAN SYLLABICS CARRIER YU", 5646>>,
    <<"CANADIAN SYLLABICS CARRIER YO", 5647>>, <<"CANADIAN SYLLABICS CARRIER YE", 5648>>,
    <<"CANADIAN SYLLABICS CARRIER YEE", 5649>>, <<"CANADIAN SYLLABICS CARRIER YI", 5650>>,
    <<"CANADIAN SYLLABICS CARRIER YA", 5651>>, <<"CANADIAN SYLLABICS CARRIER JU", 5652>>,
    <<"CANADIAN SYLLABICS SAYISI JU", 5653>>, <<"CANADIAN SYLLABICS CARRIER JO", 5654>>,
    <<"CANADIAN SYLLABICS CARRIER JE", 5655>>, <<"CANADIAN SYLLABICS CARRIER JEE", 5656>>,
    <<"CANADIAN SYLLABICS CARRIER JI", 5657>>, <<"CANADIAN SYLLABICS SAYISI JI", 5658>>,
    <<"CANADIAN SYLLABICS CARRIER JA", 5659>>, <<"CANADIAN SYLLABICS CARRIER JJU", 5660>>,
    <<"CANADIAN SYLLABICS CARRIER JJO", 5661>>, <<"CANADIAN SYLLABICS CARRIER JJE", 5662>>,
    <<"CANADIAN SYLLABICS CARRIER JJEE", 5663>>, <<"CANADIAN SYLLABICS CARRIER JJI", 5664>>,
    <<"CANADIAN SYLLABICS CARRIER JJA", 5665>>, <<"CANADIAN SYLLABICS CARRIER LU", 5666>>,
    <<"CANADIAN SYLLABICS CARRIER LO", 5667>>, <<"CANADIAN SYLLABICS CARRIER LE", 5668>>,
    <<"CANADIAN SYLLABICS CARRIER LEE", 5669>>, <<"CANADIAN SYLLABICS CARRIER LI", 5670>>,
    <<"CANADIAN SYLLABICS CARRIER LA", 5671>>, <<"CANADIAN SYLLABICS CARRIER DLU", 5672>>,
    <<"CANADIAN SYLLABICS CARRIER DLO", 5673>>, <<"CANADIAN SYLLABICS CARRIER DLE", 5674>>,
    <<"CANADIAN SYLLABICS CARRIER DLEE", 5675>>, <<"CANADIAN SYLLABICS CARRIER DLI", 5676>>,
    <<"CANADIAN SYLLABICS CARRIER DLA", 5677>>, <<"CANADIAN SYLLABICS CARRIER LHU", 5678>>,
    <<"CANADIAN SYLLABICS CARRIER LHO", 5679>>, <<"CANADIAN SYLLABICS CARRIER LHE", 5680>>,
    <<"CANADIAN SYLLABICS CARRIER LHEE", 5681>>, <<"CANADIAN SYLLABICS CARRIER LHI", 5682>>,
    <<"CANADIAN SYLLABICS CARRIER LHA", 5683>>, <<"CANADIAN SYLLABICS CARRIER TLHU", 5684>>,
    <<"CANADIAN SYLLABICS CARRIER TLHO", 5685>>, <<"CANADIAN SYLLABICS CARRIER TLHE", 5686>>,
    <<"CANADIAN SYLLABICS CARRIER TLHEE", 5687>>, <<"CANADIAN SYLLABICS CARRIER TLHI", 5688>>,
    <<"CANADIAN SYLLABICS CARRIER TLHA", 5689>>, <<"CANADIAN SYLLABICS CARRIER TLU", 5690>>,
    <<"CANADIAN SYLLABICS CARRIER TLO", 5691>>, <<"CANADIAN SYLLABICS CARRIER TLE", 5692>>,
    <<"CANADIAN SYLLABICS CARRIER TLEE", 5693>>, <<"CANADIAN SYLLABICS CARRIER TLI", 5694>>,
    <<"CANADIAN SYLLABICS CARRIER TLA", 5695>>, <<"CANADIAN SYLLABICS CARRIER ZU", 5696>>,
    <<"CANADIAN SYLLABICS CARRIER ZO", 5697>>, <<"CANADIAN SYLLABICS CARRIER ZE", 5698>>,
    <<"CANADIAN SYLLABICS CARRIER ZEE", 5699>>, <<"CANADIAN SYLLABICS CARRIER ZI", 5700>>,
    <<"CANADIAN SYLLABICS CARRIER ZA", 5701>>, <<"CANADIAN SYLLABICS CARRIER Z", 5702>>,
    <<"CANADIAN SYLLABICS CARRIER INITIAL Z", 5703>>, <<"CANADIAN SYLLABICS CARRIER DZU", 5704>>,
    <<"CANADIAN SYLLABICS CARRIER DZO", 5705>>, <<"CANADIAN SYLLABICS CARRIER DZE", 5706>>,
    <<"CANADIAN SYLLABICS CARRIER DZEE", 5707>>, <<"CANADIAN SYLLABICS CARRIER DZI", 5708>>,
    <<"CANADIAN SYLLABICS CARRIER DZA", 5709>>, <<"CANADIAN SYLLABICS CARRIER SU", 5710>>,
    <<"CANADIAN SYLLABICS CARRIER SO", 5711>>, <<"CANADIAN SYLLABICS CARRIER SE", 5712>>,
    <<"CANADIAN SYLLABICS CARRIER SEE", 5713>>, <<"CANADIAN SYLLABICS CARRIER SI", 5714>>,
    <<"CANADIAN SYLLABICS CARRIER SA", 5715>>, <<"CANADIAN SYLLABICS CARRIER SHU", 5716>>,
    <<"CANADIAN SYLLABICS CARRIER SHO", 5717>>, <<"CANADIAN SYLLABICS CARRIER SHE", 5718>>,
    <<"CANADIAN SYLLABICS CARRIER SHEE", 5719>>, <<"CANADIAN SYLLABICS CARRIER SHI", 5720>>,
    <<"CANADIAN SYLLABICS CARRIER SHA", 5721>>, <<"CANADIAN SYLLABICS CARRIER SH", 5722>>,
    <<"CANADIAN SYLLABICS CARRIER TSU", 5723>>, <<"CANADIAN SYLLABICS CARRIER TSO", 5724>>,
    <<"CANADIAN SYLLABICS CARRIER TSE", 5725>>, <<"CANADIAN SYLLABICS CARRIER TSEE", 5726>>,
    <<"CANADIAN SYLLABICS CARRIER TSI", 5727>>, <<"CANADIAN SYLLABICS CARRIER TSA", 5728>>,
    <<"CANADIAN SYLLABICS CARRIER CHU", 5729>>, <<"CANADIAN SYLLABICS CARRIER CHO", 5730>>,
    <<"CANADIAN SYLLABICS CARRIER CHE", 5731>>, <<"CANADIAN SYLLABICS CARRIER CHEE", 5732>>,
    <<"CANADIAN SYLLABICS CARRIER CHI", 5733>>, <<"CANADIAN SYLLABICS CARRIER CHA", 5734>>,
    <<"CANADIAN SYLLABICS CARRIER TTSU", 5735>>, <<"CANADIAN SYLLABICS CARRIER TTSO", 5736>>,
    <<"CANADIAN SYLLABICS CARRIER TTSE", 5737>>, <<"CANADIAN SYLLABICS CARRIER TTSEE", 5738>>,
    <<"CANADIAN SYLLABICS CARRIER TTSI", 5739>>, <<"CANADIAN SYLLABICS CARRIER TTSA", 5740>>,
    <<"CANADIAN SYLLABICS CHI SIGN", 5741>>, <<"CANADIAN SYLLABICS FULL STOP", 5742>>,
    <<"CANADIAN SYLLABICS QAI", 5743>>, <<"CANADIAN SYLLABICS NGAI", 5744>>,
    <<"CANADIAN SYLLABICS NNGI", 5745>>, <<"CANADIAN SYLLABICS NNGII", 5746>>,
    <<"CANADIAN SYLLABICS NNGO", 5747>>, <<"CANADIAN SYLLABICS NNGOO", 5748>>,
    <<"CANADIAN SYLLABICS NNGA", 5749>>, <<"CANADIAN SYLLABICS NNGAA", 5750>>,
    <<"CANADIAN SYLLABICS WOODS-CREE THWEE", 5751>>, <<"CANADIAN SYLLABICS WOODS-CREE THWI", 5752>>,
    <<"CANADIAN SYLLABICS WOODS-CREE THWII", 5753>>, <<"CANADIAN SYLLABICS WOODS-CREE THWO", 5754>>,
    <<"CANADIAN SYLLABICS WOODS-CREE THWOO", 5755>>, <<"CANADIAN SYLLABICS WOODS-CREE THWA", 5756>>,
    <<"CANADIAN SYLLABICS WOODS-CREE THWAA", 5757>>,
    <<"CANADIAN SYLLABICS WOODS-CREE FINAL TH", 5758>>, <<"CANADIAN SYLLABICS BLACKFOOT W", 5759>>,
    <<"OGHAM SPACE MARK", 5760>>, <<"OGHAM LETTER BEITH", 5761>>, <<"OGHAM LETTER LUIS", 5762>>,
    <<"OGHAM LETTER FEARN", 5763>>, <<"OGHAM LETTER SAIL", 5764>>, <<"OGHAM LETTER NION", 5765>>,
    <<"OGHAM LETTER UATH", 5766>>, <<"OGHAM LETTER DAIR", 5767>>, <<"OGHAM LETTER TINNE", 5768>>,
    <<"OGHAM LETTER COLL", 5769>>, <<"OGHAM LETTER CEIRT", 5770>>, <<"OGHAM LETTER MUIN", 5771>>,
    <<"OGHAM LETTER GORT", 5772>>, <<"OGHAM LETTER NGEADAL", 5773>>, <<"OGHAM LETTER STRAIF", 5774>>,
    <<"OGHAM LETTER RUIS", 5775>>, <<"OGHAM LETTER AILM", 5776>>, <<"OGHAM LETTER ONN", 5777>>,
    <<"OGHAM LETTER UR", 5778>>, <<"OGHAM LETTER EADHADH", 5779>>, <<"OGHAM LETTER IODHADH", 5780>>,
    <<"OGHAM LETTER EABHADH", 5781>>, <<"OGHAM LETTER OR", 5782>>, <<"OGHAM LETTER UILLEANN", 5783>>,
    <<"OGHAM LETTER IFIN", 5784>>, <<"OGHAM LETTER EAMHANCHOLL", 5785>>,
    <<"OGHAM LETTER PEITH", 5786>>, <<"OGHAM FEATHER MARK", 5787>>,
    <<"OGHAM REVERSED FEATHER MARK", 5788>>, <<"RUNIC LETTER FEHU FEOH FE F", 5792>>,
    <<"RUNIC LETTER V", 5793>>, <<"RUNIC LETTER URUZ UR U", 5794>>, <<"RUNIC LETTER YR", 5795>>,
    <<"RUNIC LETTER Y", 5796>>, <<"RUNIC LETTER W", 5797>>,
    <<"RUNIC LETTER THURISAZ THURS THORN", 5798>>, <<"RUNIC LETTER ETH", 5799>>,
    <<"RUNIC LETTER ANSUZ A", 5800>>, <<"RUNIC LETTER OS O", 5801>>, <<"RUNIC LETTER AC A", 5802>>,
    <<"RUNIC LETTER AESC", 5803>>, <<"RUNIC LETTER LONG-BRANCH-OSS O", 5804>>,
    <<"RUNIC LETTER SHORT-TWIG-OSS O", 5805>>, <<"RUNIC LETTER O", 5806>>, <<"RUNIC LETTER OE", 5807>>,
    <<"RUNIC LETTER ON", 5808>>, <<"RUNIC LETTER RAIDO RAD REID R", 5809>>,
    <<"RUNIC LETTER KAUNA", 5810>>, <<"RUNIC LETTER CEN", 5811>>, <<"RUNIC LETTER KAUN K", 5812>>,
    <<"RUNIC LETTER G", 5813>>, <<"RUNIC LETTER ENG", 5814>>, <<"RUNIC LETTER GEBO GYFU G", 5815>>,
    <<"RUNIC LETTER GAR", 5816>>, <<"RUNIC LETTER WUNJO WYNN W", 5817>>,
    <<"RUNIC LETTER HAGLAZ H", 5818>>, <<"RUNIC LETTER HAEGL H", 5819>>,
    <<"RUNIC LETTER LONG-BRANCH-HAGALL H", 5820>>, <<"RUNIC LETTER SHORT-TWIG-HAGALL H", 5821>>,
    <<"RUNIC LETTER NAUDIZ NYD NAUD N", 5822>>, <<"RUNIC LETTER SHORT-TWIG-NAUD N", 5823>>,
    <<"RUNIC LETTER DOTTED-N", 5824>>, <<"RUNIC LETTER ISAZ IS ISS I", 5825>>,
    <<"RUNIC LETTER E", 5826>>, <<"RUNIC LETTER JERAN J", 5827>>, <<"RUNIC LETTER GER", 5828>>,
    <<"RUNIC LETTER LONG-BRANCH-AR AE", 5829>>, <<"RUNIC LETTER SHORT-TWIG-AR A", 5830>>,
    <<"RUNIC LETTER IWAZ EOH", 5831>>, <<"RUNIC LETTER PERTHO PEORTH P", 5832>>,
    <<"RUNIC LETTER ALGIZ EOLHX", 5833>>, <<"RUNIC LETTER SOWILO S", 5834>>,
    <<"RUNIC LETTER SIGEL LONG-BRANCH-SOL S", 5835>>, <<"RUNIC LETTER SHORT-TWIG-SOL S", 5836>>,
    <<"RUNIC LETTER C", 5837>>, <<"RUNIC LETTER Z", 5838>>, <<"RUNIC LETTER TIWAZ TIR TYR T", 5839>>,
    <<"RUNIC LETTER SHORT-TWIG-TYR T", 5840>>, <<"RUNIC LETTER D", 5841>>,
    <<"RUNIC LETTER BERKANAN BEORC BJARKAN B", 5842>>, <<"RUNIC LETTER SHORT-TWIG-BJARKAN B", 5843>>,
    <<"RUNIC LETTER DOTTED-P", 5844>>, <<"RUNIC LETTER OPEN-P", 5845>>,
    <<"RUNIC LETTER EHWAZ EH E", 5846>>, <<"RUNIC LETTER MANNAZ MAN M", 5847>>,
    <<"RUNIC LETTER LONG-BRANCH-MADR M", 5848>>, <<"RUNIC LETTER SHORT-TWIG-MADR M", 5849>>,
    <<"RUNIC LETTER LAUKAZ LAGU LOGR L", 5850>>, <<"RUNIC LETTER DOTTED-L", 5851>>,
    <<"RUNIC LETTER INGWAZ", 5852>>, <<"RUNIC LETTER ING", 5853>>,
    <<"RUNIC LETTER DAGAZ DAEG D", 5854>>, <<"RUNIC LETTER OTHALAN ETHEL O", 5855>>,
    <<"RUNIC LETTER EAR", 5856>>, <<"RUNIC LETTER IOR", 5857>>, <<"RUNIC LETTER CWEORTH", 5858>>,
    <<"RUNIC LETTER CALC", 5859>>, <<"RUNIC LETTER CEALC", 5860>>, <<"RUNIC LETTER STAN", 5861>>,
    <<"RUNIC LETTER LONG-BRANCH-YR", 5862>>, <<"RUNIC LETTER SHORT-TWIG-YR", 5863>>,
    <<"RUNIC LETTER ICELANDIC-YR", 5864>>, <<"RUNIC LETTER Q", 5865>>, <<"RUNIC LETTER X", 5866>>,
    <<"RUNIC SINGLE PUNCTUATION", 5867>>, <<"RUNIC MULTIPLE PUNCTUATION", 5868>>,
    <<"RUNIC CROSS PUNCTUATION", 5869>>, <<"RUNIC ARLAUG SYMBOL", 5870>>,
    <<"RUNIC TVIMADUR SYMBOL", 5871>>, <<"RUNIC BELGTHOR SYMBOL", 5872>>, <<"RUNIC LETTER K", 5873>>,
    <<"RUNIC LETTER SH", 5874>>, <<"RUNIC LETTER OO", 5875>>,
    <<"RUNIC LETTER FRANKS CASKET OS", 5876>>, <<"RUNIC LETTER FRANKS CASKET IS", 5877>>,
    <<"RUNIC LETTER FRANKS CASKET EH", 5878>>, <<"RUNIC LETTER FRANKS CASKET AC", 5879>>,
    <<"RUNIC LETTER FRANKS CASKET AESC", 5880>>, <<"TAGALOG LETTER A", 5888>>,
    <<"TAGALOG LETTER I", 5889>>, <<"TAGALOG LETTER U", 5890>>, <<"TAGALOG LETTER KA", 5891>>,
    <<"TAGALOG LETTER GA", 5892>>, <<"TAGALOG LETTER NGA", 5893>>, <<"TAGALOG LETTER TA", 5894>>,
    <<"TAGALOG LETTER DA", 5895>>, <<"TAGALOG LETTER NA", 5896>>, <<"TAGALOG LETTER PA", 5897>>,
    <<"TAGALOG LETTER BA", 5898>>, <<"TAGALOG LETTER MA", 5899>>, <<"TAGALOG LETTER YA", 5900>>,
    <<"TAGALOG LETTER RA", 5901>>, <<"TAGALOG LETTER LA", 5902>>, <<"TAGALOG LETTER WA", 5903>>,
    <<"TAGALOG LETTER SA", 5904>>, <<"TAGALOG LETTER HA", 5905>>, <<"TAGALOG VOWEL SIGN I", 5906>>,
    <<"TAGALOG VOWEL SIGN U", 5907>>, <<"TAGALOG SIGN VIRAMA", 5908>>,
    <<"TAGALOG SIGN PAMUDPOD", 5909>>, <<"TAGALOG LETTER ARCHAIC RA", 5919>>,
    <<"HANUNOO LETTER A", 5920>>, <<"HANUNOO LETTER I", 5921>>, <<"HANUNOO LETTER U", 5922>>,
    <<"HANUNOO LETTER KA", 5923>>, <<"HANUNOO LETTER GA", 5924>>, <<"HANUNOO LETTER NGA", 5925>>,
    <<"HANUNOO LETTER TA", 5926>>, <<"HANUNOO LETTER DA", 5927>>, <<"HANUNOO LETTER NA", 5928>>,
    <<"HANUNOO LETTER PA", 5929>>, <<"HANUNOO LETTER BA", 5930>>, <<"HANUNOO LETTER MA", 5931>>,
    <<"HANUNOO LETTER YA", 5932>>, <<"HANUNOO LETTER RA", 5933>>, <<"HANUNOO LETTER LA", 5934>>,
    <<"HANUNOO LETTER WA", 5935>>, <<"HANUNOO LETTER SA", 5936>>, <<"HANUNOO LETTER HA", 5937>>,
    <<"HANUNOO VOWEL SIGN I", 5938>>, <<"HANUNOO VOWEL SIGN U", 5939>>,
    <<"HANUNOO SIGN PAMUDPOD", 5940>>, <<"PHILIPPINE SINGLE PUNCTUATION", 5941>>,
    <<"PHILIPPINE DOUBLE PUNCTUATION", 5942>>, <<"BUHID LETTER A", 5952>>, <<"BUHID LETTER I", 5953>>,
    <<"BUHID LETTER U", 5954>>, <<"BUHID LETTER KA", 5955>>, <<"BUHID LETTER GA", 5956>>,
    <<"BUHID LETTER NGA", 5957>>, <<"BUHID LETTER TA", 5958>>, <<"BUHID LETTER DA", 5959>>,
    <<"BUHID LETTER NA", 5960>>, <<"BUHID LETTER PA", 5961>>, <<"BUHID LETTER BA", 5962>>,
    <<"BUHID LETTER MA", 5963>>, <<"BUHID LETTER YA", 5964>>, <<"BUHID LETTER RA", 5965>>,
    <<"BUHID LETTER LA", 5966>>, <<"BUHID LETTER WA", 5967>>, <<"BUHID LETTER SA", 5968>>,
    <<"BUHID LETTER HA", 5969>>, <<"BUHID VOWEL SIGN I", 5970>>, <<"BUHID VOWEL SIGN U", 5971>>,
    <<"TAGBANWA LETTER A", 5984>>, <<"TAGBANWA LETTER I", 5985>>, <<"TAGBANWA LETTER U", 5986>>,
    <<"TAGBANWA LETTER KA", 5987>>, <<"TAGBANWA LETTER GA", 5988>>, <<"TAGBANWA LETTER NGA", 5989>>,
    <<"TAGBANWA LETTER TA", 5990>>, <<"TAGBANWA LETTER DA", 5991>>, <<"TAGBANWA LETTER NA", 5992>>,
    <<"TAGBANWA LETTER PA", 5993>>, <<"TAGBANWA LETTER BA", 5994>>, <<"TAGBANWA LETTER MA", 5995>>,
    <<"TAGBANWA LETTER YA", 5996>>, <<"TAGBANWA LETTER LA", 5998>>, <<"TAGBANWA LETTER WA", 5999>>,
    <<"TAGBANWA LETTER SA", 6000>>, <<"TAGBANWA VOWEL SIGN I", 6002>>,
    <<"TAGBANWA VOWEL SIGN U", 6003>>, <<"KHMER LETTER KA", 6016>>, <<"KHMER LETTER KHA", 6017>>,
    <<"KHMER LETTER KO", 6018>>, <<"KHMER LETTER KHO", 6019>>, <<"KHMER LETTER NGO", 6020>>,
    <<"KHMER LETTER CA", 6021>>, <<"KHMER LETTER CHA", 6022>>, <<"KHMER LETTER CO", 6023>>,
    <<"KHMER LETTER CHO", 6024>>, <<"KHMER LETTER NYO", 6025>>, <<"KHMER LETTER DA", 6026>>,
    <<"KHMER LETTER TTHA", 6027>>, <<"KHMER LETTER DO", 6028>>, <<"KHMER LETTER TTHO", 6029>>,
    <<"KHMER LETTER NNO", 6030>>, <<"KHMER LETTER TA", 6031>>, <<"KHMER LETTER THA", 6032>>,
    <<"KHMER LETTER TO", 6033>>, <<"KHMER LETTER THO", 6034>>, <<"KHMER LETTER NO", 6035>>,
    <<"KHMER LETTER BA", 6036>>, <<"KHMER LETTER PHA", 6037>>, <<"KHMER LETTER PO", 6038>>,
    <<"KHMER LETTER PHO", 6039>>, <<"KHMER LETTER MO", 6040>>, <<"KHMER LETTER YO", 6041>>,
    <<"KHMER LETTER RO", 6042>>, <<"KHMER LETTER LO", 6043>>, <<"KHMER LETTER VO", 6044>>,
    <<"KHMER LETTER SHA", 6045>>, <<"KHMER LETTER SSO", 6046>>, <<"KHMER LETTER SA", 6047>>,
    <<"KHMER LETTER HA", 6048>>, <<"KHMER LETTER LA", 6049>>, <<"KHMER LETTER QA", 6050>>,
    <<"KHMER INDEPENDENT VOWEL QAQ", 6051>>, <<"KHMER INDEPENDENT VOWEL QAA", 6052>>,
    <<"KHMER INDEPENDENT VOWEL QI", 6053>>, <<"KHMER INDEPENDENT VOWEL QII", 6054>>,
    <<"KHMER INDEPENDENT VOWEL QU", 6055>>, <<"KHMER INDEPENDENT VOWEL QUK", 6056>>,
    <<"KHMER INDEPENDENT VOWEL QUU", 6057>>, <<"KHMER INDEPENDENT VOWEL QUUV", 6058>>,
    <<"KHMER INDEPENDENT VOWEL RY", 6059>>, <<"KHMER INDEPENDENT VOWEL RYY", 6060>>,
    <<"KHMER INDEPENDENT VOWEL LY", 6061>>, <<"KHMER INDEPENDENT VOWEL LYY", 6062>>,
    <<"KHMER INDEPENDENT VOWEL QE", 6063>>, <<"KHMER INDEPENDENT VOWEL QAI", 6064>>,
    <<"KHMER INDEPENDENT VOWEL QOO TYPE ONE", 6065>>, <<"KHMER INDEPENDENT VOWEL QOO TYPE TWO", 6066>>,
    <<"KHMER INDEPENDENT VOWEL QAU", 6067>>, <<"KHMER VOWEL INHERENT AQ", 6068>>,
    <<"KHMER VOWEL INHERENT AA", 6069>>, <<"KHMER VOWEL SIGN AA", 6070>>,
    <<"KHMER VOWEL SIGN I", 6071>>, <<"KHMER VOWEL SIGN II", 6072>>, <<"KHMER VOWEL SIGN Y", 6073>>,
    <<"KHMER VOWEL SIGN YY", 6074>>, <<"KHMER VOWEL SIGN U", 6075>>, <<"KHMER VOWEL SIGN UU", 6076>>,
    <<"KHMER VOWEL SIGN UA", 6077>>, <<"KHMER VOWEL SIGN OE", 6078>>, <<"KHMER VOWEL SIGN YA", 6079>>,
    <<"KHMER VOWEL SIGN IE", 6080>>, <<"KHMER VOWEL SIGN E", 6081>>, <<"KHMER VOWEL SIGN AE", 6082>>,
    <<"KHMER VOWEL SIGN AI", 6083>>, <<"KHMER VOWEL SIGN OO", 6084>>, <<"KHMER VOWEL SIGN AU", 6085>>,
    <<"KHMER SIGN NIKAHIT", 6086>>, <<"KHMER SIGN REAHMUK", 6087>>,
    <<"KHMER SIGN YUUKALEAPINTU", 6088>>, <<"KHMER SIGN MUUSIKATOAN", 6089>>,
    <<"KHMER SIGN TRIISAP", 6090>>, <<"KHMER SIGN BANTOC", 6091>>, <<"KHMER SIGN ROBAT", 6092>>,
    <<"KHMER SIGN TOANDAKHIAT", 6093>>, <<"KHMER SIGN KAKABAT", 6094>>, <<"KHMER SIGN AHSDA", 6095>>,
    <<"KHMER SIGN SAMYOK SANNYA", 6096>>, <<"KHMER SIGN VIRIAM", 6097>>, <<"KHMER SIGN COENG", 6098>>,
    <<"KHMER SIGN BATHAMASAT", 6099>>, <<"KHMER SIGN KHAN", 6100>>, <<"KHMER SIGN BARIYOOSAN", 6101>>,
    <<"KHMER SIGN CAMNUC PII KUUH", 6102>>, <<"KHMER SIGN LEK TOO", 6103>>,
    <<"KHMER SIGN BEYYAL", 6104>>, <<"KHMER SIGN PHNAEK MUAN", 6105>>, <<"KHMER SIGN KOOMUUT", 6106>>,
    <<"KHMER CURRENCY SYMBOL RIEL", 6107>>, <<"KHMER SIGN AVAKRAHASANYA", 6108>>,
    <<"KHMER SIGN ATTHACAN", 6109>>, <<"KHMER DIGIT ZERO", 6112>>, <<"KHMER DIGIT ONE", 6113>>,
    <<"KHMER DIGIT TWO", 6114>>, <<"KHMER DIGIT THREE", 6115>>, <<"KHMER DIGIT FOUR", 6116>>,
    <<"KHMER DIGIT FIVE", 6117>>, <<"KHMER DIGIT SIX", 6118>>, <<"KHMER DIGIT SEVEN", 6119>>,
    <<"KHMER DIGIT EIGHT", 6120>>, <<"KHMER DIGIT NINE", 6121>>,
    <<"KHMER SYMBOL LEK ATTAK SON", 6128>>, <<"KHMER SYMBOL LEK ATTAK MUOY", 6129>>,
    <<"KHMER SYMBOL LEK ATTAK PII", 6130>>, <<"KHMER SYMBOL LEK ATTAK BEI", 6131>>,
    <<"KHMER SYMBOL LEK ATTAK BUON", 6132>>, <<"KHMER SYMBOL LEK ATTAK PRAM", 6133>>,
    <<"KHMER SYMBOL LEK ATTAK PRAM-MUOY", 6134>>, <<"KHMER SYMBOL LEK ATTAK PRAM-PII", 6135>>,
    <<"KHMER SYMBOL LEK ATTAK PRAM-BEI", 6136>>, <<"KHMER SYMBOL LEK ATTAK PRAM-BUON", 6137>>,
    <<"MONGOLIAN BIRGA", 6144>>, <<"MONGOLIAN ELLIPSIS", 6145>>, <<"MONGOLIAN COMMA", 6146>>,
    <<"MONGOLIAN FULL STOP", 6147>>, <<"MONGOLIAN COLON", 6148>>, <<"MONGOLIAN FOUR DOTS", 6149>>,
    <<"MONGOLIAN TODO SOFT HYPHEN", 6150>>, <<"MONGOLIAN SIBE SYLLABLE BOUNDARY MARKER", 6151>>,
    <<"MONGOLIAN MANCHU COMMA", 6152>>, <<"MONGOLIAN MANCHU FULL STOP", 6153>>,
    <<"MONGOLIAN NIRUGU", 6154>>, <<"FVS1", 6155>>, <<"MONGOLIAN FREE VARIATION SELECTOR ONE", 6155>>,
    <<"FVS2", 6156>>, <<"MONGOLIAN FREE VARIATION SELECTOR TWO", 6156>>, <<"FVS3", 6157>>,
    <<"MONGOLIAN FREE VARIATION SELECTOR THREE", 6157>>, <<"MONGOLIAN VOWEL SEPARATOR", 6158>>,
    <<"MVS", 6158>>, <<"FVS4", 6159>>, <<"MONGOLIAN FREE VARIATION SELECTOR FOUR", 6159>>,
    <<"MONGOLIAN DIGIT ZERO", 6160>>, <<"MONGOLIAN DIGIT ONE", 6161>>, <<"MONGOLIAN DIGIT TWO", 6162>>,
    <<"MONGOLIAN DIGIT THREE", 6163>>, <<"MONGOLIAN DIGIT FOUR", 6164>>,
    <<"MONGOLIAN DIGIT FIVE", 6165>>, <<"MONGOLIAN DIGIT SIX", 6166>>,
    <<"MONGOLIAN DIGIT SEVEN", 6167>>, <<"MONGOLIAN DIGIT EIGHT", 6168>>,
    <<"MONGOLIAN DIGIT NINE", 6169>>, <<"MONGOLIAN LETTER A", 6176>>, <<"MONGOLIAN LETTER E", 6177>>,
    <<"MONGOLIAN LETTER I", 6178>>, <<"MONGOLIAN LETTER O", 6179>>, <<"MONGOLIAN LETTER U", 6180>>,
    <<"MONGOLIAN LETTER OE", 6181>>, <<"MONGOLIAN LETTER UE", 6182>>, <<"MONGOLIAN LETTER EE", 6183>>,
    <<"MONGOLIAN LETTER NA", 6184>>, <<"MONGOLIAN LETTER ANG", 6185>>, <<"MONGOLIAN LETTER BA", 6186>>,
    <<"MONGOLIAN LETTER PA", 6187>>, <<"MONGOLIAN LETTER QA", 6188>>, <<"MONGOLIAN LETTER GA", 6189>>,
    <<"MONGOLIAN LETTER MA", 6190>>, <<"MONGOLIAN LETTER LA", 6191>>, <<"MONGOLIAN LETTER SA", 6192>>,
    <<"MONGOLIAN LETTER SHA", 6193>>, <<"MONGOLIAN LETTER TA", 6194>>, <<"MONGOLIAN LETTER DA", 6195>>,
    <<"MONGOLIAN LETTER CHA", 6196>>, <<"MONGOLIAN LETTER JA", 6197>>, <<"MONGOLIAN LETTER YA", 6198>>,
    <<"MONGOLIAN LETTER RA", 6199>>, <<"MONGOLIAN LETTER WA", 6200>>, <<"MONGOLIAN LETTER FA", 6201>>,
    <<"MONGOLIAN LETTER KA", 6202>>, <<"MONGOLIAN LETTER KHA", 6203>>,
    <<"MONGOLIAN LETTER TSA", 6204>>, <<"MONGOLIAN LETTER ZA", 6205>>,
    <<"MONGOLIAN LETTER HAA", 6206>>, <<"MONGOLIAN LETTER ZRA", 6207>>,
    <<"MONGOLIAN LETTER LHA", 6208>>, <<"MONGOLIAN LETTER ZHI", 6209>>,
    <<"MONGOLIAN LETTER CHI", 6210>>, <<"MONGOLIAN LETTER TODO LONG VOWEL SIGN", 6211>>,
    <<"MONGOLIAN LETTER TODO E", 6212>>, <<"MONGOLIAN LETTER TODO I", 6213>>,
    <<"MONGOLIAN LETTER TODO O", 6214>>, <<"MONGOLIAN LETTER TODO U", 6215>>,
    <<"MONGOLIAN LETTER TODO OE", 6216>>, <<"MONGOLIAN LETTER TODO UE", 6217>>,
    <<"MONGOLIAN LETTER TODO ANG", 6218>>, <<"MONGOLIAN LETTER TODO BA", 6219>>,
    <<"MONGOLIAN LETTER TODO PA", 6220>>, <<"MONGOLIAN LETTER TODO QA", 6221>>,
    <<"MONGOLIAN LETTER TODO GA", 6222>>, <<"MONGOLIAN LETTER TODO MA", 6223>>,
    <<"MONGOLIAN LETTER TODO TA", 6224>>, <<"MONGOLIAN LETTER TODO DA", 6225>>,
    <<"MONGOLIAN LETTER TODO CHA", 6226>>, <<"MONGOLIAN LETTER TODO JA", 6227>>,
    <<"MONGOLIAN LETTER TODO TSA", 6228>>, <<"MONGOLIAN LETTER TODO YA", 6229>>,
    <<"MONGOLIAN LETTER TODO WA", 6230>>, <<"MONGOLIAN LETTER TODO KA", 6231>>,
    <<"MONGOLIAN LETTER TODO GAA", 6232>>, <<"MONGOLIAN LETTER TODO HAA", 6233>>,
    <<"MONGOLIAN LETTER TODO JIA", 6234>>, <<"MONGOLIAN LETTER TODO NIA", 6235>>,
    <<"MONGOLIAN LETTER TODO DZA", 6236>>, <<"MONGOLIAN LETTER SIBE E", 6237>>,
    <<"MONGOLIAN LETTER SIBE I", 6238>>, <<"MONGOLIAN LETTER SIBE IY", 6239>>,
    <<"MONGOLIAN LETTER SIBE UE", 6240>>, <<"MONGOLIAN LETTER SIBE U", 6241>>,
    <<"MONGOLIAN LETTER SIBE ANG", 6242>>, <<"MONGOLIAN LETTER SIBE KA", 6243>>,
    <<"MONGOLIAN LETTER SIBE GA", 6244>>, <<"MONGOLIAN LETTER SIBE HA", 6245>>,
    <<"MONGOLIAN LETTER SIBE PA", 6246>>, <<"MONGOLIAN LETTER SIBE SHA", 6247>>,
    <<"MONGOLIAN LETTER SIBE TA", 6248>>, <<"MONGOLIAN LETTER SIBE DA", 6249>>,
    <<"MONGOLIAN LETTER SIBE JA", 6250>>, <<"MONGOLIAN LETTER SIBE FA", 6251>>,
    <<"MONGOLIAN LETTER SIBE GAA", 6252>>, <<"MONGOLIAN LETTER SIBE HAA", 6253>>,
    <<"MONGOLIAN LETTER SIBE TSA", 6254>>, <<"MONGOLIAN LETTER SIBE ZA", 6255>>,
    <<"MONGOLIAN LETTER SIBE RAA", 6256>>, <<"MONGOLIAN LETTER SIBE CHA", 6257>>,
    <<"MONGOLIAN LETTER SIBE ZHA", 6258>>, <<"MONGOLIAN LETTER MANCHU I", 6259>>,
    <<"MONGOLIAN LETTER MANCHU KA", 6260>>, <<"MONGOLIAN LETTER MANCHU RA", 6261>>,
    <<"MONGOLIAN LETTER MANCHU FA", 6262>>, <<"MONGOLIAN LETTER MANCHU ZHA", 6263>>,
    <<"MONGOLIAN LETTER CHA WITH TWO DOTS", 6264>>, <<"MONGOLIAN LETTER ALI GALI ANUSVARA ONE", 6272>>,
    <<"MONGOLIAN LETTER ALI GALI VISARGA ONE", 6273>>, <<"MONGOLIAN LETTER ALI GALI DAMARU", 6274>>,
    <<"MONGOLIAN LETTER ALI GALI UBADAMA", 6275>>,
    <<"MONGOLIAN LETTER ALI GALI INVERTED UBADAMA", 6276>>,
    <<"MONGOLIAN LETTER ALI GALI BALUDA", 6277>>, <<"MONGOLIAN LETTER ALI GALI THREE BALUDA", 6278>>,
    <<"MONGOLIAN LETTER ALI GALI A", 6279>>, <<"MONGOLIAN LETTER ALI GALI I", 6280>>,
    <<"MONGOLIAN LETTER ALI GALI KA", 6281>>, <<"MONGOLIAN LETTER ALI GALI NGA", 6282>>,
    <<"MONGOLIAN LETTER ALI GALI CA", 6283>>, <<"MONGOLIAN LETTER ALI GALI TTA", 6284>>,
    <<"MONGOLIAN LETTER ALI GALI TTHA", 6285>>, <<"MONGOLIAN LETTER ALI GALI DDA", 6286>>,
    <<"MONGOLIAN LETTER ALI GALI NNA", 6287>>, <<"MONGOLIAN LETTER ALI GALI TA", 6288>>,
    <<"MONGOLIAN LETTER ALI GALI DA", 6289>>, <<"MONGOLIAN LETTER ALI GALI PA", 6290>>,
    <<"MONGOLIAN LETTER ALI GALI PHA", 6291>>, <<"MONGOLIAN LETTER ALI GALI SSA", 6292>>,
    <<"MONGOLIAN LETTER ALI GALI ZHA", 6293>>, <<"MONGOLIAN LETTER ALI GALI ZA", 6294>>,
    <<"MONGOLIAN LETTER ALI GALI AH", 6295>>, <<"MONGOLIAN LETTER TODO ALI GALI TA", 6296>>,
    <<"MONGOLIAN LETTER TODO ALI GALI ZHA", 6297>>, <<"MONGOLIAN LETTER MANCHU ALI GALI GHA", 6298>>,
    <<"MONGOLIAN LETTER MANCHU ALI GALI NGA", 6299>>, <<"MONGOLIAN LETTER MANCHU ALI GALI CA", 6300>>,
    <<"MONGOLIAN LETTER MANCHU ALI GALI JHA", 6301>>, <<"MONGOLIAN LETTER MANCHU ALI GALI TTA", 6302>>,
    <<"MONGOLIAN LETTER MANCHU ALI GALI DDHA", 6303>>, <<"MONGOLIAN LETTER MANCHU ALI GALI TA", 6304>>,
    <<"MONGOLIAN LETTER MANCHU ALI GALI DHA", 6305>>, <<"MONGOLIAN LETTER MANCHU ALI GALI SSA", 6306>>,
    <<"MONGOLIAN LETTER MANCHU ALI GALI CYA", 6307>>, <<"MONGOLIAN LETTER MANCHU ALI GALI ZHA", 6308>>,
    <<"MONGOLIAN LETTER MANCHU ALI GALI ZA", 6309>>, <<"MONGOLIAN LETTER ALI GALI HALF U", 6310>>,
    <<"MONGOLIAN LETTER ALI GALI HALF YA", 6311>>, <<"MONGOLIAN LETTER MANCHU ALI GALI BHA", 6312>>,
    <<"MONGOLIAN LETTER ALI GALI DAGALGA", 6313>>, <<"MONGOLIAN LETTER MANCHU ALI GALI LHA", 6314>>,
    <<"CANADIAN SYLLABICS OY", 6320>>, <<"CANADIAN SYLLABICS AY", 6321>>,
    <<"CANADIAN SYLLABICS AAY", 6322>>, <<"CANADIAN SYLLABICS WAY", 6323>>,
    <<"CANADIAN SYLLABICS POY", 6324>>, <<"CANADIAN SYLLABICS PAY", 6325>>,
    <<"CANADIAN SYLLABICS PWOY", 6326>>, <<"CANADIAN SYLLABICS TAY", 6327>>,
    <<"CANADIAN SYLLABICS KAY", 6328>>, <<"CANADIAN SYLLABICS KWAY", 6329>>,
    <<"CANADIAN SYLLABICS MAY", 6330>>, <<"CANADIAN SYLLABICS NOY", 6331>>,
    <<"CANADIAN SYLLABICS NAY", 6332>>, <<"CANADIAN SYLLABICS LAY", 6333>>,
    <<"CANADIAN SYLLABICS SOY", 6334>>, <<"CANADIAN SYLLABICS SAY", 6335>>,
    <<"CANADIAN SYLLABICS SHOY", 6336>>, <<"CANADIAN SYLLABICS SHAY", 6337>>,
    <<"CANADIAN SYLLABICS SHWOY", 6338>>, <<"CANADIAN SYLLABICS YOY", 6339>>,
    <<"CANADIAN SYLLABICS YAY", 6340>>, <<"CANADIAN SYLLABICS RAY", 6341>>,
    <<"CANADIAN SYLLABICS NWI", 6342>>, <<"CANADIAN SYLLABICS OJIBWAY NWI", 6343>>,
    <<"CANADIAN SYLLABICS NWII", 6344>>, <<"CANADIAN SYLLABICS OJIBWAY NWII", 6345>>,
    <<"CANADIAN SYLLABICS NWO", 6346>>, <<"CANADIAN SYLLABICS OJIBWAY NWO", 6347>>,
    <<"CANADIAN SYLLABICS NWOO", 6348>>, <<"CANADIAN SYLLABICS OJIBWAY NWOO", 6349>>,
    <<"CANADIAN SYLLABICS RWEE", 6350>>, <<"CANADIAN SYLLABICS RWI", 6351>>,
    <<"CANADIAN SYLLABICS RWII", 6352>>, <<"CANADIAN SYLLABICS RWO", 6353>>,
    <<"CANADIAN SYLLABICS RWOO", 6354>>, <<"CANADIAN SYLLABICS RWA", 6355>>,
    <<"CANADIAN SYLLABICS OJIBWAY P", 6356>>, <<"CANADIAN SYLLABICS OJIBWAY T", 6357>>,
    <<"CANADIAN SYLLABICS OJIBWAY K", 6358>>, <<"CANADIAN SYLLABICS OJIBWAY C", 6359>>,
    <<"CANADIAN SYLLABICS OJIBWAY M", 6360>>, <<"CANADIAN SYLLABICS OJIBWAY N", 6361>>,
    <<"CANADIAN SYLLABICS OJIBWAY S", 6362>>, <<"CANADIAN SYLLABICS OJIBWAY SH", 6363>>,
    <<"CANADIAN SYLLABICS EASTERN W", 6364>>, <<"CANADIAN SYLLABICS WESTERN W", 6365>>,
    <<"CANADIAN SYLLABICS FINAL SMALL RING", 6366>>, <<"CANADIAN SYLLABICS FINAL RAISED DOT", 6367>>,
    <<"CANADIAN SYLLABICS R-CREE RWE", 6368>>, <<"CANADIAN SYLLABICS WEST-CREE LOO", 6369>>,
    <<"CANADIAN SYLLABICS WEST-CREE LAA", 6370>>, <<"CANADIAN SYLLABICS THWE", 6371>>,
    <<"CANADIAN SYLLABICS THWA", 6372>>, <<"CANADIAN SYLLABICS TTHWE", 6373>>,
    <<"CANADIAN SYLLABICS TTHOO", 6374>>, <<"CANADIAN SYLLABICS TTHAA", 6375>>,
    <<"CANADIAN SYLLABICS TLHWE", 6376>>, <<"CANADIAN SYLLABICS TLHOO", 6377>>,
    <<"CANADIAN SYLLABICS SAYISI SHWE", 6378>>, <<"CANADIAN SYLLABICS SAYISI SHOO", 6379>>,
    <<"CANADIAN SYLLABICS SAYISI HOO", 6380>>, <<"CANADIAN SYLLABICS CARRIER GWU", 6381>>,
    <<"CANADIAN SYLLABICS CARRIER DENE GEE", 6382>>, <<"CANADIAN SYLLABICS CARRIER GAA", 6383>>,
    <<"CANADIAN SYLLABICS CARRIER GWA", 6384>>, <<"CANADIAN SYLLABICS SAYISI JUU", 6385>>,
    <<"CANADIAN SYLLABICS CARRIER JWA", 6386>>, <<"CANADIAN SYLLABICS BEAVER DENE L", 6387>>,
    <<"CANADIAN SYLLABICS BEAVER DENE R", 6388>>, <<"CANADIAN SYLLABICS CARRIER DENTAL S", 6389>>,
    <<"LIMBU VOWEL-CARRIER LETTER", 6400>>, <<"LIMBU LETTER KA", 6401>>, <<"LIMBU LETTER KHA", 6402>>,
    <<"LIMBU LETTER GA", 6403>>, <<"LIMBU LETTER GHA", 6404>>, <<"LIMBU LETTER NGA", 6405>>,
    <<"LIMBU LETTER CA", 6406>>, <<"LIMBU LETTER CHA", 6407>>, <<"LIMBU LETTER JA", 6408>>,
    <<"LIMBU LETTER JHA", 6409>>, <<"LIMBU LETTER YAN", 6410>>, <<"LIMBU LETTER TA", 6411>>,
    <<"LIMBU LETTER THA", 6412>>, <<"LIMBU LETTER DA", 6413>>, <<"LIMBU LETTER DHA", 6414>>,
    <<"LIMBU LETTER NA", 6415>>, <<"LIMBU LETTER PA", 6416>>, <<"LIMBU LETTER PHA", 6417>>,
    <<"LIMBU LETTER BA", 6418>>, <<"LIMBU LETTER BHA", 6419>>, <<"LIMBU LETTER MA", 6420>>,
    <<"LIMBU LETTER YA", 6421>>, <<"LIMBU LETTER RA", 6422>>, <<"LIMBU LETTER LA", 6423>>,
    <<"LIMBU LETTER WA", 6424>>, <<"LIMBU LETTER SHA", 6425>>, <<"LIMBU LETTER SSA", 6426>>,
    <<"LIMBU LETTER SA", 6427>>, <<"LIMBU LETTER HA", 6428>>, <<"LIMBU LETTER GYAN", 6429>>,
    <<"LIMBU LETTER TRA", 6430>>, <<"LIMBU VOWEL SIGN A", 6432>>, <<"LIMBU VOWEL SIGN I", 6433>>,
    <<"LIMBU VOWEL SIGN U", 6434>>, <<"LIMBU VOWEL SIGN EE", 6435>>, <<"LIMBU VOWEL SIGN AI", 6436>>,
    <<"LIMBU VOWEL SIGN OO", 6437>>, <<"LIMBU VOWEL SIGN AU", 6438>>, <<"LIMBU VOWEL SIGN E", 6439>>,
    <<"LIMBU VOWEL SIGN O", 6440>>, <<"LIMBU SUBJOINED LETTER YA", 6441>>,
    <<"LIMBU SUBJOINED LETTER RA", 6442>>, <<"LIMBU SUBJOINED LETTER WA", 6443>>,
    <<"LIMBU SMALL LETTER KA", 6448>>, <<"LIMBU SMALL LETTER NGA", 6449>>,
    <<"LIMBU SMALL LETTER ANUSVARA", 6450>>, <<"LIMBU SMALL LETTER TA", 6451>>,
    <<"LIMBU SMALL LETTER NA", 6452>>, <<"LIMBU SMALL LETTER PA", 6453>>,
    <<"LIMBU SMALL LETTER MA", 6454>>, <<"LIMBU SMALL LETTER RA", 6455>>,
    <<"LIMBU SMALL LETTER LA", 6456>>, <<"LIMBU SIGN MUKPHRENG", 6457>>,
    <<"LIMBU SIGN KEMPHRENG", 6458>>, <<"LIMBU SIGN SA-I", 6459>>, <<"LIMBU SIGN LOO", 6464>>,
    <<"LIMBU EXCLAMATION MARK", 6468>>, <<"LIMBU QUESTION MARK", 6469>>, <<"LIMBU DIGIT ZERO", 6470>>,
    <<"LIMBU DIGIT ONE", 6471>>, <<"LIMBU DIGIT TWO", 6472>>, <<"LIMBU DIGIT THREE", 6473>>,
    <<"LIMBU DIGIT FOUR", 6474>>, <<"LIMBU DIGIT FIVE", 6475>>, <<"LIMBU DIGIT SIX", 6476>>,
    <<"LIMBU DIGIT SEVEN", 6477>>, <<"LIMBU DIGIT EIGHT", 6478>>, <<"LIMBU DIGIT NINE", 6479>>,
    <<"TAI LE LETTER KA", 6480>>, <<"TAI LE LETTER XA", 6481>>, <<"TAI LE LETTER NGA", 6482>>,
    <<"TAI LE LETTER TSA", 6483>>, <<"TAI LE LETTER SA", 6484>>, <<"TAI LE LETTER YA", 6485>>,
    <<"TAI LE LETTER TA", 6486>>, <<"TAI LE LETTER THA", 6487>>, <<"TAI LE LETTER LA", 6488>>,
    <<"TAI LE LETTER PA", 6489>>, <<"TAI LE LETTER PHA", 6490>>, <<"TAI LE LETTER MA", 6491>>,
    <<"TAI LE LETTER FA", 6492>>, <<"TAI LE LETTER VA", 6493>>, <<"TAI LE LETTER HA", 6494>>,
    <<"TAI LE LETTER QA", 6495>>, <<"TAI LE LETTER KHA", 6496>>, <<"TAI LE LETTER TSHA", 6497>>,
    <<"TAI LE LETTER NA", 6498>>, <<"TAI LE LETTER A", 6499>>, <<"TAI LE LETTER I", 6500>>,
    <<"TAI LE LETTER EE", 6501>>, <<"TAI LE LETTER EH", 6502>>, <<"TAI LE LETTER U", 6503>>,
    <<"TAI LE LETTER OO", 6504>>, <<"TAI LE LETTER O", 6505>>, <<"TAI LE LETTER UE", 6506>>,
    <<"TAI LE LETTER E", 6507>>, <<"TAI LE LETTER AUE", 6508>>, <<"TAI LE LETTER AI", 6509>>,
    <<"TAI LE LETTER TONE-2", 6512>>, <<"TAI LE LETTER TONE-3", 6513>>,
    <<"TAI LE LETTER TONE-4", 6514>>, <<"TAI LE LETTER TONE-5", 6515>>,
    <<"TAI LE LETTER TONE-6", 6516>>, <<"NEW TAI LUE LETTER HIGH QA", 6528>>,
    <<"NEW TAI LUE LETTER LOW QA", 6529>>, <<"NEW TAI LUE LETTER HIGH KA", 6530>>,
    <<"NEW TAI LUE LETTER HIGH XA", 6531>>, <<"NEW TAI LUE LETTER HIGH NGA", 6532>>,
    <<"NEW TAI LUE LETTER LOW KA", 6533>>, <<"NEW TAI LUE LETTER LOW XA", 6534>>,
    <<"NEW TAI LUE LETTER LOW NGA", 6535>>, <<"NEW TAI LUE LETTER HIGH TSA", 6536>>,
    <<"NEW TAI LUE LETTER HIGH SA", 6537>>, <<"NEW TAI LUE LETTER HIGH YA", 6538>>,
    <<"NEW TAI LUE LETTER LOW TSA", 6539>>, <<"NEW TAI LUE LETTER LOW SA", 6540>>,
    <<"NEW TAI LUE LETTER LOW YA", 6541>>, <<"NEW TAI LUE LETTER HIGH TA", 6542>>,
    <<"NEW TAI LUE LETTER HIGH THA", 6543>>, <<"NEW TAI LUE LETTER HIGH NA", 6544>>,
    <<"NEW TAI LUE LETTER LOW TA", 6545>>, <<"NEW TAI LUE LETTER LOW THA", 6546>>,
    <<"NEW TAI LUE LETTER LOW NA", 6547>>, <<"NEW TAI LUE LETTER HIGH PA", 6548>>,
    <<"NEW TAI LUE LETTER HIGH PHA", 6549>>, <<"NEW TAI LUE LETTER HIGH MA", 6550>>,
    <<"NEW TAI LUE LETTER LOW PA", 6551>>, <<"NEW TAI LUE LETTER LOW PHA", 6552>>,
    <<"NEW TAI LUE LETTER LOW MA", 6553>>, <<"NEW TAI LUE LETTER HIGH FA", 6554>>,
    <<"NEW TAI LUE LETTER HIGH VA", 6555>>, <<"NEW TAI LUE LETTER HIGH LA", 6556>>,
    <<"NEW TAI LUE LETTER LOW FA", 6557>>, <<"NEW TAI LUE LETTER LOW VA", 6558>>,
    <<"NEW TAI LUE LETTER LOW LA", 6559>>, <<"NEW TAI LUE LETTER HIGH HA", 6560>>,
    <<"NEW TAI LUE LETTER HIGH DA", 6561>>, <<"NEW TAI LUE LETTER HIGH BA", 6562>>,
    <<"NEW TAI LUE LETTER LOW HA", 6563>>, <<"NEW TAI LUE LETTER LOW DA", 6564>>,
    <<"NEW TAI LUE LETTER LOW BA", 6565>>, <<"NEW TAI LUE LETTER HIGH KVA", 6566>>,
    <<"NEW TAI LUE LETTER HIGH XVA", 6567>>, <<"NEW TAI LUE LETTER LOW KVA", 6568>>,
    <<"NEW TAI LUE LETTER LOW XVA", 6569>>, <<"NEW TAI LUE LETTER HIGH SUA", 6570>>,
    <<"NEW TAI LUE LETTER LOW SUA", 6571>>, <<"NEW TAI LUE VOWEL SIGN VOWEL SHORTENER", 6576>>,
    <<"NEW TAI LUE VOWEL SIGN AA", 6577>>, <<"NEW TAI LUE VOWEL SIGN II", 6578>>,
    <<"NEW TAI LUE VOWEL SIGN U", 6579>>, <<"NEW TAI LUE VOWEL SIGN UU", 6580>>,
    <<"NEW TAI LUE VOWEL SIGN E", 6581>>, <<"NEW TAI LUE VOWEL SIGN AE", 6582>>,
    <<"NEW TAI LUE VOWEL SIGN O", 6583>>, <<"NEW TAI LUE VOWEL SIGN OA", 6584>>,
    <<"NEW TAI LUE VOWEL SIGN UE", 6585>>, <<"NEW TAI LUE VOWEL SIGN AY", 6586>>,
    <<"NEW TAI LUE VOWEL SIGN AAY", 6587>>, <<"NEW TAI LUE VOWEL SIGN UY", 6588>>,
    <<"NEW TAI LUE VOWEL SIGN OY", 6589>>, <<"NEW TAI LUE VOWEL SIGN OAY", 6590>>,
    <<"NEW TAI LUE VOWEL SIGN UEY", 6591>>, <<"NEW TAI LUE VOWEL SIGN IY", 6592>>,
    <<"NEW TAI LUE LETTER FINAL V", 6593>>, <<"NEW TAI LUE LETTER FINAL NG", 6594>>,
    <<"NEW TAI LUE LETTER FINAL N", 6595>>, <<"NEW TAI LUE LETTER FINAL M", 6596>>,
    <<"NEW TAI LUE LETTER FINAL K", 6597>>, <<"NEW TAI LUE LETTER FINAL D", 6598>>,
    <<"NEW TAI LUE LETTER FINAL B", 6599>>, <<"NEW TAI LUE TONE MARK-1", 6600>>,
    <<"NEW TAI LUE TONE MARK-2", 6601>>, <<"NEW TAI LUE DIGIT ZERO", 6608>>,
    <<"NEW TAI LUE DIGIT ONE", 6609>>, <<"NEW TAI LUE DIGIT TWO", 6610>>,
    <<"NEW TAI LUE DIGIT THREE", 6611>>, <<"NEW TAI LUE DIGIT FOUR", 6612>>,
    <<"NEW TAI LUE DIGIT FIVE", 6613>>, <<"NEW TAI LUE DIGIT SIX", 6614>>,
    <<"NEW TAI LUE DIGIT SEVEN", 6615>>, <<"NEW TAI LUE DIGIT EIGHT", 6616>>,
    <<"NEW TAI LUE DIGIT NINE", 6617>>, <<"NEW TAI LUE THAM DIGIT ONE", 6618>>,
    <<"NEW TAI LUE SIGN LAE", 6622>>, <<"NEW TAI LUE SIGN LAEV", 6623>>,
    <<"KHMER SYMBOL PATHAMASAT", 6624>>, <<"KHMER SYMBOL MUOY KOET", 6625>>,
    <<"KHMER SYMBOL PII KOET", 6626>>, <<"KHMER SYMBOL BEI KOET", 6627>>,
    <<"KHMER SYMBOL BUON KOET", 6628>>, <<"KHMER SYMBOL PRAM KOET", 6629>>,
    <<"KHMER SYMBOL PRAM-MUOY KOET", 6630>>, <<"KHMER SYMBOL PRAM-PII KOET", 6631>>,
    <<"KHMER SYMBOL PRAM-BEI KOET", 6632>>, <<"KHMER SYMBOL PRAM-BUON KOET", 6633>>,
    <<"KHMER SYMBOL DAP KOET", 6634>>, <<"KHMER SYMBOL DAP-MUOY KOET", 6635>>,
    <<"KHMER SYMBOL DAP-PII KOET", 6636>>, <<"KHMER SYMBOL DAP-BEI KOET", 6637>>,
    <<"KHMER SYMBOL DAP-BUON KOET", 6638>>, <<"KHMER SYMBOL DAP-PRAM KOET", 6639>>,
    <<"KHMER SYMBOL TUTEYASAT", 6640>>, <<"KHMER SYMBOL MUOY ROC", 6641>>,
    <<"KHMER SYMBOL PII ROC", 6642>>, <<"KHMER SYMBOL BEI ROC", 6643>>,
    <<"KHMER SYMBOL BUON ROC", 6644>>, <<"KHMER SYMBOL PRAM ROC", 6645>>,
    <<"KHMER SYMBOL PRAM-MUOY ROC", 6646>>, <<"KHMER SYMBOL PRAM-PII ROC", 6647>>,
    <<"KHMER SYMBOL PRAM-BEI ROC", 6648>>, <<"KHMER SYMBOL PRAM-BUON ROC", 6649>>,
    <<"KHMER SYMBOL DAP ROC", 6650>>, <<"KHMER SYMBOL DAP-MUOY ROC", 6651>>,
    <<"KHMER SYMBOL DAP-PII ROC", 6652>>, <<"KHMER SYMBOL DAP-BEI ROC", 6653>>,
    <<"KHMER SYMBOL DAP-BUON ROC", 6654>>, <<"KHMER SYMBOL DAP-PRAM ROC", 6655>>,
    <<"BUGINESE LETTER KA", 6656>>, <<"BUGINESE LETTER GA", 6657>>, <<"BUGINESE LETTER NGA", 6658>>,
    <<"BUGINESE LETTER NGKA", 6659>>, <<"BUGINESE LETTER PA", 6660>>, <<"BUGINESE LETTER BA", 6661>>,
    <<"BUGINESE LETTER MA", 6662>>, <<"BUGINESE LETTER MPA", 6663>>, <<"BUGINESE LETTER TA", 6664>>,
    <<"BUGINESE LETTER DA", 6665>>, <<"BUGINESE LETTER NA", 6666>>, <<"BUGINESE LETTER NRA", 6667>>,
    <<"BUGINESE LETTER CA", 6668>>, <<"BUGINESE LETTER JA", 6669>>, <<"BUGINESE LETTER NYA", 6670>>,
    <<"BUGINESE LETTER NYCA", 6671>>, <<"BUGINESE LETTER YA", 6672>>, <<"BUGINESE LETTER RA", 6673>>,
    <<"BUGINESE LETTER LA", 6674>>, <<"BUGINESE LETTER VA", 6675>>, <<"BUGINESE LETTER SA", 6676>>,
    <<"BUGINESE LETTER A", 6677>>, <<"BUGINESE LETTER HA", 6678>>, <<"BUGINESE VOWEL SIGN I", 6679>>,
    <<"BUGINESE VOWEL SIGN U", 6680>>, <<"BUGINESE VOWEL SIGN E", 6681>>,
    <<"BUGINESE VOWEL SIGN O", 6682>>, <<"BUGINESE VOWEL SIGN AE", 6683>>,
    <<"BUGINESE PALLAWA", 6686>>, <<"BUGINESE END OF SECTION", 6687>>,
    <<"TAI THAM LETTER HIGH KA", 6688>>, <<"TAI THAM LETTER HIGH KHA", 6689>>,
    <<"TAI THAM LETTER HIGH KXA", 6690>>, <<"TAI THAM LETTER LOW KA", 6691>>,
    <<"TAI THAM LETTER LOW KXA", 6692>>, <<"TAI THAM LETTER LOW KHA", 6693>>,
    <<"TAI THAM LETTER NGA", 6694>>, <<"TAI THAM LETTER HIGH CA", 6695>>,
    <<"TAI THAM LETTER HIGH CHA", 6696>>, <<"TAI THAM LETTER LOW CA", 6697>>,
    <<"TAI THAM LETTER LOW SA", 6698>>, <<"TAI THAM LETTER LOW CHA", 6699>>,
    <<"TAI THAM LETTER NYA", 6700>>, <<"TAI THAM LETTER RATA", 6701>>,
    <<"TAI THAM LETTER HIGH RATHA", 6702>>, <<"TAI THAM LETTER DA", 6703>>,
    <<"TAI THAM LETTER LOW RATHA", 6704>>, <<"TAI THAM LETTER RANA", 6705>>,
    <<"TAI THAM LETTER HIGH TA", 6706>>, <<"TAI THAM LETTER HIGH THA", 6707>>,
    <<"TAI THAM LETTER LOW TA", 6708>>, <<"TAI THAM LETTER LOW THA", 6709>>,
    <<"TAI THAM LETTER NA", 6710>>, <<"TAI THAM LETTER BA", 6711>>,
    <<"TAI THAM LETTER HIGH PA", 6712>>, <<"TAI THAM LETTER HIGH PHA", 6713>>,
    <<"TAI THAM LETTER HIGH FA", 6714>>, <<"TAI THAM LETTER LOW PA", 6715>>,
    <<"TAI THAM LETTER LOW FA", 6716>>, <<"TAI THAM LETTER LOW PHA", 6717>>,
    <<"TAI THAM LETTER MA", 6718>>, <<"TAI THAM LETTER LOW YA", 6719>>,
    <<"TAI THAM LETTER HIGH YA", 6720>>, <<"TAI THAM LETTER RA", 6721>>,
    <<"TAI THAM LETTER RUE", 6722>>, <<"TAI THAM LETTER LA", 6723>>, <<"TAI THAM LETTER LUE", 6724>>,
    <<"TAI THAM LETTER WA", 6725>>, <<"TAI THAM LETTER HIGH SHA", 6726>>,
    <<"TAI THAM LETTER HIGH SSA", 6727>>, <<"TAI THAM LETTER HIGH SA", 6728>>,
    <<"TAI THAM LETTER HIGH HA", 6729>>, <<"TAI THAM LETTER LLA", 6730>>,
    <<"TAI THAM LETTER A", 6731>>, <<"TAI THAM LETTER LOW HA", 6732>>, <<"TAI THAM LETTER I", 6733>>,
    <<"TAI THAM LETTER II", 6734>>, <<"TAI THAM LETTER U", 6735>>, <<"TAI THAM LETTER UU", 6736>>,
    <<"TAI THAM LETTER EE", 6737>>, <<"TAI THAM LETTER OO", 6738>>, <<"TAI THAM LETTER LAE", 6739>>,
    <<"TAI THAM LETTER GREAT SA", 6740>>, <<"TAI THAM CONSONANT SIGN MEDIAL RA", 6741>>,
    <<"TAI THAM CONSONANT SIGN MEDIAL LA", 6742>>, <<"TAI THAM CONSONANT SIGN LA TANG LAI", 6743>>,
    <<"TAI THAM SIGN MAI KANG LAI", 6744>>, <<"TAI THAM CONSONANT SIGN FINAL NGA", 6745>>,
    <<"TAI THAM CONSONANT SIGN LOW PA", 6746>>,
    <<"TAI THAM CONSONANT SIGN HIGH RATHA OR LOW PA", 6747>>, <<"TAI THAM CONSONANT SIGN MA", 6748>>,
    <<"TAI THAM CONSONANT SIGN BA", 6749>>, <<"TAI THAM CONSONANT SIGN SA", 6750>>,
    <<"TAI THAM SIGN SAKOT", 6752>>, <<"TAI THAM VOWEL SIGN A", 6753>>,
    <<"TAI THAM VOWEL SIGN MAI SAT", 6754>>, <<"TAI THAM VOWEL SIGN AA", 6755>>,
    <<"TAI THAM VOWEL SIGN TALL AA", 6756>>, <<"TAI THAM VOWEL SIGN I", 6757>>,
    <<"TAI THAM VOWEL SIGN II", 6758>>, <<"TAI THAM VOWEL SIGN UE", 6759>>,
    <<"TAI THAM VOWEL SIGN UUE", 6760>>, <<"TAI THAM VOWEL SIGN U", 6761>>,
    <<"TAI THAM VOWEL SIGN UU", 6762>>, <<"TAI THAM VOWEL SIGN O", 6763>>,
    <<"TAI THAM VOWEL SIGN OA BELOW", 6764>>, <<"TAI THAM VOWEL SIGN OY", 6765>>,
    <<"TAI THAM VOWEL SIGN E", 6766>>, <<"TAI THAM VOWEL SIGN AE", 6767>>,
    <<"TAI THAM VOWEL SIGN OO", 6768>>, <<"TAI THAM VOWEL SIGN AI", 6769>>,
    <<"TAI THAM VOWEL SIGN THAM AI", 6770>>, <<"TAI THAM VOWEL SIGN OA ABOVE", 6771>>,
    <<"TAI THAM SIGN MAI KANG", 6772>>, <<"TAI THAM SIGN TONE-1", 6773>>,
    <<"TAI THAM SIGN TONE-2", 6774>>, <<"TAI THAM SIGN KHUEN TONE-3", 6775>>,
    <<"TAI THAM SIGN KHUEN TONE-4", 6776>>, <<"TAI THAM SIGN KHUEN TONE-5", 6777>>,
    <<"TAI THAM SIGN RA HAAM", 6778>>, <<"TAI THAM SIGN MAI SAM", 6779>>,
    <<"TAI THAM SIGN KHUEN-LUE KARAN", 6780>>, <<"TAI THAM COMBINING CRYPTOGRAMMIC DOT", 6783>>,
    <<"TAI THAM HORA DIGIT ZERO", 6784>>, <<"TAI THAM HORA DIGIT ONE", 6785>>,
    <<"TAI THAM HORA DIGIT TWO", 6786>>, <<"TAI THAM HORA DIGIT THREE", 6787>>,
    <<"TAI THAM HORA DIGIT FOUR", 6788>>, <<"TAI THAM HORA DIGIT FIVE", 6789>>,
    <<"TAI THAM HORA DIGIT SIX", 6790>>, <<"TAI THAM HORA DIGIT SEVEN", 6791>>,
    <<"TAI THAM HORA DIGIT EIGHT", 6792>>, <<"TAI THAM HORA DIGIT NINE", 6793>>,
    <<"TAI THAM THAM DIGIT ZERO", 6800>>, <<"TAI THAM THAM DIGIT ONE", 6801>>,
    <<"TAI THAM THAM DIGIT TWO", 6802>>, <<"TAI THAM THAM DIGIT THREE", 6803>>,
    <<"TAI THAM THAM DIGIT FOUR", 6804>>, <<"TAI THAM THAM DIGIT FIVE", 6805>>,
    <<"TAI THAM THAM DIGIT SIX", 6806>>, <<"TAI THAM THAM DIGIT SEVEN", 6807>>,
    <<"TAI THAM THAM DIGIT EIGHT", 6808>>, <<"TAI THAM THAM DIGIT NINE", 6809>>,
    <<"TAI THAM SIGN WIANG", 6816>>, <<"TAI THAM SIGN WIANGWAAK", 6817>>,
    <<"TAI THAM SIGN SAWAN", 6818>>, <<"TAI THAM SIGN KEOW", 6819>>, <<"TAI THAM SIGN HOY", 6820>>,
    <<"TAI THAM SIGN DOKMAI", 6821>>, <<"TAI THAM SIGN REVERSED ROTATED RANA", 6822>>,
    <<"TAI THAM SIGN MAI YAMOK", 6823>>, <<"TAI THAM SIGN KAAN", 6824>>,
    <<"TAI THAM SIGN KAANKUU", 6825>>, <<"TAI THAM SIGN SATKAAN", 6826>>,
    <<"TAI THAM SIGN SATKAANKUU", 6827>>, <<"TAI THAM SIGN HANG", 6828>>,
    <<"TAI THAM SIGN CAANG", 6829>>, <<"COMBINING DOUBLED CIRCUMFLEX ACCENT", 6832>>,
    <<"COMBINING DIAERESIS-RING", 6833>>, <<"COMBINING INFINITY", 6834>>,
    <<"COMBINING DOWNWARDS ARROW", 6835>>, <<"COMBINING TRIPLE DOT", 6836>>,
    <<"COMBINING X-X BELOW", 6837>>, <<"COMBINING WIGGLY LINE BELOW", 6838>>,
    <<"COMBINING OPEN MARK BELOW", 6839>>, <<"COMBINING DOUBLE OPEN MARK BELOW", 6840>>,
    <<"COMBINING LIGHT CENTRALIZATION STROKE BELOW", 6841>>,
    <<"COMBINING STRONG CENTRALIZATION STROKE BELOW", 6842>>, <<"COMBINING PARENTHESES ABOVE", 6843>>,
    <<"COMBINING DOUBLE PARENTHESES ABOVE", 6844>>, <<"COMBINING PARENTHESES BELOW", 6845>>,
    <<"COMBINING PARENTHESES OVERLAY", 6846>>, <<"COMBINING LATIN SMALL LETTER W BELOW", 6847>>,
    <<"COMBINING LATIN SMALL LETTER TURNED W BELOW", 6848>>,
    <<"COMBINING LEFT PARENTHESIS ABOVE LEFT", 6849>>,
    <<"COMBINING RIGHT PARENTHESIS ABOVE RIGHT", 6850>>,
    <<"COMBINING LEFT PARENTHESIS BELOW LEFT", 6851>>,
    <<"COMBINING RIGHT PARENTHESIS BELOW RIGHT", 6852>>, <<"COMBINING SQUARE BRACKETS ABOVE", 6853>>,
    <<"COMBINING NUMBER SIGN ABOVE", 6854>>, <<"COMBINING INVERTED DOUBLE ARCH ABOVE", 6855>>,
    <<"COMBINING PLUS SIGN ABOVE", 6856>>, <<"COMBINING DOUBLE PLUS SIGN ABOVE", 6857>>,
    <<"COMBINING DOUBLE PLUS SIGN BELOW", 6858>>, <<"COMBINING TRIPLE ACUTE ACCENT", 6859>>,
    <<"COMBINING LATIN SMALL LETTER INSULAR G", 6860>>,
    <<"COMBINING LATIN SMALL LETTER INSULAR R", 6861>>,
    <<"COMBINING LATIN SMALL LETTER INSULAR T", 6862>>, <<"BALINESE SIGN ULU RICEM", 6912>>,
    <<"BALINESE SIGN ULU CANDRA", 6913>>, <<"BALINESE SIGN CECEK", 6914>>,
    <<"BALINESE SIGN SURANG", 6915>>, <<"BALINESE SIGN BISAH", 6916>>,
    <<"BALINESE LETTER AKARA", 6917>>, <<"BALINESE LETTER AKARA TEDUNG", 6918>>,
    <<"BALINESE LETTER IKARA", 6919>>, <<"BALINESE LETTER IKARA TEDUNG", 6920>>,
    <<"BALINESE LETTER UKARA", 6921>>, <<"BALINESE LETTER UKARA TEDUNG", 6922>>,
    <<"BALINESE LETTER RA REPA", 6923>>, <<"BALINESE LETTER RA REPA TEDUNG", 6924>>,
    <<"BALINESE LETTER LA LENGA", 6925>>, <<"BALINESE LETTER LA LENGA TEDUNG", 6926>>,
    <<"BALINESE LETTER EKARA", 6927>>, <<"BALINESE LETTER AIKARA", 6928>>,
    <<"BALINESE LETTER OKARA", 6929>>, <<"BALINESE LETTER OKARA TEDUNG", 6930>>,
    <<"BALINESE LETTER KA", 6931>>, <<"BALINESE LETTER KA MAHAPRANA", 6932>>,
    <<"BALINESE LETTER GA", 6933>>, <<"BALINESE LETTER GA GORA", 6934>>,
    <<"BALINESE LETTER NGA", 6935>>, <<"BALINESE LETTER CA", 6936>>,
    <<"BALINESE LETTER CA LACA", 6937>>, <<"BALINESE LETTER JA", 6938>>,
    <<"BALINESE LETTER JA JERA", 6939>>, <<"BALINESE LETTER NYA", 6940>>,
    <<"BALINESE LETTER TA LATIK", 6941>>, <<"BALINESE LETTER TA MURDA MAHAPRANA", 6942>>,
    <<"BALINESE LETTER DA MURDA ALPAPRANA", 6943>>, <<"BALINESE LETTER DA MURDA MAHAPRANA", 6944>>,
    <<"BALINESE LETTER NA RAMBAT", 6945>>, <<"BALINESE LETTER TA", 6946>>,
    <<"BALINESE LETTER TA TAWA", 6947>>, <<"BALINESE LETTER DA", 6948>>,
    <<"BALINESE LETTER DA MADU", 6949>>, <<"BALINESE LETTER NA", 6950>>,
    <<"BALINESE LETTER PA", 6951>>, <<"BALINESE LETTER PA KAPAL", 6952>>,
    <<"BALINESE LETTER BA", 6953>>, <<"BALINESE LETTER BA KEMBANG", 6954>>,
    <<"BALINESE LETTER MA", 6955>>, <<"BALINESE LETTER YA", 6956>>, <<"BALINESE LETTER RA", 6957>>,
    <<"BALINESE LETTER LA", 6958>>, <<"BALINESE LETTER WA", 6959>>,
    <<"BALINESE LETTER SA SAGA", 6960>>, <<"BALINESE LETTER SA SAPA", 6961>>,
    <<"BALINESE LETTER SA", 6962>>, <<"BALINESE LETTER HA", 6963>>, <<"BALINESE SIGN REREKAN", 6964>>,
    <<"BALINESE VOWEL SIGN TEDUNG", 6965>>, <<"BALINESE VOWEL SIGN ULU", 6966>>,
    <<"BALINESE VOWEL SIGN ULU SARI", 6967>>, <<"BALINESE VOWEL SIGN SUKU", 6968>>,
    <<"BALINESE VOWEL SIGN SUKU ILUT", 6969>>, <<"BALINESE VOWEL SIGN RA REPA", 6970>>,
    <<"BALINESE VOWEL SIGN RA REPA TEDUNG", 6971>>, <<"BALINESE VOWEL SIGN LA LENGA", 6972>>,
    <<"BALINESE VOWEL SIGN LA LENGA TEDUNG", 6973>>, <<"BALINESE VOWEL SIGN TALING", 6974>>,
    <<"BALINESE VOWEL SIGN TALING REPA", 6975>>, <<"BALINESE VOWEL SIGN TALING TEDUNG", 6976>>,
    <<"BALINESE VOWEL SIGN TALING REPA TEDUNG", 6977>>, <<"BALINESE VOWEL SIGN PEPET", 6978>>,
    <<"BALINESE VOWEL SIGN PEPET TEDUNG", 6979>>, <<"BALINESE ADEG ADEG", 6980>>,
    <<"BALINESE LETTER KAF SASAK", 6981>>, <<"BALINESE LETTER KHOT SASAK", 6982>>,
    <<"BALINESE LETTER TZIR SASAK", 6983>>, <<"BALINESE LETTER EF SASAK", 6984>>,
    <<"BALINESE LETTER VE SASAK", 6985>>, <<"BALINESE LETTER ZAL SASAK", 6986>>,
    <<"BALINESE LETTER ASYURA SASAK", 6987>>, <<"BALINESE LETTER ARCHAIC JNYA", 6988>>,
    <<"BALINESE DIGIT ZERO", 6992>>, <<"BALINESE DIGIT ONE", 6993>>, <<"BALINESE DIGIT TWO", 6994>>,
    <<"BALINESE DIGIT THREE", 6995>>, <<"BALINESE DIGIT FOUR", 6996>>, <<"BALINESE DIGIT FIVE", 6997>>,
    <<"BALINESE DIGIT SIX", 6998>>, <<"BALINESE DIGIT SEVEN", 6999>>, <<"BALINESE DIGIT EIGHT", 7000>>,
    <<"BALINESE DIGIT NINE", 7001>>, <<"BALINESE PANTI", 7002>>, <<"BALINESE PAMADA", 7003>>,
    <<"BALINESE WINDU", 7004>>, <<"BALINESE CARIK PAMUNGKAH", 7005>>, <<"BALINESE CARIK SIKI", 7006>>,
    <<"BALINESE CARIK PAREREN", 7007>>, <<"BALINESE PAMENENG", 7008>>,
    <<"BALINESE MUSICAL SYMBOL DONG", 7009>>, <<"BALINESE MUSICAL SYMBOL DENG", 7010>>,
    <<"BALINESE MUSICAL SYMBOL DUNG", 7011>>, <<"BALINESE MUSICAL SYMBOL DANG", 7012>>,
    <<"BALINESE MUSICAL SYMBOL DANG SURANG", 7013>>, <<"BALINESE MUSICAL SYMBOL DING", 7014>>,
    <<"BALINESE MUSICAL SYMBOL DAENG", 7015>>, <<"BALINESE MUSICAL SYMBOL DEUNG", 7016>>,
    <<"BALINESE MUSICAL SYMBOL DAING", 7017>>, <<"BALINESE MUSICAL SYMBOL DANG GEDE", 7018>>,
    <<"BALINESE MUSICAL SYMBOL COMBINING TEGEH", 7019>>,
    <<"BALINESE MUSICAL SYMBOL COMBINING ENDEP", 7020>>,
    <<"BALINESE MUSICAL SYMBOL COMBINING KEMPUL", 7021>>,
    <<"BALINESE MUSICAL SYMBOL COMBINING KEMPLI", 7022>>,
    <<"BALINESE MUSICAL SYMBOL COMBINING JEGOGAN", 7023>>,
    <<"BALINESE MUSICAL SYMBOL COMBINING KEMPUL WITH JEGOGAN", 7024>>,
    <<"BALINESE MUSICAL SYMBOL COMBINING KEMPLI WITH JEGOGAN", 7025>>,
    <<"BALINESE MUSICAL SYMBOL COMBINING BENDE", 7026>>,
    <<"BALINESE MUSICAL SYMBOL COMBINING GONG", 7027>>,
    <<"BALINESE MUSICAL SYMBOL RIGHT-HAND OPEN DUG", 7028>>,
    <<"BALINESE MUSICAL SYMBOL RIGHT-HAND OPEN DAG", 7029>>,
    <<"BALINESE MUSICAL SYMBOL RIGHT-HAND CLOSED TUK", 7030>>,
    <<"BALINESE MUSICAL SYMBOL RIGHT-HAND CLOSED TAK", 7031>>,
    <<"BALINESE MUSICAL SYMBOL LEFT-HAND OPEN PANG", 7032>>,
    <<"BALINESE MUSICAL SYMBOL LEFT-HAND OPEN PUNG", 7033>>,
    <<"BALINESE MUSICAL SYMBOL LEFT-HAND CLOSED PLAK", 7034>>,
    <<"BALINESE MUSICAL SYMBOL LEFT-HAND CLOSED PLUK", 7035>>,
    <<"BALINESE MUSICAL SYMBOL LEFT-HAND OPEN PING", 7036>>, <<"BALINESE PANTI LANTANG", 7037>>,
    <<"BALINESE PAMADA LANTANG", 7038>>, <<"SUNDANESE SIGN PANYECEK", 7040>>,
    <<"SUNDANESE SIGN PANGLAYAR", 7041>>, <<"SUNDANESE SIGN PANGWISAD", 7042>>,
    <<"SUNDANESE LETTER A", 7043>>, <<"SUNDANESE LETTER I", 7044>>, <<"SUNDANESE LETTER U", 7045>>,
    <<"SUNDANESE LETTER AE", 7046>>, <<"SUNDANESE LETTER O", 7047>>, <<"SUNDANESE LETTER E", 7048>>,
    <<"SUNDANESE LETTER EU", 7049>>, <<"SUNDANESE LETTER KA", 7050>>, <<"SUNDANESE LETTER QA", 7051>>,
    <<"SUNDANESE LETTER GA", 7052>>, <<"SUNDANESE LETTER NGA", 7053>>, <<"SUNDANESE LETTER CA", 7054>>,
    <<"SUNDANESE LETTER JA", 7055>>, <<"SUNDANESE LETTER ZA", 7056>>, <<"SUNDANESE LETTER NYA", 7057>>,
    <<"SUNDANESE LETTER TA", 7058>>, <<"SUNDANESE LETTER DA", 7059>>, <<"SUNDANESE LETTER NA", 7060>>,
    <<"SUNDANESE LETTER PA", 7061>>, <<"SUNDANESE LETTER FA", 7062>>, <<"SUNDANESE LETTER VA", 7063>>,
    <<"SUNDANESE LETTER BA", 7064>>, <<"SUNDANESE LETTER MA", 7065>>, <<"SUNDANESE LETTER YA", 7066>>,
    <<"SUNDANESE LETTER RA", 7067>>, <<"SUNDANESE LETTER LA", 7068>>, <<"SUNDANESE LETTER WA", 7069>>,
    <<"SUNDANESE LETTER SA", 7070>>, <<"SUNDANESE LETTER XA", 7071>>, <<"SUNDANESE LETTER HA", 7072>>,
    <<"SUNDANESE CONSONANT SIGN PAMINGKAL", 7073>>, <<"SUNDANESE CONSONANT SIGN PANYAKRA", 7074>>,
    <<"SUNDANESE CONSONANT SIGN PANYIKU", 7075>>, <<"SUNDANESE VOWEL SIGN PANGHULU", 7076>>,
    <<"SUNDANESE VOWEL SIGN PANYUKU", 7077>>, <<"SUNDANESE VOWEL SIGN PANAELAENG", 7078>>,
    <<"SUNDANESE VOWEL SIGN PANOLONG", 7079>>, <<"SUNDANESE VOWEL SIGN PAMEPET", 7080>>,
    <<"SUNDANESE VOWEL SIGN PANEULEUNG", 7081>>, <<"SUNDANESE SIGN PAMAAEH", 7082>>,
    <<"SUNDANESE SIGN VIRAMA", 7083>>, <<"SUNDANESE CONSONANT SIGN PASANGAN MA", 7084>>,
    <<"SUNDANESE CONSONANT SIGN PASANGAN WA", 7085>>, <<"SUNDANESE LETTER KHA", 7086>>,
    <<"SUNDANESE LETTER SYA", 7087>>, <<"SUNDANESE DIGIT ZERO", 7088>>,
    <<"SUNDANESE DIGIT ONE", 7089>>, <<"SUNDANESE DIGIT TWO", 7090>>,
    <<"SUNDANESE DIGIT THREE", 7091>>, <<"SUNDANESE DIGIT FOUR", 7092>>,
    <<"SUNDANESE DIGIT FIVE", 7093>>, <<"SUNDANESE DIGIT SIX", 7094>>,
    <<"SUNDANESE DIGIT SEVEN", 7095>>, <<"SUNDANESE DIGIT EIGHT", 7096>>,
    <<"SUNDANESE DIGIT NINE", 7097>>, <<"SUNDANESE AVAGRAHA", 7098>>, <<"SUNDANESE LETTER REU", 7099>>,
    <<"SUNDANESE LETTER LEU", 7100>>, <<"SUNDANESE LETTER BHA", 7101>>,
    <<"SUNDANESE LETTER FINAL K", 7102>>, <<"SUNDANESE LETTER FINAL M", 7103>>,
    <<"BATAK LETTER A", 7104>>, <<"BATAK LETTER SIMALUNGUN A", 7105>>, <<"BATAK LETTER HA", 7106>>,
    <<"BATAK LETTER SIMALUNGUN HA", 7107>>, <<"BATAK LETTER MANDAILING HA", 7108>>,
    <<"BATAK LETTER BA", 7109>>, <<"BATAK LETTER KARO BA", 7110>>, <<"BATAK LETTER PA", 7111>>,
    <<"BATAK LETTER SIMALUNGUN PA", 7112>>, <<"BATAK LETTER NA", 7113>>,
    <<"BATAK LETTER MANDAILING NA", 7114>>, <<"BATAK LETTER WA", 7115>>,
    <<"BATAK LETTER SIMALUNGUN WA", 7116>>, <<"BATAK LETTER PAKPAK WA", 7117>>,
    <<"BATAK LETTER GA", 7118>>, <<"BATAK LETTER SIMALUNGUN GA", 7119>>, <<"BATAK LETTER JA", 7120>>,
    <<"BATAK LETTER DA", 7121>>, <<"BATAK LETTER RA", 7122>>, <<"BATAK LETTER SIMALUNGUN RA", 7123>>,
    <<"BATAK LETTER MA", 7124>>, <<"BATAK LETTER SIMALUNGUN MA", 7125>>,
    <<"BATAK LETTER SOUTHERN TA", 7126>>, <<"BATAK LETTER NORTHERN TA", 7127>>,
    <<"BATAK LETTER SA", 7128>>, <<"BATAK LETTER SIMALUNGUN SA", 7129>>,
    <<"BATAK LETTER MANDAILING SA", 7130>>, <<"BATAK LETTER YA", 7131>>,
    <<"BATAK LETTER SIMALUNGUN YA", 7132>>, <<"BATAK LETTER NGA", 7133>>, <<"BATAK LETTER LA", 7134>>,
    <<"BATAK LETTER SIMALUNGUN LA", 7135>>, <<"BATAK LETTER NYA", 7136>>, <<"BATAK LETTER CA", 7137>>,
    <<"BATAK LETTER NDA", 7138>>, <<"BATAK LETTER MBA", 7139>>, <<"BATAK LETTER I", 7140>>,
    <<"BATAK LETTER U", 7141>>, <<"BATAK SIGN TOMPI", 7142>>, <<"BATAK VOWEL SIGN E", 7143>>,
    <<"BATAK VOWEL SIGN PAKPAK E", 7144>>, <<"BATAK VOWEL SIGN EE", 7145>>,
    <<"BATAK VOWEL SIGN I", 7146>>, <<"BATAK VOWEL SIGN KARO I", 7147>>,
    <<"BATAK VOWEL SIGN O", 7148>>, <<"BATAK VOWEL SIGN KARO O", 7149>>,
    <<"BATAK VOWEL SIGN U", 7150>>, <<"BATAK VOWEL SIGN U FOR SIMALUNGUN SA", 7151>>,
    <<"BATAK CONSONANT SIGN NG", 7152>>, <<"BATAK CONSONANT SIGN H", 7153>>,
    <<"BATAK PANGOLAT", 7154>>, <<"BATAK PANONGONAN", 7155>>, <<"BATAK SYMBOL BINDU NA METEK", 7164>>,
    <<"BATAK SYMBOL BINDU PINARBORAS", 7165>>, <<"BATAK SYMBOL BINDU JUDUL", 7166>>,
    <<"BATAK SYMBOL BINDU PANGOLAT", 7167>>, <<"LEPCHA LETTER KA", 7168>>,
    <<"LEPCHA LETTER KLA", 7169>>, <<"LEPCHA LETTER KHA", 7170>>, <<"LEPCHA LETTER GA", 7171>>,
    <<"LEPCHA LETTER GLA", 7172>>, <<"LEPCHA LETTER NGA", 7173>>, <<"LEPCHA LETTER CA", 7174>>,
    <<"LEPCHA LETTER CHA", 7175>>, <<"LEPCHA LETTER JA", 7176>>, <<"LEPCHA LETTER NYA", 7177>>,
    <<"LEPCHA LETTER TA", 7178>>, <<"LEPCHA LETTER THA", 7179>>, <<"LEPCHA LETTER DA", 7180>>,
    <<"LEPCHA LETTER NA", 7181>>, <<"LEPCHA LETTER PA", 7182>>, <<"LEPCHA LETTER PLA", 7183>>,
    <<"LEPCHA LETTER PHA", 7184>>, <<"LEPCHA LETTER FA", 7185>>, <<"LEPCHA LETTER FLA", 7186>>,
    <<"LEPCHA LETTER BA", 7187>>, <<"LEPCHA LETTER BLA", 7188>>, <<"LEPCHA LETTER MA", 7189>>,
    <<"LEPCHA LETTER MLA", 7190>>, <<"LEPCHA LETTER TSA", 7191>>, <<"LEPCHA LETTER TSHA", 7192>>,
    <<"LEPCHA LETTER DZA", 7193>>, <<"LEPCHA LETTER YA", 7194>>, <<"LEPCHA LETTER RA", 7195>>,
    <<"LEPCHA LETTER LA", 7196>>, <<"LEPCHA LETTER HA", 7197>>, <<"LEPCHA LETTER HLA", 7198>>,
    <<"LEPCHA LETTER VA", 7199>>, <<"LEPCHA LETTER SA", 7200>>, <<"LEPCHA LETTER SHA", 7201>>,
    <<"LEPCHA LETTER WA", 7202>>, <<"LEPCHA LETTER A", 7203>>, <<"LEPCHA SUBJOINED LETTER YA", 7204>>,
    <<"LEPCHA SUBJOINED LETTER RA", 7205>>, <<"LEPCHA VOWEL SIGN AA", 7206>>,
    <<"LEPCHA VOWEL SIGN I", 7207>>, <<"LEPCHA VOWEL SIGN O", 7208>>, <<"LEPCHA VOWEL SIGN OO", 7209>>,
    <<"LEPCHA VOWEL SIGN U", 7210>>, <<"LEPCHA VOWEL SIGN UU", 7211>>, <<"LEPCHA VOWEL SIGN E", 7212>>,
    <<"LEPCHA CONSONANT SIGN K", 7213>>, <<"LEPCHA CONSONANT SIGN M", 7214>>,
    <<"LEPCHA CONSONANT SIGN L", 7215>>, <<"LEPCHA CONSONANT SIGN N", 7216>>,
    <<"LEPCHA CONSONANT SIGN P", 7217>>, <<"LEPCHA CONSONANT SIGN R", 7218>>,
    <<"LEPCHA CONSONANT SIGN T", 7219>>, <<"LEPCHA CONSONANT SIGN NYIN-DO", 7220>>,
    <<"LEPCHA CONSONANT SIGN KANG", 7221>>, <<"LEPCHA SIGN RAN", 7222>>, <<"LEPCHA SIGN NUKTA", 7223>>,
    <<"LEPCHA PUNCTUATION TA-ROL", 7227>>, <<"LEPCHA PUNCTUATION NYET THYOOM TA-ROL", 7228>>,
    <<"LEPCHA PUNCTUATION CER-WA", 7229>>, <<"LEPCHA PUNCTUATION TSHOOK CER-WA", 7230>>,
    <<"LEPCHA PUNCTUATION TSHOOK", 7231>>, <<"LEPCHA DIGIT ZERO", 7232>>, <<"LEPCHA DIGIT ONE", 7233>>,
    <<"LEPCHA DIGIT TWO", 7234>>, <<"LEPCHA DIGIT THREE", 7235>>, <<"LEPCHA DIGIT FOUR", 7236>>,
    <<"LEPCHA DIGIT FIVE", 7237>>, <<"LEPCHA DIGIT SIX", 7238>>, <<"LEPCHA DIGIT SEVEN", 7239>>,
    <<"LEPCHA DIGIT EIGHT", 7240>>, <<"LEPCHA DIGIT NINE", 7241>>, <<"LEPCHA LETTER TTA", 7245>>,
    <<"LEPCHA LETTER TTHA", 7246>>, <<"LEPCHA LETTER DDA", 7247>>, <<"OL CHIKI DIGIT ZERO", 7248>>,
    <<"OL CHIKI DIGIT ONE", 7249>>, <<"OL CHIKI DIGIT TWO", 7250>>, <<"OL CHIKI DIGIT THREE", 7251>>,
    <<"OL CHIKI DIGIT FOUR", 7252>>, <<"OL CHIKI DIGIT FIVE", 7253>>, <<"OL CHIKI DIGIT SIX", 7254>>,
    <<"OL CHIKI DIGIT SEVEN", 7255>>, <<"OL CHIKI DIGIT EIGHT", 7256>>,
    <<"OL CHIKI DIGIT NINE", 7257>>, <<"OL CHIKI LETTER LA", 7258>>, <<"OL CHIKI LETTER AT", 7259>>,
    <<"OL CHIKI LETTER AG", 7260>>, <<"OL CHIKI LETTER ANG", 7261>>, <<"OL CHIKI LETTER AL", 7262>>,
    <<"OL CHIKI LETTER LAA", 7263>>, <<"OL CHIKI LETTER AAK", 7264>>, <<"OL CHIKI LETTER AAJ", 7265>>,
    <<"OL CHIKI LETTER AAM", 7266>>, <<"OL CHIKI LETTER AAW", 7267>>, <<"OL CHIKI LETTER LI", 7268>>,
    <<"OL CHIKI LETTER IS", 7269>>, <<"OL CHIKI LETTER IH", 7270>>, <<"OL CHIKI LETTER INY", 7271>>,
    <<"OL CHIKI LETTER IR", 7272>>, <<"OL CHIKI LETTER LU", 7273>>, <<"OL CHIKI LETTER UC", 7274>>,
    <<"OL CHIKI LETTER UD", 7275>>, <<"OL CHIKI LETTER UNN", 7276>>, <<"OL CHIKI LETTER UY", 7277>>,
    <<"OL CHIKI LETTER LE", 7278>>, <<"OL CHIKI LETTER EP", 7279>>, <<"OL CHIKI LETTER EDD", 7280>>,
    <<"OL CHIKI LETTER EN", 7281>>, <<"OL CHIKI LETTER ERR", 7282>>, <<"OL CHIKI LETTER LO", 7283>>,
    <<"OL CHIKI LETTER OTT", 7284>>, <<"OL CHIKI LETTER OB", 7285>>, <<"OL CHIKI LETTER OV", 7286>>,
    <<"OL CHIKI LETTER OH", 7287>>, <<"OL CHIKI MU TTUDDAG", 7288>>,
    <<"OL CHIKI GAAHLAA TTUDDAAG", 7289>>, <<"OL CHIKI MU-GAAHLAA TTUDDAAG", 7290>>,
    <<"OL CHIKI RELAA", 7291>>, <<"OL CHIKI PHAARKAA", 7292>>, <<"OL CHIKI AHAD", 7293>>,
    <<"OL CHIKI PUNCTUATION MUCAAD", 7294>>, <<"OL CHIKI PUNCTUATION DOUBLE MUCAAD", 7295>>,
    <<"CYRILLIC SMALL LETTER ROUNDED VE", 7296>>, <<"CYRILLIC SMALL LETTER LONG-LEGGED DE", 7297>>,
    <<"CYRILLIC SMALL LETTER NARROW O", 7298>>, <<"CYRILLIC SMALL LETTER WIDE ES", 7299>>,
    <<"CYRILLIC SMALL LETTER TALL TE", 7300>>, <<"CYRILLIC SMALL LETTER THREE-LEGGED TE", 7301>>,
    <<"CYRILLIC SMALL LETTER TALL HARD SIGN", 7302>>, <<"CYRILLIC SMALL LETTER TALL YAT", 7303>>,
    <<"CYRILLIC SMALL LETTER UNBLENDED UK", 7304>>, <<"GEORGIAN MTAVRULI CAPITAL LETTER AN", 7312>>,
    <<"GEORGIAN MTAVRULI CAPITAL LETTER BAN", 7313>>, <<"GEORGIAN MTAVRULI CAPITAL LETTER GAN", 7314>>,
    <<"GEORGIAN MTAVRULI CAPITAL LETTER DON", 7315>>, <<"GEORGIAN MTAVRULI CAPITAL LETTER EN", 7316>>,
    <<"GEORGIAN MTAVRULI CAPITAL LETTER VIN", 7317>>, <<"GEORGIAN MTAVRULI CAPITAL LETTER ZEN", 7318>>,
    <<"GEORGIAN MTAVRULI CAPITAL LETTER TAN", 7319>>, <<"GEORGIAN MTAVRULI CAPITAL LETTER IN", 7320>>,
    <<"GEORGIAN MTAVRULI CAPITAL LETTER KAN", 7321>>, <<"GEORGIAN MTAVRULI CAPITAL LETTER LAS", 7322>>,
    <<"GEORGIAN MTAVRULI CAPITAL LETTER MAN", 7323>>, <<"GEORGIAN MTAVRULI CAPITAL LETTER NAR", 7324>>,
    <<"GEORGIAN MTAVRULI CAPITAL LETTER ON", 7325>>, <<"GEORGIAN MTAVRULI CAPITAL LETTER PAR", 7326>>,
    <<"GEORGIAN MTAVRULI CAPITAL LETTER ZHAR", 7327>>,
    <<"GEORGIAN MTAVRULI CAPITAL LETTER RAE", 7328>>, <<"GEORGIAN MTAVRULI CAPITAL LETTER SAN", 7329>>,
    <<"GEORGIAN MTAVRULI CAPITAL LETTER TAR", 7330>>, <<"GEORGIAN MTAVRULI CAPITAL LETTER UN", 7331>>,
    <<"GEORGIAN MTAVRULI CAPITAL LETTER PHAR", 7332>>,
    <<"GEORGIAN MTAVRULI CAPITAL LETTER KHAR", 7333>>,
    <<"GEORGIAN MTAVRULI CAPITAL LETTER GHAN", 7334>>,
    <<"GEORGIAN MTAVRULI CAPITAL LETTER QAR", 7335>>,
    <<"GEORGIAN MTAVRULI CAPITAL LETTER SHIN", 7336>>,
    <<"GEORGIAN MTAVRULI CAPITAL LETTER CHIN", 7337>>,
    <<"GEORGIAN MTAVRULI CAPITAL LETTER CAN", 7338>>, <<"GEORGIAN MTAVRULI CAPITAL LETTER JIL", 7339>>,
    <<"GEORGIAN MTAVRULI CAPITAL LETTER CIL", 7340>>,
    <<"GEORGIAN MTAVRULI CAPITAL LETTER CHAR", 7341>>,
    <<"GEORGIAN MTAVRULI CAPITAL LETTER XAN", 7342>>,
    <<"GEORGIAN MTAVRULI CAPITAL LETTER JHAN", 7343>>,
    <<"GEORGIAN MTAVRULI CAPITAL LETTER HAE", 7344>>, <<"GEORGIAN MTAVRULI CAPITAL LETTER HE", 7345>>,
    <<"GEORGIAN MTAVRULI CAPITAL LETTER HIE", 7346>>, <<"GEORGIAN MTAVRULI CAPITAL LETTER WE", 7347>>,
    <<"GEORGIAN MTAVRULI CAPITAL LETTER HAR", 7348>>, <<"GEORGIAN MTAVRULI CAPITAL LETTER HOE", 7349>>,
    <<"GEORGIAN MTAVRULI CAPITAL LETTER FI", 7350>>, <<"GEORGIAN MTAVRULI CAPITAL LETTER YN", 7351>>,
    <<"GEORGIAN MTAVRULI CAPITAL LETTER ELIFI", 7352>>,
    <<"GEORGIAN MTAVRULI CAPITAL LETTER TURNED GAN", 7353>>,
    <<"GEORGIAN MTAVRULI CAPITAL LETTER AIN", 7354>>, <<"GEORGIAN MTAVRULI CAPITAL LETTER AEN", 7357>>,
    <<"GEORGIAN MTAVRULI CAPITAL LETTER HARD SIGN", 7358>>,
    <<"GEORGIAN MTAVRULI CAPITAL LETTER LABIAL SIGN", 7359>>,
    <<"SUNDANESE PUNCTUATION BINDU SURYA", 7360>>, <<"SUNDANESE PUNCTUATION BINDU PANGLONG", 7361>>,
    <<"SUNDANESE PUNCTUATION BINDU PURNAMA", 7362>>, <<"SUNDANESE PUNCTUATION BINDU CAKRA", 7363>>,
    <<"SUNDANESE PUNCTUATION BINDU LEU SATANGA", 7364>>,
    <<"SUNDANESE PUNCTUATION BINDU KA SATANGA", 7365>>,
    <<"SUNDANESE PUNCTUATION BINDU DA SATANGA", 7366>>,
    <<"SUNDANESE PUNCTUATION BINDU BA SATANGA", 7367>>, <<"VEDIC TONE KARSHANA", 7376>>,
    <<"VEDIC TONE SHARA", 7377>>, <<"VEDIC TONE PRENKHA", 7378>>, <<"VEDIC SIGN NIHSHVASA", 7379>>,
    <<"VEDIC SIGN YAJURVEDIC MIDLINE SVARITA", 7380>>,
    <<"VEDIC TONE YAJURVEDIC AGGRAVATED INDEPENDENT SVARITA", 7381>>,
    <<"VEDIC TONE YAJURVEDIC INDEPENDENT SVARITA", 7382>>,
    <<"VEDIC TONE YAJURVEDIC KATHAKA INDEPENDENT SVARITA", 7383>>, <<"VEDIC TONE CANDRA BELOW", 7384>>,
    <<"VEDIC TONE YAJURVEDIC KATHAKA INDEPENDENT SVARITA SCHROEDER", 7385>>,
    <<"VEDIC TONE DOUBLE SVARITA", 7386>>, <<"VEDIC TONE TRIPLE SVARITA", 7387>>,
    <<"VEDIC TONE KATHAKA ANUDATTA", 7388>>, <<"VEDIC TONE DOT BELOW", 7389>>,
    <<"VEDIC TONE TWO DOTS BELOW", 7390>>, <<"VEDIC TONE THREE DOTS BELOW", 7391>>,
    <<"VEDIC TONE RIGVEDIC KASHMIRI INDEPENDENT SVARITA", 7392>>,
    <<"VEDIC TONE ATHARVAVEDIC INDEPENDENT SVARITA", 7393>>, <<"VEDIC SIGN VISARGA SVARITA", 7394>>,
    <<"VEDIC SIGN VISARGA UDATTA", 7395>>, <<"VEDIC SIGN REVERSED VISARGA UDATTA", 7396>>,
    <<"VEDIC SIGN VISARGA ANUDATTA", 7397>>, <<"VEDIC SIGN REVERSED VISARGA ANUDATTA", 7398>>,
    <<"VEDIC SIGN VISARGA UDATTA WITH TAIL", 7399>>, <<"VEDIC SIGN VISARGA ANUDATTA WITH TAIL", 7400>>,
    <<"VEDIC SIGN ANUSVARA ANTARGOMUKHA", 7401>>, <<"VEDIC SIGN ANUSVARA BAHIRGOMUKHA", 7402>>,
    <<"VEDIC SIGN ANUSVARA VAMAGOMUKHA", 7403>>, <<"VEDIC SIGN ANUSVARA VAMAGOMUKHA WITH TAIL", 7404>>,
    <<"VEDIC SIGN TIRYAK", 7405>>, <<"VEDIC SIGN HEXIFORM LONG ANUSVARA", 7406>>,
    <<"VEDIC SIGN LONG ANUSVARA", 7407>>, <<"VEDIC SIGN RTHANG LONG ANUSVARA", 7408>>,
    <<"VEDIC SIGN ANUSVARA UBHAYATO MUKHA", 7409>>, <<"VEDIC SIGN ARDHAVISARGA", 7410>>,
    <<"VEDIC SIGN ROTATED ARDHAVISARGA", 7411>>, <<"VEDIC TONE CANDRA ABOVE", 7412>>,
    <<"VEDIC SIGN JIHVAMULIYA", 7413>>, <<"VEDIC SIGN UPADHMANIYA", 7414>>,
    <<"VEDIC SIGN ATIKRAMA", 7415>>, <<"VEDIC TONE RING ABOVE", 7416>>,
    <<"VEDIC TONE DOUBLE RING ABOVE", 7417>>, <<"VEDIC SIGN DOUBLE ANUSVARA ANTARGOMUKHA", 7418>>,
    <<"LATIN LETTER SMALL CAPITAL A", 7424>>, <<"LATIN LETTER SMALL CAPITAL AE", 7425>>,
    <<"LATIN SMALL LETTER TURNED AE", 7426>>, <<"LATIN LETTER SMALL CAPITAL BARRED B", 7427>>,
    <<"LATIN LETTER SMALL CAPITAL C", 7428>>, <<"LATIN LETTER SMALL CAPITAL D", 7429>>,
    <<"LATIN LETTER SMALL CAPITAL ETH", 7430>>, <<"LATIN LETTER SMALL CAPITAL E", 7431>>,
    <<"LATIN SMALL LETTER TURNED OPEN E", 7432>>, <<"LATIN SMALL LETTER TURNED I", 7433>>,
    <<"LATIN LETTER SMALL CAPITAL J", 7434>>, <<"LATIN LETTER SMALL CAPITAL K", 7435>>,
    <<"LATIN LETTER SMALL CAPITAL L WITH STROKE", 7436>>, <<"LATIN LETTER SMALL CAPITAL M", 7437>>,
    <<"LATIN LETTER SMALL CAPITAL REVERSED N", 7438>>, <<"LATIN LETTER SMALL CAPITAL O", 7439>>,
    <<"LATIN LETTER SMALL CAPITAL OPEN O", 7440>>, <<"LATIN SMALL LETTER SIDEWAYS O", 7441>>,
    <<"LATIN SMALL LETTER SIDEWAYS OPEN O", 7442>>,
    <<"LATIN SMALL LETTER SIDEWAYS O WITH STROKE", 7443>>, <<"LATIN SMALL LETTER TURNED OE", 7444>>,
    <<"LATIN LETTER SMALL CAPITAL OU", 7445>>, <<"LATIN SMALL LETTER TOP HALF O", 7446>>,
    <<"LATIN SMALL LETTER BOTTOM HALF O", 7447>>, <<"LATIN LETTER SMALL CAPITAL P", 7448>>,
    <<"LATIN LETTER SMALL CAPITAL REVERSED R", 7449>>, <<"LATIN LETTER SMALL CAPITAL TURNED R", 7450>>,
    <<"LATIN LETTER SMALL CAPITAL T", 7451>>, <<"LATIN LETTER SMALL CAPITAL U", 7452>>,
    <<"LATIN SMALL LETTER SIDEWAYS U", 7453>>, <<"LATIN SMALL LETTER SIDEWAYS DIAERESIZED U", 7454>>,
    <<"LATIN SMALL LETTER SIDEWAYS TURNED M", 7455>>, <<"LATIN LETTER SMALL CAPITAL V", 7456>>,
    <<"LATIN LETTER SMALL CAPITAL W", 7457>>, <<"LATIN LETTER SMALL CAPITAL Z", 7458>>,
    <<"LATIN LETTER SMALL CAPITAL EZH", 7459>>, <<"LATIN LETTER VOICED LARYNGEAL SPIRANT", 7460>>,
    <<"LATIN LETTER AIN", 7461>>, <<"GREEK LETTER SMALL CAPITAL GAMMA", 7462>>,
    <<"GREEK LETTER SMALL CAPITAL LAMDA", 7463>>, <<"GREEK LETTER SMALL CAPITAL PI", 7464>>,
    <<"GREEK LETTER SMALL CAPITAL RHO", 7465>>, <<"GREEK LETTER SMALL CAPITAL PSI", 7466>>,
    <<"CYRILLIC LETTER SMALL CAPITAL EL", 7467>>, <<"MODIFIER LETTER CAPITAL A", 7468>>,
    <<"MODIFIER LETTER CAPITAL AE", 7469>>, <<"MODIFIER LETTER CAPITAL B", 7470>>,
    <<"MODIFIER LETTER CAPITAL BARRED B", 7471>>, <<"MODIFIER LETTER CAPITAL D", 7472>>,
    <<"MODIFIER LETTER CAPITAL E", 7473>>, <<"MODIFIER LETTER CAPITAL REVERSED E", 7474>>,
    <<"MODIFIER LETTER CAPITAL G", 7475>>, <<"MODIFIER LETTER CAPITAL H", 7476>>,
    <<"MODIFIER LETTER CAPITAL I", 7477>>, <<"MODIFIER LETTER CAPITAL J", 7478>>,
    <<"MODIFIER LETTER CAPITAL K", 7479>>, <<"MODIFIER LETTER CAPITAL L", 7480>>,
    <<"MODIFIER LETTER CAPITAL M", 7481>>, <<"MODIFIER LETTER CAPITAL N", 7482>>,
    <<"MODIFIER LETTER CAPITAL REVERSED N", 7483>>, <<"MODIFIER LETTER CAPITAL O", 7484>>,
    <<"MODIFIER LETTER CAPITAL OU", 7485>>, <<"MODIFIER LETTER CAPITAL P", 7486>>,
    <<"MODIFIER LETTER CAPITAL R", 7487>>, <<"MODIFIER LETTER CAPITAL T", 7488>>,
    <<"MODIFIER LETTER CAPITAL U", 7489>>, <<"MODIFIER LETTER CAPITAL W", 7490>>,
    <<"MODIFIER LETTER SMALL A", 7491>>, <<"MODIFIER LETTER SMALL TURNED A", 7492>>,
    <<"MODIFIER LETTER SMALL ALPHA", 7493>>, <<"MODIFIER LETTER SMALL TURNED AE", 7494>>,
    <<"MODIFIER LETTER SMALL B", 7495>>, <<"MODIFIER LETTER SMALL D", 7496>>,
    <<"MODIFIER LETTER SMALL E", 7497>>, <<"MODIFIER LETTER SMALL SCHWA", 7498>>,
    <<"MODIFIER LETTER SMALL OPEN E", 7499>>, <<"MODIFIER LETTER SMALL TURNED OPEN E", 7500>>,
    <<"MODIFIER LETTER SMALL G", 7501>>, <<"MODIFIER LETTER SMALL TURNED I", 7502>>,
    <<"MODIFIER LETTER SMALL K", 7503>>, <<"MODIFIER LETTER SMALL M", 7504>>,
    <<"MODIFIER LETTER SMALL ENG", 7505>>, <<"MODIFIER LETTER SMALL O", 7506>>,
    <<"MODIFIER LETTER SMALL OPEN O", 7507>>, <<"MODIFIER LETTER SMALL TOP HALF O", 7508>>,
    <<"MODIFIER LETTER SMALL BOTTOM HALF O", 7509>>, <<"MODIFIER LETTER SMALL P", 7510>>,
    <<"MODIFIER LETTER SMALL T", 7511>>, <<"MODIFIER LETTER SMALL U", 7512>>,
    <<"MODIFIER LETTER SMALL SIDEWAYS U", 7513>>, <<"MODIFIER LETTER SMALL TURNED M", 7514>>,
    <<"MODIFIER LETTER SMALL V", 7515>>, <<"MODIFIER LETTER SMALL AIN", 7516>>,
    <<"MODIFIER LETTER SMALL BETA", 7517>>, <<"MODIFIER LETTER SMALL GREEK GAMMA", 7518>>,
    <<"MODIFIER LETTER SMALL DELTA", 7519>>, <<"MODIFIER LETTER SMALL GREEK PHI", 7520>>,
    <<"MODIFIER LETTER SMALL CHI", 7521>>, <<"LATIN SUBSCRIPT SMALL LETTER I", 7522>>,
    <<"LATIN SUBSCRIPT SMALL LETTER R", 7523>>, <<"LATIN SUBSCRIPT SMALL LETTER U", 7524>>,
    <<"LATIN SUBSCRIPT SMALL LETTER V", 7525>>, <<"GREEK SUBSCRIPT SMALL LETTER BETA", 7526>>,
    <<"GREEK SUBSCRIPT SMALL LETTER GAMMA", 7527>>, <<"GREEK SUBSCRIPT SMALL LETTER RHO", 7528>>,
    <<"GREEK SUBSCRIPT SMALL LETTER PHI", 7529>>, <<"GREEK SUBSCRIPT SMALL LETTER CHI", 7530>>,
    <<"LATIN SMALL LETTER UE", 7531>>, <<"LATIN SMALL LETTER B WITH MIDDLE TILDE", 7532>>,
    <<"LATIN SMALL LETTER D WITH MIDDLE TILDE", 7533>>,
    <<"LATIN SMALL LETTER F WITH MIDDLE TILDE", 7534>>,
    <<"LATIN SMALL LETTER M WITH MIDDLE TILDE", 7535>>,
    <<"LATIN SMALL LETTER N WITH MIDDLE TILDE", 7536>>,
    <<"LATIN SMALL LETTER P WITH MIDDLE TILDE", 7537>>,
    <<"LATIN SMALL LETTER R WITH MIDDLE TILDE", 7538>>,
    <<"LATIN SMALL LETTER R WITH FISHHOOK AND MIDDLE TILDE", 7539>>,
    <<"LATIN SMALL LETTER S WITH MIDDLE TILDE", 7540>>,
    <<"LATIN SMALL LETTER T WITH MIDDLE TILDE", 7541>>,
    <<"LATIN SMALL LETTER Z WITH MIDDLE TILDE", 7542>>, <<"LATIN SMALL LETTER TURNED G", 7543>>,
    <<"MODIFIER LETTER CYRILLIC EN", 7544>>, <<"LATIN SMALL LETTER INSULAR G", 7545>>,
    <<"LATIN SMALL LETTER TH WITH STRIKETHROUGH", 7546>>,
    <<"LATIN SMALL CAPITAL LETTER I WITH STROKE", 7547>>,
    <<"LATIN SMALL LETTER IOTA WITH STROKE", 7548>>, <<"LATIN SMALL LETTER P WITH STROKE", 7549>>,
    <<"LATIN SMALL CAPITAL LETTER U WITH STROKE", 7550>>,
    <<"LATIN SMALL LETTER UPSILON WITH STROKE", 7551>>,
    <<"LATIN SMALL LETTER B WITH PALATAL HOOK", 7552>>,
    <<"LATIN SMALL LETTER D WITH PALATAL HOOK", 7553>>,
    <<"LATIN SMALL LETTER F WITH PALATAL HOOK", 7554>>,
    <<"LATIN SMALL LETTER G WITH PALATAL HOOK", 7555>>,
    <<"LATIN SMALL LETTER K WITH PALATAL HOOK", 7556>>,
    <<"LATIN SMALL LETTER L WITH PALATAL HOOK", 7557>>,
    <<"LATIN SMALL LETTER M WITH PALATAL HOOK", 7558>>,
    <<"LATIN SMALL LETTER N WITH PALATAL HOOK", 7559>>,
    <<"LATIN SMALL LETTER P WITH PALATAL HOOK", 7560>>,
    <<"LATIN SMALL LETTER R WITH PALATAL HOOK", 7561>>,
    <<"LATIN SMALL LETTER S WITH PALATAL HOOK", 7562>>,
    <<"LATIN SMALL LETTER ESH WITH PALATAL HOOK", 7563>>,
    <<"LATIN SMALL LETTER V WITH PALATAL HOOK", 7564>>,
    <<"LATIN SMALL LETTER X WITH PALATAL HOOK", 7565>>,
    <<"LATIN SMALL LETTER Z WITH PALATAL HOOK", 7566>>,
    <<"LATIN SMALL LETTER A WITH RETROFLEX HOOK", 7567>>,
    <<"LATIN SMALL LETTER ALPHA WITH RETROFLEX HOOK", 7568>>,
    <<"LATIN SMALL LETTER D WITH HOOK AND TAIL", 7569>>,
    <<"LATIN SMALL LETTER E WITH RETROFLEX HOOK", 7570>>,
    <<"LATIN SMALL LETTER OPEN E WITH RETROFLEX HOOK", 7571>>,
    <<"LATIN SMALL LETTER REVERSED OPEN E WITH RETROFLEX HOOK", 7572>>,
    <<"LATIN SMALL LETTER SCHWA WITH RETROFLEX HOOK", 7573>>,
    <<"LATIN SMALL LETTER I WITH RETROFLEX HOOK", 7574>>,
    <<"LATIN SMALL LETTER OPEN O WITH RETROFLEX HOOK", 7575>>,
    <<"LATIN SMALL LETTER ESH WITH RETROFLEX HOOK", 7576>>,
    <<"LATIN SMALL LETTER U WITH RETROFLEX HOOK", 7577>>,
    <<"LATIN SMALL LETTER EZH WITH RETROFLEX HOOK", 7578>>,
    <<"MODIFIER LETTER SMALL TURNED ALPHA", 7579>>, <<"MODIFIER LETTER SMALL C", 7580>>,
    <<"MODIFIER LETTER SMALL C WITH CURL", 7581>>, <<"MODIFIER LETTER SMALL ETH", 7582>>,
    <<"MODIFIER LETTER SMALL REVERSED OPEN E", 7583>>, <<"MODIFIER LETTER SMALL F", 7584>>,
    <<"MODIFIER LETTER SMALL DOTLESS J WITH STROKE", 7585>>,
    <<"MODIFIER LETTER SMALL SCRIPT G", 7586>>, <<"MODIFIER LETTER SMALL TURNED H", 7587>>,
    <<"MODIFIER LETTER SMALL I WITH STROKE", 7588>>, <<"MODIFIER LETTER SMALL IOTA", 7589>>,
    <<"MODIFIER LETTER SMALL CAPITAL I", 7590>>,
    <<"MODIFIER LETTER SMALL CAPITAL I WITH STROKE", 7591>>,
    <<"MODIFIER LETTER SMALL J WITH CROSSED-TAIL", 7592>>,
    <<"MODIFIER LETTER SMALL L WITH RETROFLEX HOOK", 7593>>,
    <<"MODIFIER LETTER SMALL L WITH PALATAL HOOK", 7594>>, <<"MODIFIER LETTER SMALL CAPITAL L", 7595>>,
    <<"MODIFIER LETTER SMALL M WITH HOOK", 7596>>,
    <<"MODIFIER LETTER SMALL TURNED M WITH LONG LEG", 7597>>,
    <<"MODIFIER LETTER SMALL N WITH LEFT HOOK", 7598>>,
    <<"MODIFIER LETTER SMALL N WITH RETROFLEX HOOK", 7599>>,
    <<"MODIFIER LETTER SMALL CAPITAL N", 7600>>, <<"MODIFIER LETTER SMALL BARRED O", 7601>>,
    <<"MODIFIER LETTER SMALL PHI", 7602>>, <<"MODIFIER LETTER SMALL S WITH HOOK", 7603>>,
    <<"MODIFIER LETTER SMALL ESH", 7604>>, <<"MODIFIER LETTER SMALL T WITH PALATAL HOOK", 7605>>,
    <<"MODIFIER LETTER SMALL U BAR", 7606>>, <<"MODIFIER LETTER SMALL UPSILON", 7607>>,
    <<"MODIFIER LETTER SMALL CAPITAL U", 7608>>, <<"MODIFIER LETTER SMALL V WITH HOOK", 7609>>,
    <<"MODIFIER LETTER SMALL TURNED V", 7610>>, <<"MODIFIER LETTER SMALL Z", 7611>>,
    <<"MODIFIER LETTER SMALL Z WITH RETROFLEX HOOK", 7612>>,
    <<"MODIFIER LETTER SMALL Z WITH CURL", 7613>>, <<"MODIFIER LETTER SMALL EZH", 7614>>,
    <<"MODIFIER LETTER SMALL THETA", 7615>>, <<"COMBINING DOTTED GRAVE ACCENT", 7616>>,
    <<"COMBINING DOTTED ACUTE ACCENT", 7617>>, <<"COMBINING SNAKE BELOW", 7618>>,
    <<"COMBINING SUSPENSION MARK", 7619>>, <<"COMBINING MACRON-ACUTE", 7620>>,
    <<"COMBINING GRAVE-MACRON", 7621>>, <<"COMBINING MACRON-GRAVE", 7622>>,
    <<"COMBINING ACUTE-MACRON", 7623>>, <<"COMBINING GRAVE-ACUTE-GRAVE", 7624>>,
    <<"COMBINING ACUTE-GRAVE-ACUTE", 7625>>, <<"COMBINING LATIN SMALL LETTER R BELOW", 7626>>,
    <<"COMBINING BREVE-MACRON", 7627>>, <<"COMBINING MACRON-BREVE", 7628>>,
    <<"COMBINING DOUBLE CIRCUMFLEX ABOVE", 7629>>, <<"COMBINING OGONEK ABOVE", 7630>>,
    <<"COMBINING ZIGZAG BELOW", 7631>>, <<"COMBINING IS BELOW", 7632>>, <<"COMBINING UR ABOVE", 7633>>,
    <<"COMBINING US ABOVE", 7634>>, <<"COMBINING LATIN SMALL LETTER FLATTENED OPEN A ABOVE", 7635>>,
    <<"COMBINING LATIN SMALL LETTER AE", 7636>>, <<"COMBINING LATIN SMALL LETTER AO", 7637>>,
    <<"COMBINING LATIN SMALL LETTER AV", 7638>>, <<"COMBINING LATIN SMALL LETTER C CEDILLA", 7639>>,
    <<"COMBINING LATIN SMALL LETTER INSULAR D", 7640>>, <<"COMBINING LATIN SMALL LETTER ETH", 7641>>,
    <<"COMBINING LATIN SMALL LETTER G", 7642>>, <<"COMBINING LATIN LETTER SMALL CAPITAL G", 7643>>,
    <<"COMBINING LATIN SMALL LETTER K", 7644>>, <<"COMBINING LATIN SMALL LETTER L", 7645>>,
    <<"COMBINING LATIN LETTER SMALL CAPITAL L", 7646>>,
    <<"COMBINING LATIN LETTER SMALL CAPITAL M", 7647>>, <<"COMBINING LATIN SMALL LETTER N", 7648>>,
    <<"COMBINING LATIN LETTER SMALL CAPITAL N", 7649>>,
    <<"COMBINING LATIN LETTER SMALL CAPITAL R", 7650>>,
    <<"COMBINING LATIN SMALL LETTER R ROTUNDA", 7651>>, <<"COMBINING LATIN SMALL LETTER S", 7652>>,
    <<"COMBINING LATIN SMALL LETTER LONG S", 7653>>, <<"COMBINING LATIN SMALL LETTER Z", 7654>>,
    <<"COMBINING LATIN SMALL LETTER ALPHA", 7655>>, <<"COMBINING LATIN SMALL LETTER B", 7656>>,
    <<"COMBINING LATIN SMALL LETTER BETA", 7657>>, <<"COMBINING LATIN SMALL LETTER SCHWA", 7658>>,
    <<"COMBINING LATIN SMALL LETTER F", 7659>>,
    <<"COMBINING LATIN SMALL LETTER L WITH DOUBLE MIDDLE TILDE", 7660>>,
    <<"COMBINING LATIN SMALL LETTER O WITH LIGHT CENTRALIZATION STROKE", 7661>>,
    <<"COMBINING LATIN SMALL LETTER P", 7662>>, <<"COMBINING LATIN SMALL LETTER ESH", 7663>>,
    <<"COMBINING LATIN SMALL LETTER U WITH LIGHT CENTRALIZATION STROKE", 7664>>,
    <<"COMBINING LATIN SMALL LETTER W", 7665>>,
    <<"COMBINING LATIN SMALL LETTER A WITH DIAERESIS", 7666>>,
    <<"COMBINING LATIN SMALL LETTER O WITH DIAERESIS", 7667>>,
    <<"COMBINING LATIN SMALL LETTER U WITH DIAERESIS", 7668>>, <<"COMBINING UP TACK ABOVE", 7669>>,
    <<"COMBINING KAVYKA ABOVE RIGHT", 7670>>, <<"COMBINING KAVYKA ABOVE LEFT", 7671>>,
    <<"COMBINING DOT ABOVE LEFT", 7672>>, <<"COMBINING WIDE INVERTED BRIDGE BELOW", 7673>>,
    <<"COMBINING DOT BELOW LEFT", 7674>>, <<"COMBINING DELETION MARK", 7675>>,
    <<"COMBINING DOUBLE INVERTED BREVE BELOW", 7676>>, <<"COMBINING ALMOST EQUAL TO BELOW", 7677>>,
    <<"COMBINING LEFT ARROWHEAD ABOVE", 7678>>,
    <<"COMBINING RIGHT ARROWHEAD AND DOWN ARROWHEAD BELOW", 7679>>,
    <<"LATIN CAPITAL LETTER A WITH RING BELOW", 7680>>,
    <<"LATIN SMALL LETTER A WITH RING BELOW", 7681>>,
    <<"LATIN CAPITAL LETTER B WITH DOT ABOVE", 7682>>, <<"LATIN SMALL LETTER B WITH DOT ABOVE", 7683>>,
    <<"LATIN CAPITAL LETTER B WITH DOT BELOW", 7684>>, <<"LATIN SMALL LETTER B WITH DOT BELOW", 7685>>,
    <<"LATIN CAPITAL LETTER B WITH LINE BELOW", 7686>>,
    <<"LATIN SMALL LETTER B WITH LINE BELOW", 7687>>,
    <<"LATIN CAPITAL LETTER C WITH CEDILLA AND ACUTE", 7688>>,
    <<"LATIN SMALL LETTER C WITH CEDILLA AND ACUTE", 7689>>,
    <<"LATIN CAPITAL LETTER D WITH DOT ABOVE", 7690>>, <<"LATIN SMALL LETTER D WITH DOT ABOVE", 7691>>,
    <<"LATIN CAPITAL LETTER D WITH DOT BELOW", 7692>>, <<"LATIN SMALL LETTER D WITH DOT BELOW", 7693>>,
    <<"LATIN CAPITAL LETTER D WITH LINE BELOW", 7694>>,
    <<"LATIN SMALL LETTER D WITH LINE BELOW", 7695>>, <<"LATIN CAPITAL LETTER D WITH CEDILLA", 7696>>,
    <<"LATIN SMALL LETTER D WITH CEDILLA", 7697>>,
    <<"LATIN CAPITAL LETTER D WITH CIRCUMFLEX BELOW", 7698>>,
    <<"LATIN SMALL LETTER D WITH CIRCUMFLEX BELOW", 7699>>,
    <<"LATIN CAPITAL LETTER E WITH MACRON AND GRAVE", 7700>>,
    <<"LATIN SMALL LETTER E WITH MACRON AND GRAVE", 7701>>,
    <<"LATIN CAPITAL LETTER E WITH MACRON AND ACUTE", 7702>>,
    <<"LATIN SMALL LETTER E WITH MACRON AND ACUTE", 7703>>,
    <<"LATIN CAPITAL LETTER E WITH CIRCUMFLEX BELOW", 7704>>,
    <<"LATIN SMALL LETTER E WITH CIRCUMFLEX BELOW", 7705>>,
    <<"LATIN CAPITAL LETTER E WITH TILDE BELOW", 7706>>,
    <<"LATIN SMALL LETTER E WITH TILDE BELOW", 7707>>,
    <<"LATIN CAPITAL LETTER E WITH CEDILLA AND BREVE", 7708>>,
    <<"LATIN SMALL LETTER E WITH CEDILLA AND BREVE", 7709>>,
    <<"LATIN CAPITAL LETTER F WITH DOT ABOVE", 7710>>, <<"LATIN SMALL LETTER F WITH DOT ABOVE", 7711>>,
    <<"LATIN CAPITAL LETTER G WITH MACRON", 7712>>, <<"LATIN SMALL LETTER G WITH MACRON", 7713>>,
    <<"LATIN CAPITAL LETTER H WITH DOT ABOVE", 7714>>, <<"LATIN SMALL LETTER H WITH DOT ABOVE", 7715>>,
    <<"LATIN CAPITAL LETTER H WITH DOT BELOW", 7716>>, <<"LATIN SMALL LETTER H WITH DOT BELOW", 7717>>,
    <<"LATIN CAPITAL LETTER H WITH DIAERESIS", 7718>>, <<"LATIN SMALL LETTER H WITH DIAERESIS", 7719>>,
    <<"LATIN CAPITAL LETTER H WITH CEDILLA", 7720>>, <<"LATIN SMALL LETTER H WITH CEDILLA", 7721>>,
    <<"LATIN CAPITAL LETTER H WITH BREVE BELOW", 7722>>,
    <<"LATIN SMALL LETTER H WITH BREVE BELOW", 7723>>,
    <<"LATIN CAPITAL LETTER I WITH TILDE BELOW", 7724>>,
    <<"LATIN SMALL LETTER I WITH TILDE BELOW", 7725>>,
    <<"LATIN CAPITAL LETTER I WITH DIAERESIS AND ACUTE", 7726>>,
    <<"LATIN SMALL LETTER I WITH DIAERESIS AND ACUTE", 7727>>,
    <<"LATIN CAPITAL LETTER K WITH ACUTE", 7728>>, <<"LATIN SMALL LETTER K WITH ACUTE", 7729>>,
    <<"LATIN CAPITAL LETTER K WITH DOT BELOW", 7730>>, <<"LATIN SMALL LETTER K WITH DOT BELOW", 7731>>,
    <<"LATIN CAPITAL LETTER K WITH LINE BELOW", 7732>>,
    <<"LATIN SMALL LETTER K WITH LINE BELOW", 7733>>,
    <<"LATIN CAPITAL LETTER L WITH DOT BELOW", 7734>>, <<"LATIN SMALL LETTER L WITH DOT BELOW", 7735>>,
    <<"LATIN CAPITAL LETTER L WITH DOT BELOW AND MACRON", 7736>>,
    <<"LATIN SMALL LETTER L WITH DOT BELOW AND MACRON", 7737>>,
    <<"LATIN CAPITAL LETTER L WITH LINE BELOW", 7738>>,
    <<"LATIN SMALL LETTER L WITH LINE BELOW", 7739>>,
    <<"LATIN CAPITAL LETTER L WITH CIRCUMFLEX BELOW", 7740>>,
    <<"LATIN SMALL LETTER L WITH CIRCUMFLEX BELOW", 7741>>,
    <<"LATIN CAPITAL LETTER M WITH ACUTE", 7742>>, <<"LATIN SMALL LETTER M WITH ACUTE", 7743>>,
    <<"LATIN CAPITAL LETTER M WITH DOT ABOVE", 7744>>, <<"LATIN SMALL LETTER M WITH DOT ABOVE", 7745>>,
    <<"LATIN CAPITAL LETTER M WITH DOT BELOW", 7746>>, <<"LATIN SMALL LETTER M WITH DOT BELOW", 7747>>,
    <<"LATIN CAPITAL LETTER N WITH DOT ABOVE", 7748>>, <<"LATIN SMALL LETTER N WITH DOT ABOVE", 7749>>,
    <<"LATIN CAPITAL LETTER N WITH DOT BELOW", 7750>>, <<"LATIN SMALL LETTER N WITH DOT BELOW", 7751>>,
    <<"LATIN CAPITAL LETTER N WITH LINE BELOW", 7752>>,
    <<"LATIN SMALL LETTER N WITH LINE BELOW", 7753>>,
    <<"LATIN CAPITAL LETTER N WITH CIRCUMFLEX BELOW", 7754>>,
    <<"LATIN SMALL LETTER N WITH CIRCUMFLEX BELOW", 7755>>,
    <<"LATIN CAPITAL LETTER O WITH TILDE AND ACUTE", 7756>>,
    <<"LATIN SMALL LETTER O WITH TILDE AND ACUTE", 7757>>,
    <<"LATIN CAPITAL LETTER O WITH TILDE AND DIAERESIS", 7758>>,
    <<"LATIN SMALL LETTER O WITH TILDE AND DIAERESIS", 7759>>,
    <<"LATIN CAPITAL LETTER O WITH MACRON AND GRAVE", 7760>>,
    <<"LATIN SMALL LETTER O WITH MACRON AND GRAVE", 7761>>,
    <<"LATIN CAPITAL LETTER O WITH MACRON AND ACUTE", 7762>>,
    <<"LATIN SMALL LETTER O WITH MACRON AND ACUTE", 7763>>,
    <<"LATIN CAPITAL LETTER P WITH ACUTE", 7764>>, <<"LATIN SMALL LETTER P WITH ACUTE", 7765>>,
    <<"LATIN CAPITAL LETTER P WITH DOT ABOVE", 7766>>, <<"LATIN SMALL LETTER P WITH DOT ABOVE", 7767>>,
    <<"LATIN CAPITAL LETTER R WITH DOT ABOVE", 7768>>, <<"LATIN SMALL LETTER R WITH DOT ABOVE", 7769>>,
    <<"LATIN CAPITAL LETTER R WITH DOT BELOW", 7770>>, <<"LATIN SMALL LETTER R WITH DOT BELOW", 7771>>,
    <<"LATIN CAPITAL LETTER R WITH DOT BELOW AND MACRON", 7772>>,
    <<"LATIN SMALL LETTER R WITH DOT BELOW AND MACRON", 7773>>,
    <<"LATIN CAPITAL LETTER R WITH LINE BELOW", 7774>>,
    <<"LATIN SMALL LETTER R WITH LINE BELOW", 7775>>,
    <<"LATIN CAPITAL LETTER S WITH DOT ABOVE", 7776>>, <<"LATIN SMALL LETTER S WITH DOT ABOVE", 7777>>,
    <<"LATIN CAPITAL LETTER S WITH DOT BELOW", 7778>>, <<"LATIN SMALL LETTER S WITH DOT BELOW", 7779>>,
    <<"LATIN CAPITAL LETTER S WITH ACUTE AND DOT ABOVE", 7780>>,
    <<"LATIN SMALL LETTER S WITH ACUTE AND DOT ABOVE", 7781>>,
    <<"LATIN CAPITAL LETTER S WITH CARON AND DOT ABOVE", 7782>>,
    <<"LATIN SMALL LETTER S WITH CARON AND DOT ABOVE", 7783>>,
    <<"LATIN CAPITAL LETTER S WITH DOT BELOW AND DOT ABOVE", 7784>>,
    <<"LATIN SMALL LETTER S WITH DOT BELOW AND DOT ABOVE", 7785>>,
    <<"LATIN CAPITAL LETTER T WITH DOT ABOVE", 7786>>, <<"LATIN SMALL LETTER T WITH DOT ABOVE", 7787>>,
    <<"LATIN CAPITAL LETTER T WITH DOT BELOW", 7788>>, <<"LATIN SMALL LETTER T WITH DOT BELOW", 7789>>,
    <<"LATIN CAPITAL LETTER T WITH LINE BELOW", 7790>>,
    <<"LATIN SMALL LETTER T WITH LINE BELOW", 7791>>,
    <<"LATIN CAPITAL LETTER T WITH CIRCUMFLEX BELOW", 7792>>,
    <<"LATIN SMALL LETTER T WITH CIRCUMFLEX BELOW", 7793>>,
    <<"LATIN CAPITAL LETTER U WITH DIAERESIS BELOW", 7794>>,
    <<"LATIN SMALL LETTER U WITH DIAERESIS BELOW", 7795>>,
    <<"LATIN CAPITAL LETTER U WITH TILDE BELOW", 7796>>,
    <<"LATIN SMALL LETTER U WITH TILDE BELOW", 7797>>,
    <<"LATIN CAPITAL LETTER U WITH CIRCUMFLEX BELOW", 7798>>,
    <<"LATIN SMALL LETTER U WITH CIRCUMFLEX BELOW", 7799>>,
    <<"LATIN CAPITAL LETTER U WITH TILDE AND ACUTE", 7800>>,
    <<"LATIN SMALL LETTER U WITH TILDE AND ACUTE", 7801>>,
    <<"LATIN CAPITAL LETTER U WITH MACRON AND DIAERESIS", 7802>>,
    <<"LATIN SMALL LETTER U WITH MACRON AND DIAERESIS", 7803>>,
    <<"LATIN CAPITAL LETTER V WITH TILDE", 7804>>, <<"LATIN SMALL LETTER V WITH TILDE", 7805>>,
    <<"LATIN CAPITAL LETTER V WITH DOT BELOW", 7806>>, <<"LATIN SMALL LETTER V WITH DOT BELOW", 7807>>,
    <<"LATIN CAPITAL LETTER W WITH GRAVE", 7808>>, <<"LATIN SMALL LETTER W WITH GRAVE", 7809>>,
    <<"LATIN CAPITAL LETTER W WITH ACUTE", 7810>>, <<"LATIN SMALL LETTER W WITH ACUTE", 7811>>,
    <<"LATIN CAPITAL LETTER W WITH DIAERESIS", 7812>>, <<"LATIN SMALL LETTER W WITH DIAERESIS", 7813>>,
    <<"LATIN CAPITAL LETTER W WITH DOT ABOVE", 7814>>, <<"LATIN SMALL LETTER W WITH DOT ABOVE", 7815>>,
    <<"LATIN CAPITAL LETTER W WITH DOT BELOW", 7816>>, <<"LATIN SMALL LETTER W WITH DOT BELOW", 7817>>,
    <<"LATIN CAPITAL LETTER X WITH DOT ABOVE", 7818>>, <<"LATIN SMALL LETTER X WITH DOT ABOVE", 7819>>,
    <<"LATIN CAPITAL LETTER X WITH DIAERESIS", 7820>>, <<"LATIN SMALL LETTER X WITH DIAERESIS", 7821>>,
    <<"LATIN CAPITAL LETTER Y WITH DOT ABOVE", 7822>>, <<"LATIN SMALL LETTER Y WITH DOT ABOVE", 7823>>,
    <<"LATIN CAPITAL LETTER Z WITH CIRCUMFLEX", 7824>>,
    <<"LATIN SMALL LETTER Z WITH CIRCUMFLEX", 7825>>,
    <<"LATIN CAPITAL LETTER Z WITH DOT BELOW", 7826>>, <<"LATIN SMALL LETTER Z WITH DOT BELOW", 7827>>,
    <<"LATIN CAPITAL LETTER Z WITH LINE BELOW", 7828>>,
    <<"LATIN SMALL LETTER Z WITH LINE BELOW", 7829>>, <<"LATIN SMALL LETTER H WITH LINE BELOW", 7830>>,
    <<"LATIN SMALL LETTER T WITH DIAERESIS", 7831>>, <<"LATIN SMALL LETTER W WITH RING ABOVE", 7832>>,
    <<"LATIN SMALL LETTER Y WITH RING ABOVE", 7833>>,
    <<"LATIN SMALL LETTER A WITH RIGHT HALF RING", 7834>>,
    <<"LATIN SMALL LETTER LONG S WITH DOT ABOVE", 7835>>,
    <<"LATIN SMALL LETTER LONG S WITH DIAGONAL STROKE", 7836>>,
    <<"LATIN SMALL LETTER LONG S WITH HIGH STROKE", 7837>>, <<"LATIN CAPITAL LETTER SHARP S", 7838>>,
    <<"LATIN SMALL LETTER DELTA", 7839>>, <<"LATIN CAPITAL LETTER A WITH DOT BELOW", 7840>>,
    <<"LATIN SMALL LETTER A WITH DOT BELOW", 7841>>,
    <<"LATIN CAPITAL LETTER A WITH HOOK ABOVE", 7842>>,
    <<"LATIN SMALL LETTER A WITH HOOK ABOVE", 7843>>,
    <<"LATIN CAPITAL LETTER A WITH CIRCUMFLEX AND ACUTE", 7844>>,
    <<"LATIN SMALL LETTER A WITH CIRCUMFLEX AND ACUTE", 7845>>,
    <<"LATIN CAPITAL LETTER A WITH CIRCUMFLEX AND GRAVE", 7846>>,
    <<"LATIN SMALL LETTER A WITH CIRCUMFLEX AND GRAVE", 7847>>,
    <<"LATIN CAPITAL LETTER A WITH CIRCUMFLEX AND HOOK ABOVE", 7848>>,
    <<"LATIN SMALL LETTER A WITH CIRCUMFLEX AND HOOK ABOVE", 7849>>,
    <<"LATIN CAPITAL LETTER A WITH CIRCUMFLEX AND TILDE", 7850>>,
    <<"LATIN SMALL LETTER A WITH CIRCUMFLEX AND TILDE", 7851>>,
    <<"LATIN CAPITAL LETTER A WITH CIRCUMFLEX AND DOT BELOW", 7852>>,
    <<"LATIN SMALL LETTER A WITH CIRCUMFLEX AND DOT BELOW", 7853>>,
    <<"LATIN CAPITAL LETTER A WITH BREVE AND ACUTE", 7854>>,
    <<"LATIN SMALL LETTER A WITH BREVE AND ACUTE", 7855>>,
    <<"LATIN CAPITAL LETTER A WITH BREVE AND GRAVE", 7856>>,
    <<"LATIN SMALL LETTER A WITH BREVE AND GRAVE", 7857>>,
    <<"LATIN CAPITAL LETTER A WITH BREVE AND HOOK ABOVE", 7858>>,
    <<"LATIN SMALL LETTER A WITH BREVE AND HOOK ABOVE", 7859>>,
    <<"LATIN CAPITAL LETTER A WITH BREVE AND TILDE", 7860>>,
    <<"LATIN SMALL LETTER A WITH BREVE AND TILDE", 7861>>,
    <<"LATIN CAPITAL LETTER A WITH BREVE AND DOT BELOW", 7862>>,
    <<"LATIN SMALL LETTER A WITH BREVE AND DOT BELOW", 7863>>,
    <<"LATIN CAPITAL LETTER E WITH DOT BELOW", 7864>>, <<"LATIN SMALL LETTER E WITH DOT BELOW", 7865>>,
    <<"LATIN CAPITAL LETTER E WITH HOOK ABOVE", 7866>>,
    <<"LATIN SMALL LETTER E WITH HOOK ABOVE", 7867>>, <<"LATIN CAPITAL LETTER E WITH TILDE", 7868>>,
    <<"LATIN SMALL LETTER E WITH TILDE", 7869>>,
    <<"LATIN CAPITAL LETTER E WITH CIRCUMFLEX AND ACUTE", 7870>>,
    <<"LATIN SMALL LETTER E WITH CIRCUMFLEX AND ACUTE", 7871>>,
    <<"LATIN CAPITAL LETTER E WITH CIRCUMFLEX AND GRAVE", 7872>>,
    <<"LATIN SMALL LETTER E WITH CIRCUMFLEX AND GRAVE", 7873>>,
    <<"LATIN CAPITAL LETTER E WITH CIRCUMFLEX AND HOOK ABOVE", 7874>>,
    <<"LATIN SMALL LETTER E WITH CIRCUMFLEX AND HOOK ABOVE", 7875>>,
    <<"LATIN CAPITAL LETTER E WITH CIRCUMFLEX AND TILDE", 7876>>,
    <<"LATIN SMALL LETTER E WITH CIRCUMFLEX AND TILDE", 7877>>,
    <<"LATIN CAPITAL LETTER E WITH CIRCUMFLEX AND DOT BELOW", 7878>>,
    <<"LATIN SMALL LETTER E WITH CIRCUMFLEX AND DOT BELOW", 7879>>,
    <<"LATIN CAPITAL LETTER I WITH HOOK ABOVE", 7880>>,
    <<"LATIN SMALL LETTER I WITH HOOK ABOVE", 7881>>,
    <<"LATIN CAPITAL LETTER I WITH DOT BELOW", 7882>>, <<"LATIN SMALL LETTER I WITH DOT BELOW", 7883>>,
    <<"LATIN CAPITAL LETTER O WITH DOT BELOW", 7884>>, <<"LATIN SMALL LETTER O WITH DOT BELOW", 7885>>,
    <<"LATIN CAPITAL LETTER O WITH HOOK ABOVE", 7886>>,
    <<"LATIN SMALL LETTER O WITH HOOK ABOVE", 7887>>,
    <<"LATIN CAPITAL LETTER O WITH CIRCUMFLEX AND ACUTE", 7888>>,
    <<"LATIN SMALL LETTER O WITH CIRCUMFLEX AND ACUTE", 7889>>,
    <<"LATIN CAPITAL LETTER O WITH CIRCUMFLEX AND GRAVE", 7890>>,
    <<"LATIN SMALL LETTER O WITH CIRCUMFLEX AND GRAVE", 7891>>,
    <<"LATIN CAPITAL LETTER O WITH CIRCUMFLEX AND HOOK ABOVE", 7892>>,
    <<"LATIN SMALL LETTER O WITH CIRCUMFLEX AND HOOK ABOVE", 7893>>,
    <<"LATIN CAPITAL LETTER O WITH CIRCUMFLEX AND TILDE", 7894>>,
    <<"LATIN SMALL LETTER O WITH CIRCUMFLEX AND TILDE", 7895>>,
    <<"LATIN CAPITAL LETTER O WITH CIRCUMFLEX AND DOT BELOW", 7896>>,
    <<"LATIN SMALL LETTER O WITH CIRCUMFLEX AND DOT BELOW", 7897>>,
    <<"LATIN CAPITAL LETTER O WITH HORN AND ACUTE", 7898>>,
    <<"LATIN SMALL LETTER O WITH HORN AND ACUTE", 7899>>,
    <<"LATIN CAPITAL LETTER O WITH HORN AND GRAVE", 7900>>,
    <<"LATIN SMALL LETTER O WITH HORN AND GRAVE", 7901>>,
    <<"LATIN CAPITAL LETTER O WITH HORN AND HOOK ABOVE", 7902>>,
    <<"LATIN SMALL LETTER O WITH HORN AND HOOK ABOVE", 7903>>,
    <<"LATIN CAPITAL LETTER O WITH HORN AND TILDE", 7904>>,
    <<"LATIN SMALL LETTER O WITH HORN AND TILDE", 7905>>,
    <<"LATIN CAPITAL LETTER O WITH HORN AND DOT BELOW", 7906>>,
    <<"LATIN SMALL LETTER O WITH HORN AND DOT BELOW", 7907>>,
    <<"LATIN CAPITAL LETTER U WITH DOT BELOW", 7908>>, <<"LATIN SMALL LETTER U WITH DOT BELOW", 7909>>,
    <<"LATIN CAPITAL LETTER U WITH HOOK ABOVE", 7910>>,
    <<"LATIN SMALL LETTER U WITH HOOK ABOVE", 7911>>,
    <<"LATIN CAPITAL LETTER U WITH HORN AND ACUTE", 7912>>,
    <<"LATIN SMALL LETTER U WITH HORN AND ACUTE", 7913>>,
    <<"LATIN CAPITAL LETTER U WITH HORN AND GRAVE", 7914>>,
    <<"LATIN SMALL LETTER U WITH HORN AND GRAVE", 7915>>,
    <<"LATIN CAPITAL LETTER U WITH HORN AND HOOK ABOVE", 7916>>,
    <<"LATIN SMALL LETTER U WITH HORN AND HOOK ABOVE", 7917>>,
    <<"LATIN CAPITAL LETTER U WITH HORN AND TILDE", 7918>>,
    <<"LATIN SMALL LETTER U WITH HORN AND TILDE", 7919>>,
    <<"LATIN CAPITAL LETTER U WITH HORN AND DOT BELOW", 7920>>,
    <<"LATIN SMALL LETTER U WITH HORN AND DOT BELOW", 7921>>,
    <<"LATIN CAPITAL LETTER Y WITH GRAVE", 7922>>, <<"LATIN SMALL LETTER Y WITH GRAVE", 7923>>,
    <<"LATIN CAPITAL LETTER Y WITH DOT BELOW", 7924>>, <<"LATIN SMALL LETTER Y WITH DOT BELOW", 7925>>,
    <<"LATIN CAPITAL LETTER Y WITH HOOK ABOVE", 7926>>,
    <<"LATIN SMALL LETTER Y WITH HOOK ABOVE", 7927>>, <<"LATIN CAPITAL LETTER Y WITH TILDE", 7928>>,
    <<"LATIN SMALL LETTER Y WITH TILDE", 7929>>, <<"LATIN CAPITAL LETTER MIDDLE-WELSH LL", 7930>>,
    <<"LATIN SMALL LETTER MIDDLE-WELSH LL", 7931>>, <<"LATIN CAPITAL LETTER MIDDLE-WELSH V", 7932>>,
    <<"LATIN SMALL LETTER MIDDLE-WELSH V", 7933>>, <<"LATIN CAPITAL LETTER Y WITH LOOP", 7934>>,
    <<"LATIN SMALL LETTER Y WITH LOOP", 7935>>, <<"GREEK SMALL LETTER ALPHA WITH PSILI", 7936>>,
    <<"GREEK SMALL LETTER ALPHA WITH DASIA", 7937>>,
    <<"GREEK SMALL LETTER ALPHA WITH PSILI AND VARIA", 7938>>,
    <<"GREEK SMALL LETTER ALPHA WITH DASIA AND VARIA", 7939>>,
    <<"GREEK SMALL LETTER ALPHA WITH PSILI AND OXIA", 7940>>,
    <<"GREEK SMALL LETTER ALPHA WITH DASIA AND OXIA", 7941>>,
    <<"GREEK SMALL LETTER ALPHA WITH PSILI AND PERISPOMENI", 7942>>,
    <<"GREEK SMALL LETTER ALPHA WITH DASIA AND PERISPOMENI", 7943>>,
    <<"GREEK CAPITAL LETTER ALPHA WITH PSILI", 7944>>,
    <<"GREEK CAPITAL LETTER ALPHA WITH DASIA", 7945>>,
    <<"GREEK CAPITAL LETTER ALPHA WITH PSILI AND VARIA", 7946>>,
    <<"GREEK CAPITAL LETTER ALPHA WITH DASIA AND VARIA", 7947>>,
    <<"GREEK CAPITAL LETTER ALPHA WITH PSILI AND OXIA", 7948>>,
    <<"GREEK CAPITAL LETTER ALPHA WITH DASIA AND OXIA", 7949>>,
    <<"GREEK CAPITAL LETTER ALPHA WITH PSILI AND PERISPOMENI", 7950>>,
    <<"GREEK CAPITAL LETTER ALPHA WITH DASIA AND PERISPOMENI", 7951>>,
    <<"GREEK SMALL LETTER EPSILON WITH PSILI", 7952>>,
    <<"GREEK SMALL LETTER EPSILON WITH DASIA", 7953>>,
    <<"GREEK SMALL LETTER EPSILON WITH PSILI AND VARIA", 7954>>,
    <<"GREEK SMALL LETTER EPSILON WITH DASIA AND VARIA", 7955>>,
    <<"GREEK SMALL LETTER EPSILON WITH PSILI AND OXIA", 7956>>,
    <<"GREEK SMALL LETTER EPSILON WITH DASIA AND OXIA", 7957>>,
    <<"GREEK CAPITAL LETTER EPSILON WITH PSILI", 7960>>,
    <<"GREEK CAPITAL LETTER EPSILON WITH DASIA", 7961>>,
    <<"GREEK CAPITAL LETTER EPSILON WITH PSILI AND VARIA", 7962>>,
    <<"GREEK CAPITAL LETTER EPSILON WITH DASIA AND VARIA", 7963>>,
    <<"GREEK CAPITAL LETTER EPSILON WITH PSILI AND OXIA", 7964>>,
    <<"GREEK CAPITAL LETTER EPSILON WITH DASIA AND OXIA", 7965>>,
    <<"GREEK SMALL LETTER ETA WITH PSILI", 7968>>, <<"GREEK SMALL LETTER ETA WITH DASIA", 7969>>,
    <<"GREEK SMALL LETTER ETA WITH PSILI AND VARIA", 7970>>,
    <<"GREEK SMALL LETTER ETA WITH DASIA AND VARIA", 7971>>,
    <<"GREEK SMALL LETTER ETA WITH PSILI AND OXIA", 7972>>,
    <<"GREEK SMALL LETTER ETA WITH DASIA AND OXIA", 7973>>,
    <<"GREEK SMALL LETTER ETA WITH PSILI AND PERISPOMENI", 7974>>,
    <<"GREEK SMALL LETTER ETA WITH DASIA AND PERISPOMENI", 7975>>,
    <<"GREEK CAPITAL LETTER ETA WITH PSILI", 7976>>, <<"GREEK CAPITAL LETTER ETA WITH DASIA", 7977>>,
    <<"GREEK CAPITAL LETTER ETA WITH PSILI AND VARIA", 7978>>,
    <<"GREEK CAPITAL LETTER ETA WITH DASIA AND VARIA", 7979>>,
    <<"GREEK CAPITAL LETTER ETA WITH PSILI AND OXIA", 7980>>,
    <<"GREEK CAPITAL LETTER ETA WITH DASIA AND OXIA", 7981>>,
    <<"GREEK CAPITAL LETTER ETA WITH PSILI AND PERISPOMENI", 7982>>,
    <<"GREEK CAPITAL LETTER ETA WITH DASIA AND PERISPOMENI", 7983>>,
    <<"GREEK SMALL LETTER IOTA WITH PSILI", 7984>>, <<"GREEK SMALL LETTER IOTA WITH DASIA", 7985>>,
    <<"GREEK SMALL LETTER IOTA WITH PSILI AND VARIA", 7986>>,
    <<"GREEK SMALL LETTER IOTA WITH DASIA AND VARIA", 7987>>,
    <<"GREEK SMALL LETTER IOTA WITH PSILI AND OXIA", 7988>>,
    <<"GREEK SMALL LETTER IOTA WITH DASIA AND OXIA", 7989>>,
    <<"GREEK SMALL LETTER IOTA WITH PSILI AND PERISPOMENI", 7990>>,
    <<"GREEK SMALL LETTER IOTA WITH DASIA AND PERISPOMENI", 7991>>,
    <<"GREEK CAPITAL LETTER IOTA WITH PSILI", 7992>>, <<"GREEK CAPITAL LETTER IOTA WITH DASIA", 7993>>,
    <<"GREEK CAPITAL LETTER IOTA WITH PSILI AND VARIA", 7994>>,
    <<"GREEK CAPITAL LETTER IOTA WITH DASIA AND VARIA", 7995>>,
    <<"GREEK CAPITAL LETTER IOTA WITH PSILI AND OXIA", 7996>>,
    <<"GREEK CAPITAL LETTER IOTA WITH DASIA AND OXIA", 7997>>,
    <<"GREEK CAPITAL LETTER IOTA WITH PSILI AND PERISPOMENI", 7998>>,
    <<"GREEK CAPITAL LETTER IOTA WITH DASIA AND PERISPOMENI", 7999>>,
    <<"GREEK SMALL LETTER OMICRON WITH PSILI", 8000>>,
    <<"GREEK SMALL LETTER OMICRON WITH DASIA", 8001>>,
    <<"GREEK SMALL LETTER OMICRON WITH PSILI AND VARIA", 8002>>,
    <<"GREEK SMALL LETTER OMICRON WITH DASIA AND VARIA", 8003>>,
    <<"GREEK SMALL LETTER OMICRON WITH PSILI AND OXIA", 8004>>,
    <<"GREEK SMALL LETTER OMICRON WITH DASIA AND OXIA", 8005>>,
    <<"GREEK CAPITAL LETTER OMICRON WITH PSILI", 8008>>,
    <<"GREEK CAPITAL LETTER OMICRON WITH DASIA", 8009>>,
    <<"GREEK CAPITAL LETTER OMICRON WITH PSILI AND VARIA", 8010>>,
    <<"GREEK CAPITAL LETTER OMICRON WITH DASIA AND VARIA", 8011>>,
    <<"GREEK CAPITAL LETTER OMICRON WITH PSILI AND OXIA", 8012>>,
    <<"GREEK CAPITAL LETTER OMICRON WITH DASIA AND OXIA", 8013>>,
    <<"GREEK SMALL LETTER UPSILON WITH PSILI", 8016>>,
    <<"GREEK SMALL LETTER UPSILON WITH DASIA", 8017>>,
    <<"GREEK SMALL LETTER UPSILON WITH PSILI AND VARIA", 8018>>,
    <<"GREEK SMALL LETTER UPSILON WITH DASIA AND VARIA", 8019>>,
    <<"GREEK SMALL LETTER UPSILON WITH PSILI AND OXIA", 8020>>,
    <<"GREEK SMALL LETTER UPSILON WITH DASIA AND OXIA", 8021>>,
    <<"GREEK SMALL LETTER UPSILON WITH PSILI AND PERISPOMENI", 8022>>,
    <<"GREEK SMALL LETTER UPSILON WITH DASIA AND PERISPOMENI", 8023>>,
    <<"GREEK CAPITAL LETTER UPSILON WITH DASIA", 8025>>,
    <<"GREEK CAPITAL LETTER UPSILON WITH DASIA AND VARIA", 8027>>,
    <<"GREEK CAPITAL LETTER UPSILON WITH DASIA AND OXIA", 8029>>,
    <<"GREEK CAPITAL LETTER UPSILON WITH DASIA AND PERISPOMENI", 8031>>,
    <<"GREEK SMALL LETTER OMEGA WITH PSILI", 8032>>, <<"GREEK SMALL LETTER OMEGA WITH DASIA", 8033>>,
    <<"GREEK SMALL LETTER OMEGA WITH PSILI AND VARIA", 8034>>,
    <<"GREEK SMALL LETTER OMEGA WITH DASIA AND VARIA", 8035>>,
    <<"GREEK SMALL LETTER OMEGA WITH PSILI AND OXIA", 8036>>,
    <<"GREEK SMALL LETTER OMEGA WITH DASIA AND OXIA", 8037>>,
    <<"GREEK SMALL LETTER OMEGA WITH PSILI AND PERISPOMENI", 8038>>,
    <<"GREEK SMALL LETTER OMEGA WITH DASIA AND PERISPOMENI", 8039>>,
    <<"GREEK CAPITAL LETTER OMEGA WITH PSILI", 8040>>,
    <<"GREEK CAPITAL LETTER OMEGA WITH DASIA", 8041>>,
    <<"GREEK CAPITAL LETTER OMEGA WITH PSILI AND VARIA", 8042>>,
    <<"GREEK CAPITAL LETTER OMEGA WITH DASIA AND VARIA", 8043>>,
    <<"GREEK CAPITAL LETTER OMEGA WITH PSILI AND OXIA", 8044>>,
    <<"GREEK CAPITAL LETTER OMEGA WITH DASIA AND OXIA", 8045>>,
    <<"GREEK CAPITAL LETTER OMEGA WITH PSILI AND PERISPOMENI", 8046>>,
    <<"GREEK CAPITAL LETTER OMEGA WITH DASIA AND PERISPOMENI", 8047>>,
    <<"GREEK SMALL LETTER ALPHA WITH VARIA", 8048>>, <<"GREEK SMALL LETTER ALPHA WITH OXIA", 8049>>,
    <<"GREEK SMALL LETTER EPSILON WITH VARIA", 8050>>,
    <<"GREEK SMALL LETTER EPSILON WITH OXIA", 8051>>, <<"GREEK SMALL LETTER ETA WITH VARIA", 8052>>,
    <<"GREEK SMALL LETTER ETA WITH OXIA", 8053>>, <<"GREEK SMALL LETTER IOTA WITH VARIA", 8054>>,
    <<"GREEK SMALL LETTER IOTA WITH OXIA", 8055>>, <<"GREEK SMALL LETTER OMICRON WITH VARIA", 8056>>,
    <<"GREEK SMALL LETTER OMICRON WITH OXIA", 8057>>,
    <<"GREEK SMALL LETTER UPSILON WITH VARIA", 8058>>,
    <<"GREEK SMALL LETTER UPSILON WITH OXIA", 8059>>, <<"GREEK SMALL LETTER OMEGA WITH VARIA", 8060>>,
    <<"GREEK SMALL LETTER OMEGA WITH OXIA", 8061>>,
    <<"GREEK SMALL LETTER ALPHA WITH PSILI AND YPOGEGRAMMENI", 8064>>,
    <<"GREEK SMALL LETTER ALPHA WITH DASIA AND YPOGEGRAMMENI", 8065>>,
    <<"GREEK SMALL LETTER ALPHA WITH PSILI AND VARIA AND YPOGEGRAMMENI", 8066>>,
    <<"GREEK SMALL LETTER ALPHA WITH DASIA AND VARIA AND YPOGEGRAMMENI", 8067>>,
    <<"GREEK SMALL LETTER ALPHA WITH PSILI AND OXIA AND YPOGEGRAMMENI", 8068>>,
    <<"GREEK SMALL LETTER ALPHA WITH DASIA AND OXIA AND YPOGEGRAMMENI", 8069>>,
    <<"GREEK SMALL LETTER ALPHA WITH PSILI AND PERISPOMENI AND YPOGEGRAMMENI", 8070>>,
    <<"GREEK SMALL LETTER ALPHA WITH DASIA AND PERISPOMENI AND YPOGEGRAMMENI", 8071>>,
    <<"GREEK CAPITAL LETTER ALPHA WITH PSILI AND PROSGEGRAMMENI", 8072>>,
    <<"GREEK CAPITAL LETTER ALPHA WITH DASIA AND PROSGEGRAMMENI", 8073>>,
    <<"GREEK CAPITAL LETTER ALPHA WITH PSILI AND VARIA AND PROSGEGRAMMENI", 8074>>,
    <<"GREEK CAPITAL LETTER ALPHA WITH DASIA AND VARIA AND PROSGEGRAMMENI", 8075>>,
    <<"GREEK CAPITAL LETTER ALPHA WITH PSILI AND OXIA AND PROSGEGRAMMENI", 8076>>,
    <<"GREEK CAPITAL LETTER ALPHA WITH DASIA AND OXIA AND PROSGEGRAMMENI", 8077>>,
    <<"GREEK CAPITAL LETTER ALPHA WITH PSILI AND PERISPOMENI AND PROSGEGRAMMENI", 8078>>,
    <<"GREEK CAPITAL LETTER ALPHA WITH DASIA AND PERISPOMENI AND PROSGEGRAMMENI", 8079>>,
    <<"GREEK SMALL LETTER ETA WITH PSILI AND YPOGEGRAMMENI", 8080>>,
    <<"GREEK SMALL LETTER ETA WITH DASIA AND YPOGEGRAMMENI", 8081>>,
    <<"GREEK SMALL LETTER ETA WITH PSILI AND VARIA AND YPOGEGRAMMENI", 8082>>,
    <<"GREEK SMALL LETTER ETA WITH DASIA AND VARIA AND YPOGEGRAMMENI", 8083>>,
    <<"GREEK SMALL LETTER ETA WITH PSILI AND OXIA AND YPOGEGRAMMENI", 8084>>,
    <<"GREEK SMALL LETTER ETA WITH DASIA AND OXIA AND YPOGEGRAMMENI", 8085>>,
    <<"GREEK SMALL LETTER ETA WITH PSILI AND PERISPOMENI AND YPOGEGRAMMENI", 8086>>,
    <<"GREEK SMALL LETTER ETA WITH DASIA AND PERISPOMENI AND YPOGEGRAMMENI", 8087>>,
    <<"GREEK CAPITAL LETTER ETA WITH PSILI AND PROSGEGRAMMENI", 8088>>,
    <<"GREEK CAPITAL LETTER ETA WITH DASIA AND PROSGEGRAMMENI", 8089>>,
    <<"GREEK CAPITAL LETTER ETA WITH PSILI AND VARIA AND PROSGEGRAMMENI", 8090>>,
    <<"GREEK CAPITAL LETTER ETA WITH DASIA AND VARIA AND PROSGEGRAMMENI", 8091>>,
    <<"GREEK CAPITAL LETTER ETA WITH PSILI AND OXIA AND PROSGEGRAMMENI", 8092>>,
    <<"GREEK CAPITAL LETTER ETA WITH DASIA AND OXIA AND PROSGEGRAMMENI", 8093>>,
    <<"GREEK CAPITAL LETTER ETA WITH PSILI AND PERISPOMENI AND PROSGEGRAMMENI", 8094>>,
    <<"GREEK CAPITAL LETTER ETA WITH DASIA AND PERISPOMENI AND PROSGEGRAMMENI", 8095>>,
    <<"GREEK SMALL LETTER OMEGA WITH PSILI AND YPOGEGRAMMENI", 8096>>,
    <<"GREEK SMALL LETTER OMEGA WITH DASIA AND YPOGEGRAMMENI", 8097>>,
    <<"GREEK SMALL LETTER OMEGA WITH PSILI AND VARIA AND YPOGEGRAMMENI", 8098>>,
    <<"GREEK SMALL LETTER OMEGA WITH DASIA AND VARIA AND YPOGEGRAMMENI", 8099>>,
    <<"GREEK SMALL LETTER OMEGA WITH PSILI AND OXIA AND YPOGEGRAMMENI", 8100>>,
    <<"GREEK SMALL LETTER OMEGA WITH DASIA AND OXIA AND YPOGEGRAMMENI", 8101>>,
    <<"GREEK SMALL LETTER OMEGA WITH PSILI AND PERISPOMENI AND YPOGEGRAMMENI", 8102>>,
    <<"GREEK SMALL LETTER OMEGA WITH DASIA AND PERISPOMENI AND YPOGEGRAMMENI", 8103>>,
    <<"GREEK CAPITAL LETTER OMEGA WITH PSILI AND PROSGEGRAMMENI", 8104>>,
    <<"GREEK CAPITAL LETTER OMEGA WITH DASIA AND PROSGEGRAMMENI", 8105>>,
    <<"GREEK CAPITAL LETTER OMEGA WITH PSILI AND VARIA AND PROSGEGRAMMENI", 8106>>,
    <<"GREEK CAPITAL LETTER OMEGA WITH DASIA AND VARIA AND PROSGEGRAMMENI", 8107>>,
    <<"GREEK CAPITAL LETTER OMEGA WITH PSILI AND OXIA AND PROSGEGRAMMENI", 8108>>,
    <<"GREEK CAPITAL LETTER OMEGA WITH DASIA AND OXIA AND PROSGEGRAMMENI", 8109>>,
    <<"GREEK CAPITAL LETTER OMEGA WITH PSILI AND PERISPOMENI AND PROSGEGRAMMENI", 8110>>,
    <<"GREEK CAPITAL LETTER OMEGA WITH DASIA AND PERISPOMENI AND PROSGEGRAMMENI", 8111>>,
    <<"GREEK SMALL LETTER ALPHA WITH VRACHY", 8112>>, <<"GREEK SMALL LETTER ALPHA WITH MACRON", 8113>>,
    <<"GREEK SMALL LETTER ALPHA WITH VARIA AND YPOGEGRAMMENI", 8114>>,
    <<"GREEK SMALL LETTER ALPHA WITH YPOGEGRAMMENI", 8115>>,
    <<"GREEK SMALL LETTER ALPHA WITH OXIA AND YPOGEGRAMMENI", 8116>>,
    <<"GREEK SMALL LETTER ALPHA WITH PERISPOMENI", 8118>>,
    <<"GREEK SMALL LETTER ALPHA WITH PERISPOMENI AND YPOGEGRAMMENI", 8119>>,
    <<"GREEK CAPITAL LETTER ALPHA WITH VRACHY", 8120>>,
    <<"GREEK CAPITAL LETTER ALPHA WITH MACRON", 8121>>,
    <<"GREEK CAPITAL LETTER ALPHA WITH VARIA", 8122>>,
    <<"GREEK CAPITAL LETTER ALPHA WITH OXIA", 8123>>,
    <<"GREEK CAPITAL LETTER ALPHA WITH PROSGEGRAMMENI", 8124>>, <<"GREEK KORONIS", 8125>>,
    <<"GREEK PROSGEGRAMMENI", 8126>>, <<"GREEK PSILI", 8127>>, <<"GREEK PERISPOMENI", 8128>>,
    <<"GREEK DIALYTIKA AND PERISPOMENI", 8129>>,
    <<"GREEK SMALL LETTER ETA WITH VARIA AND YPOGEGRAMMENI", 8130>>,
    <<"GREEK SMALL LETTER ETA WITH YPOGEGRAMMENI", 8131>>,
    <<"GREEK SMALL LETTER ETA WITH OXIA AND YPOGEGRAMMENI", 8132>>,
    <<"GREEK SMALL LETTER ETA WITH PERISPOMENI", 8134>>,
    <<"GREEK SMALL LETTER ETA WITH PERISPOMENI AND YPOGEGRAMMENI", 8135>>,
    <<"GREEK CAPITAL LETTER EPSILON WITH VARIA", 8136>>,
    <<"GREEK CAPITAL LETTER EPSILON WITH OXIA", 8137>>,
    <<"GREEK CAPITAL LETTER ETA WITH VARIA", 8138>>, <<"GREEK CAPITAL LETTER ETA WITH OXIA", 8139>>,
    <<"GREEK CAPITAL LETTER ETA WITH PROSGEGRAMMENI", 8140>>, <<"GREEK PSILI AND VARIA", 8141>>,
    <<"GREEK PSILI AND OXIA", 8142>>, <<"GREEK PSILI AND PERISPOMENI", 8143>>,
    <<"GREEK SMALL LETTER IOTA WITH VRACHY", 8144>>, <<"GREEK SMALL LETTER IOTA WITH MACRON", 8145>>,
    <<"GREEK SMALL LETTER IOTA WITH DIALYTIKA AND VARIA", 8146>>,
    <<"GREEK SMALL LETTER IOTA WITH DIALYTIKA AND OXIA", 8147>>,
    <<"GREEK SMALL LETTER IOTA WITH PERISPOMENI", 8150>>,
    <<"GREEK SMALL LETTER IOTA WITH DIALYTIKA AND PERISPOMENI", 8151>>,
    <<"GREEK CAPITAL LETTER IOTA WITH VRACHY", 8152>>,
    <<"GREEK CAPITAL LETTER IOTA WITH MACRON", 8153>>,
    <<"GREEK CAPITAL LETTER IOTA WITH VARIA", 8154>>, <<"GREEK CAPITAL LETTER IOTA WITH OXIA", 8155>>,
    <<"GREEK DASIA AND VARIA", 8157>>, <<"GREEK DASIA AND OXIA", 8158>>,
    <<"GREEK DASIA AND PERISPOMENI", 8159>>, <<"GREEK SMALL LETTER UPSILON WITH VRACHY", 8160>>,
    <<"GREEK SMALL LETTER UPSILON WITH MACRON", 8161>>,
    <<"GREEK SMALL LETTER UPSILON WITH DIALYTIKA AND VARIA", 8162>>,
    <<"GREEK SMALL LETTER UPSILON WITH DIALYTIKA AND OXIA", 8163>>,
    <<"GREEK SMALL LETTER RHO WITH PSILI", 8164>>, <<"GREEK SMALL LETTER RHO WITH DASIA", 8165>>,
    <<"GREEK SMALL LETTER UPSILON WITH PERISPOMENI", 8166>>,
    <<"GREEK SMALL LETTER UPSILON WITH DIALYTIKA AND PERISPOMENI", 8167>>,
    <<"GREEK CAPITAL LETTER UPSILON WITH VRACHY", 8168>>,
    <<"GREEK CAPITAL LETTER UPSILON WITH MACRON", 8169>>,
    <<"GREEK CAPITAL LETTER UPSILON WITH VARIA", 8170>>,
    <<"GREEK CAPITAL LETTER UPSILON WITH OXIA", 8171>>,
    <<"GREEK CAPITAL LETTER RHO WITH DASIA", 8172>>, <<"GREEK DIALYTIKA AND VARIA", 8173>>,
    <<"GREEK DIALYTIKA AND OXIA", 8174>>, <<"GREEK VARIA", 8175>>,
    <<"GREEK SMALL LETTER OMEGA WITH VARIA AND YPOGEGRAMMENI", 8178>>,
    <<"GREEK SMALL LETTER OMEGA WITH YPOGEGRAMMENI", 8179>>,
    <<"GREEK SMALL LETTER OMEGA WITH OXIA AND YPOGEGRAMMENI", 8180>>,
    <<"GREEK SMALL LETTER OMEGA WITH PERISPOMENI", 8182>>,
    <<"GREEK SMALL LETTER OMEGA WITH PERISPOMENI AND YPOGEGRAMMENI", 8183>>,
    <<"GREEK CAPITAL LETTER OMICRON WITH VARIA", 8184>>,
    <<"GREEK CAPITAL LETTER OMICRON WITH OXIA", 8185>>,
    <<"GREEK CAPITAL LETTER OMEGA WITH VARIA", 8186>>,
    <<"GREEK CAPITAL LETTER OMEGA WITH OXIA", 8187>>,
    <<"GREEK CAPITAL LETTER OMEGA WITH PROSGEGRAMMENI", 8188>>, <<"GREEK OXIA", 8189>>,
    <<"GREEK DASIA", 8190>>, <<"EN QUAD", 8192>>, <<"EM QUAD", 8193>>, <<"EN SPACE", 8194>>,
    <<"EM SPACE", 8195>>, <<"THREE-PER-EM SPACE", 8196>>, <<"FOUR-PER-EM SPACE", 8197>>,
    <<"SIX-PER-EM SPACE", 8198>>, <<"FIGURE SPACE", 8199>>, <<"PUNCTUATION SPACE", 8200>>,
    <<"THIN SPACE", 8201>>, <<"HAIR SPACE", 8202>>, <<"ZERO WIDTH SPACE", 8203>>, <<"ZWSP", 8203>>,
    <<"ZERO WIDTH NON-JOINER", 8204>>, <<"ZWNJ", 8204>>, <<"ZERO WIDTH JOINER", 8205>>,
    <<"ZWJ", 8205>>, <<"LEFT-TO-RIGHT MARK", 8206>>, <<"LRM", 8206>>, <<"RIGHT-TO-LEFT MARK", 8207>>,
    <<"RLM", 8207>>, <<"HYPHEN", 8208>>, <<"NON-BREAKING HYPHEN", 8209>>, <<"FIGURE DASH", 8210>>,
    <<"EN DASH", 8211>>, <<"EM DASH", 8212>>, <<"HORIZONTAL BAR", 8213>>,
    <<"DOUBLE VERTICAL LINE", 8214>>, <<"DOUBLE LOW LINE", 8215>>,
    <<"LEFT SINGLE QUOTATION MARK", 8216>>, <<"RIGHT SINGLE QUOTATION MARK", 8217>>,
    <<"SINGLE LOW-9 QUOTATION MARK", 8218>>, <<"SINGLE HIGH-REVERSED-9 QUOTATION MARK", 8219>>,
    <<"LEFT DOUBLE QUOTATION MARK", 8220>>, <<"RIGHT DOUBLE QUOTATION MARK", 8221>>,
    <<"DOUBLE LOW-9 QUOTATION MARK", 8222>>, <<"DOUBLE HIGH-REVERSED-9 QUOTATION MARK", 8223>>,
    <<"DAGGER", 8224>>, <<"DOUBLE DAGGER", 8225>>, <<"BULLET", 8226>>, <<"TRIANGULAR BULLET", 8227>>,
    <<"ONE DOT LEADER", 8228>>, <<"TWO DOT LEADER", 8229>>, <<"HORIZONTAL ELLIPSIS", 8230>>,
    <<"HYPHENATION POINT", 8231>>, <<"LINE SEPARATOR", 8232>>, <<"PARAGRAPH SEPARATOR", 8233>>,
    <<"LEFT-TO-RIGHT EMBEDDING", 8234>>, <<"LRE", 8234>>, <<"RIGHT-TO-LEFT EMBEDDING", 8235>>,
    <<"RLE", 8235>>, <<"PDF", 8236>>, <<"POP DIRECTIONAL FORMATTING", 8236>>,
    <<"LEFT-TO-RIGHT OVERRIDE", 8237>>, <<"LRO", 8237>>, <<"RIGHT-TO-LEFT OVERRIDE", 8238>>,
    <<"RLO", 8238>>, <<"NARROW NO-BREAK SPACE", 8239>>, <<"NNBSP", 8239>>, <<"PER MILLE SIGN", 8240>>,
    <<"PER TEN THOUSAND SIGN", 8241>>, <<"PRIME", 8242>>, <<"DOUBLE PRIME", 8243>>,
    <<"TRIPLE PRIME", 8244>>, <<"REVERSED PRIME", 8245>>, <<"REVERSED DOUBLE PRIME", 8246>>,
    <<"REVERSED TRIPLE PRIME", 8247>>, <<"CARET", 8248>>,
    <<"SINGLE LEFT-POINTING ANGLE QUOTATION MARK", 8249>>,
    <<"SINGLE RIGHT-POINTING ANGLE QUOTATION MARK", 8250>>, <<"REFERENCE MARK", 8251>>,
    <<"DOUBLE EXCLAMATION MARK", 8252>>, <<"INTERROBANG", 8253>>, <<"OVERLINE", 8254>>,
    <<"UNDERTIE", 8255>>, <<"CHARACTER TIE", 8256>>, <<"CARET INSERTION POINT", 8257>>,
    <<"ASTERISM", 8258>>, <<"HYPHEN BULLET", 8259>>, <<"FRACTION SLASH", 8260>>,
    <<"LEFT SQUARE BRACKET WITH QUILL", 8261>>, <<"RIGHT SQUARE BRACKET WITH QUILL", 8262>>,
    <<"DOUBLE QUESTION MARK", 8263>>, <<"QUESTION EXCLAMATION MARK", 8264>>,
    <<"EXCLAMATION QUESTION MARK", 8265>>, <<"TIRONIAN SIGN ET", 8266>>,
    <<"REVERSED PILCROW SIGN", 8267>>, <<"BLACK LEFTWARDS BULLET", 8268>>,
    <<"BLACK RIGHTWARDS BULLET", 8269>>, <<"LOW ASTERISK", 8270>>, <<"REVERSED SEMICOLON", 8271>>,
    <<"CLOSE UP", 8272>>, <<"TWO ASTERISKS ALIGNED VERTICALLY", 8273>>,
    <<"COMMERCIAL MINUS SIGN", 8274>>, <<"SWUNG DASH", 8275>>, <<"INVERTED UNDERTIE", 8276>>,
    <<"FLOWER PUNCTUATION MARK", 8277>>, <<"THREE DOT PUNCTUATION", 8278>>,
    <<"QUADRUPLE PRIME", 8279>>, <<"FOUR DOT PUNCTUATION", 8280>>, <<"FIVE DOT PUNCTUATION", 8281>>,
    <<"TWO DOT PUNCTUATION", 8282>>, <<"FOUR DOT MARK", 8283>>, <<"DOTTED CROSS", 8284>>,
    <<"TRICOLON", 8285>>, <<"VERTICAL FOUR DOTS", 8286>>, <<"MEDIUM MATHEMATICAL SPACE", 8287>>,
    <<"MMSP", 8287>>, <<"WJ", 8288>>, <<"WORD JOINER", 8288>>, <<"FUNCTION APPLICATION", 8289>>,
    <<"INVISIBLE TIMES", 8290>>, <<"INVISIBLE SEPARATOR", 8291>>, <<"INVISIBLE PLUS", 8292>>,
    <<"LEFT-TO-RIGHT ISOLATE", 8294>>, <<"LRI", 8294>>, <<"RIGHT-TO-LEFT ISOLATE", 8295>>,
    <<"RLI", 8295>>, <<"FIRST STRONG ISOLATE", 8296>>, <<"FSI", 8296>>, <<"PDI", 8297>>,
    <<"POP DIRECTIONAL ISOLATE", 8297>>, <<"INHIBIT SYMMETRIC SWAPPING", 8298>>,
    <<"ACTIVATE SYMMETRIC SWAPPING", 8299>>, <<"INHIBIT ARABIC FORM SHAPING", 8300>>,
    <<"ACTIVATE ARABIC FORM SHAPING", 8301>>, <<"NATIONAL DIGIT SHAPES", 8302>>,
    <<"NOMINAL DIGIT SHAPES", 8303>>, <<"SUPERSCRIPT ZERO", 8304>>,
    <<"SUPERSCRIPT LATIN SMALL LETTER I", 8305>>, <<"SUPERSCRIPT FOUR", 8308>>,
    <<"SUPERSCRIPT FIVE", 8309>>, <<"SUPERSCRIPT SIX", 8310>>, <<"SUPERSCRIPT SEVEN", 8311>>,
    <<"SUPERSCRIPT EIGHT", 8312>>, <<"SUPERSCRIPT NINE", 8313>>, <<"SUPERSCRIPT PLUS SIGN", 8314>>,
    <<"SUPERSCRIPT MINUS", 8315>>, <<"SUPERSCRIPT EQUALS SIGN", 8316>>,
    <<"SUPERSCRIPT LEFT PARENTHESIS", 8317>>, <<"SUPERSCRIPT RIGHT PARENTHESIS", 8318>>,
    <<"SUPERSCRIPT LATIN SMALL LETTER N", 8319>>, <<"SUBSCRIPT ZERO", 8320>>,
    <<"SUBSCRIPT ONE", 8321>>, <<"SUBSCRIPT TWO", 8322>>, <<"SUBSCRIPT THREE", 8323>>,
    <<"SUBSCRIPT FOUR", 8324>>, <<"SUBSCRIPT FIVE", 8325>>, <<"SUBSCRIPT SIX", 8326>>,
    <<"SUBSCRIPT SEVEN", 8327>>, <<"SUBSCRIPT EIGHT", 8328>>, <<"SUBSCRIPT NINE", 8329>>,
    <<"SUBSCRIPT PLUS SIGN", 8330>>, <<"SUBSCRIPT MINUS", 8331>>, <<"SUBSCRIPT EQUALS SIGN", 8332>>,
    <<"SUBSCRIPT LEFT PARENTHESIS", 8333>>, <<"SUBSCRIPT RIGHT PARENTHESIS", 8334>>,
    <<"LATIN SUBSCRIPT SMALL LETTER A", 8336>>, <<"LATIN SUBSCRIPT SMALL LETTER E", 8337>>,
    <<"LATIN SUBSCRIPT SMALL LETTER O", 8338>>, <<"LATIN SUBSCRIPT SMALL LETTER X", 8339>>,
    <<"LATIN SUBSCRIPT SMALL LETTER SCHWA", 8340>>, <<"LATIN SUBSCRIPT SMALL LETTER H", 8341>>,
    <<"LATIN SUBSCRIPT SMALL LETTER K", 8342>>, <<"LATIN SUBSCRIPT SMALL LETTER L", 8343>>,
    <<"LATIN SUBSCRIPT SMALL LETTER M", 8344>>, <<"LATIN SUBSCRIPT SMALL LETTER N", 8345>>,
    <<"LATIN SUBSCRIPT SMALL LETTER P", 8346>>, <<"LATIN SUBSCRIPT SMALL LETTER S", 8347>>,
    <<"LATIN SUBSCRIPT SMALL LETTER T", 8348>>, <<"EURO-CURRENCY SIGN", 8352>>, <<"COLON SIGN", 8353>>,
    <<"CRUZEIRO SIGN", 8354>>, <<"FRENCH FRANC SIGN", 8355>>, <<"LIRA SIGN", 8356>>,
    <<"MILL SIGN", 8357>>, <<"NAIRA SIGN", 8358>>, <<"PESETA SIGN", 8359>>, <<"RUPEE SIGN", 8360>>,
    <<"WON SIGN", 8361>>, <<"NEW SHEQEL SIGN", 8362>>, <<"DONG SIGN", 8363>>, <<"EURO SIGN", 8364>>,
    <<"KIP SIGN", 8365>>, <<"TUGRIK SIGN", 8366>>, <<"DRACHMA SIGN", 8367>>,
    <<"GERMAN PENNY SIGN", 8368>>, <<"PESO SIGN", 8369>>, <<"GUARANI SIGN", 8370>>,
    <<"AUSTRAL SIGN", 8371>>, <<"HRYVNIA SIGN", 8372>>, <<"CEDI SIGN", 8373>>,
    <<"LIVRE TOURNOIS SIGN", 8374>>, <<"SPESMILO SIGN", 8375>>, <<"TENGE SIGN", 8376>>,
    <<"INDIAN RUPEE SIGN", 8377>>, <<"TURKISH LIRA SIGN", 8378>>, <<"NORDIC MARK SIGN", 8379>>,
    <<"MANAT SIGN", 8380>>, <<"RUBLE SIGN", 8381>>, <<"LARI SIGN", 8382>>, <<"BITCOIN SIGN", 8383>>,
    <<"SOM SIGN", 8384>>, <<"COMBINING LEFT HARPOON ABOVE", 8400>>,
    <<"COMBINING RIGHT HARPOON ABOVE", 8401>>, <<"COMBINING LONG VERTICAL LINE OVERLAY", 8402>>,
    <<"COMBINING SHORT VERTICAL LINE OVERLAY", 8403>>, <<"COMBINING ANTICLOCKWISE ARROW ABOVE", 8404>>,
    <<"COMBINING CLOCKWISE ARROW ABOVE", 8405>>, <<"COMBINING LEFT ARROW ABOVE", 8406>>,
    <<"COMBINING RIGHT ARROW ABOVE", 8407>>, <<"COMBINING RING OVERLAY", 8408>>,
    <<"COMBINING CLOCKWISE RING OVERLAY", 8409>>, <<"COMBINING ANTICLOCKWISE RING OVERLAY", 8410>>,
    <<"COMBINING THREE DOTS ABOVE", 8411>>, <<"COMBINING FOUR DOTS ABOVE", 8412>>,
    <<"COMBINING ENCLOSING CIRCLE", 8413>>, <<"COMBINING ENCLOSING SQUARE", 8414>>,
    <<"COMBINING ENCLOSING DIAMOND", 8415>>, <<"COMBINING ENCLOSING CIRCLE BACKSLASH", 8416>>,
    <<"COMBINING LEFT RIGHT ARROW ABOVE", 8417>>, <<"COMBINING ENCLOSING SCREEN", 8418>>,
    <<"COMBINING ENCLOSING KEYCAP", 8419>>, <<"COMBINING ENCLOSING UPWARD POINTING TRIANGLE", 8420>>,
    <<"COMBINING REVERSE SOLIDUS OVERLAY", 8421>>,
    <<"COMBINING DOUBLE VERTICAL STROKE OVERLAY", 8422>>, <<"COMBINING ANNUITY SYMBOL", 8423>>,
    <<"COMBINING TRIPLE UNDERDOT", 8424>>, <<"COMBINING WIDE BRIDGE ABOVE", 8425>>,
    <<"COMBINING LEFTWARDS ARROW OVERLAY", 8426>>, <<"COMBINING LONG DOUBLE SOLIDUS OVERLAY", 8427>>,
    <<"COMBINING RIGHTWARDS HARPOON WITH BARB DOWNWARDS", 8428>>,
    <<"COMBINING LEFTWARDS HARPOON WITH BARB DOWNWARDS", 8429>>,
    <<"COMBINING LEFT ARROW BELOW", 8430>>, <<"COMBINING RIGHT ARROW BELOW", 8431>>,
    <<"COMBINING ASTERISK ABOVE", 8432>>, <<"ACCOUNT OF", 8448>>, <<"ADDRESSED TO THE SUBJECT", 8449>>,
    <<"DOUBLE-STRUCK CAPITAL C", 8450>>, <<"DEGREE CELSIUS", 8451>>, <<"CENTRE LINE SYMBOL", 8452>>,
    <<"CARE OF", 8453>>, <<"CADA UNA", 8454>>, <<"EULER CONSTANT", 8455>>, <<"SCRUPLE", 8456>>,
    <<"DEGREE FAHRENHEIT", 8457>>, <<"SCRIPT SMALL G", 8458>>, <<"SCRIPT CAPITAL H", 8459>>,
    <<"BLACK-LETTER CAPITAL H", 8460>>, <<"DOUBLE-STRUCK CAPITAL H", 8461>>,
    <<"PLANCK CONSTANT", 8462>>, <<"PLANCK CONSTANT OVER TWO PI", 8463>>, <<"SCRIPT CAPITAL I", 8464>>,
    <<"BLACK-LETTER CAPITAL I", 8465>>, <<"SCRIPT CAPITAL L", 8466>>, <<"SCRIPT SMALL L", 8467>>,
    <<"L B BAR SYMBOL", 8468>>, <<"DOUBLE-STRUCK CAPITAL N", 8469>>, <<"NUMERO SIGN", 8470>>,
    <<"SOUND RECORDING COPYRIGHT", 8471>>, <<"SCRIPT CAPITAL P", 8472>>,
    <<"WEIERSTRASS ELLIPTIC FUNCTION", 8472>>, <<"DOUBLE-STRUCK CAPITAL P", 8473>>,
    <<"DOUBLE-STRUCK CAPITAL Q", 8474>>, <<"SCRIPT CAPITAL R", 8475>>,
    <<"BLACK-LETTER CAPITAL R", 8476>>, <<"DOUBLE-STRUCK CAPITAL R", 8477>>,
    <<"PRESCRIPTION TAKE", 8478>>, <<"RESPONSE", 8479>>, <<"SERVICE MARK", 8480>>,
    <<"TELEPHONE SIGN", 8481>>, <<"TRADE MARK SIGN", 8482>>, <<"VERSICLE", 8483>>,
    <<"DOUBLE-STRUCK CAPITAL Z", 8484>>, <<"OUNCE SIGN", 8485>>, <<"OHM SIGN", 8486>>,
    <<"INVERTED OHM SIGN", 8487>>, <<"BLACK-LETTER CAPITAL Z", 8488>>,
    <<"TURNED GREEK SMALL LETTER IOTA", 8489>>, <<"KELVIN SIGN", 8490>>, <<"ANGSTROM SIGN", 8491>>,
    <<"SCRIPT CAPITAL B", 8492>>, <<"BLACK-LETTER CAPITAL C", 8493>>, <<"ESTIMATED SYMBOL", 8494>>,
    <<"SCRIPT SMALL E", 8495>>, <<"SCRIPT CAPITAL E", 8496>>, <<"SCRIPT CAPITAL F", 8497>>,
    <<"TURNED CAPITAL F", 8498>>, <<"SCRIPT CAPITAL M", 8499>>, <<"SCRIPT SMALL O", 8500>>,
    <<"ALEF SYMBOL", 8501>>, <<"BET SYMBOL", 8502>>, <<"GIMEL SYMBOL", 8503>>,
    <<"DALET SYMBOL", 8504>>, <<"INFORMATION SOURCE", 8505>>, <<"ROTATED CAPITAL Q", 8506>>,
    <<"FACSIMILE SIGN", 8507>>, <<"DOUBLE-STRUCK SMALL PI", 8508>>,
    <<"DOUBLE-STRUCK SMALL GAMMA", 8509>>, <<"DOUBLE-STRUCK CAPITAL GAMMA", 8510>>,
    <<"DOUBLE-STRUCK CAPITAL PI", 8511>>, <<"DOUBLE-STRUCK N-ARY SUMMATION", 8512>>,
    <<"TURNED SANS-SERIF CAPITAL G", 8513>>, <<"TURNED SANS-SERIF CAPITAL L", 8514>>,
    <<"REVERSED SANS-SERIF CAPITAL L", 8515>>, <<"TURNED SANS-SERIF CAPITAL Y", 8516>>,
    <<"DOUBLE-STRUCK ITALIC CAPITAL D", 8517>>, <<"DOUBLE-STRUCK ITALIC SMALL D", 8518>>,
    <<"DOUBLE-STRUCK ITALIC SMALL E", 8519>>, <<"DOUBLE-STRUCK ITALIC SMALL I", 8520>>,
    <<"DOUBLE-STRUCK ITALIC SMALL J", 8521>>, <<"PROPERTY LINE", 8522>>, <<"TURNED AMPERSAND", 8523>>,
    <<"PER SIGN", 8524>>, <<"AKTIESELSKAB", 8525>>, <<"TURNED SMALL F", 8526>>,
    <<"SYMBOL FOR SAMARITAN SOURCE", 8527>>, <<"VULGAR FRACTION ONE SEVENTH", 8528>>,
    <<"VULGAR FRACTION ONE NINTH", 8529>>, <<"VULGAR FRACTION ONE TENTH", 8530>>,
    <<"VULGAR FRACTION ONE THIRD", 8531>>, <<"VULGAR FRACTION TWO THIRDS", 8532>>,
    <<"VULGAR FRACTION ONE FIFTH", 8533>>, <<"VULGAR FRACTION TWO FIFTHS", 8534>>,
    <<"VULGAR FRACTION THREE FIFTHS", 8535>>, <<"VULGAR FRACTION FOUR FIFTHS", 8536>>,
    <<"VULGAR FRACTION ONE SIXTH", 8537>>, <<"VULGAR FRACTION FIVE SIXTHS", 8538>>,
    <<"VULGAR FRACTION ONE EIGHTH", 8539>>, <<"VULGAR FRACTION THREE EIGHTHS", 8540>>,
    <<"VULGAR FRACTION FIVE EIGHTHS", 8541>>, <<"VULGAR FRACTION SEVEN EIGHTHS", 8542>>,
    <<"FRACTION NUMERATOR ONE", 8543>>, <<"ROMAN NUMERAL ONE", 8544>>, <<"ROMAN NUMERAL TWO", 8545>>,
    <<"ROMAN NUMERAL THREE", 8546>>, <<"ROMAN NUMERAL FOUR", 8547>>, <<"ROMAN NUMERAL FIVE", 8548>>,
    <<"ROMAN NUMERAL SIX", 8549>>, <<"ROMAN NUMERAL SEVEN", 8550>>, <<"ROMAN NUMERAL EIGHT", 8551>>,
    <<"ROMAN NUMERAL NINE", 8552>>, <<"ROMAN NUMERAL TEN", 8553>>, <<"ROMAN NUMERAL ELEVEN", 8554>>,
    <<"ROMAN NUMERAL TWELVE", 8555>>, <<"ROMAN NUMERAL FIFTY", 8556>>,
    <<"ROMAN NUMERAL ONE HUNDRED", 8557>>, <<"ROMAN NUMERAL FIVE HUNDRED", 8558>>,
    <<"ROMAN NUMERAL ONE THOUSAND", 8559>>, <<"SMALL ROMAN NUMERAL ONE", 8560>>,
    <<"SMALL ROMAN NUMERAL TWO", 8561>>, <<"SMALL ROMAN NUMERAL THREE", 8562>>,
    <<"SMALL ROMAN NUMERAL FOUR", 8563>>, <<"SMALL ROMAN NUMERAL FIVE", 8564>>,
    <<"SMALL ROMAN NUMERAL SIX", 8565>>, <<"SMALL ROMAN NUMERAL SEVEN", 8566>>,
    <<"SMALL ROMAN NUMERAL EIGHT", 8567>>, <<"SMALL ROMAN NUMERAL NINE", 8568>>,
    <<"SMALL ROMAN NUMERAL TEN", 8569>>, <<"SMALL ROMAN NUMERAL ELEVEN", 8570>>,
    <<"SMALL ROMAN NUMERAL TWELVE", 8571>>, <<"SMALL ROMAN NUMERAL FIFTY", 8572>>,
    <<"SMALL ROMAN NUMERAL ONE HUNDRED", 8573>>, <<"SMALL ROMAN NUMERAL FIVE HUNDRED", 8574>>,
    <<"SMALL ROMAN NUMERAL ONE THOUSAND", 8575>>, <<"ROMAN NUMERAL ONE THOUSAND C D", 8576>>,
    <<"ROMAN NUMERAL FIVE THOUSAND", 8577>>, <<"ROMAN NUMERAL TEN THOUSAND", 8578>>,
    <<"ROMAN NUMERAL REVERSED ONE HUNDRED", 8579>>, <<"LATIN SMALL LETTER REVERSED C", 8580>>,
    <<"ROMAN NUMERAL SIX LATE FORM", 8581>>, <<"ROMAN NUMERAL FIFTY EARLY FORM", 8582>>,
    <<"ROMAN NUMERAL FIFTY THOUSAND", 8583>>, <<"ROMAN NUMERAL ONE HUNDRED THOUSAND", 8584>>,
    <<"VULGAR FRACTION ZERO THIRDS", 8585>>, <<"TURNED DIGIT TWO", 8586>>,
    <<"TURNED DIGIT THREE", 8587>>, <<"LEFTWARDS ARROW", 8592>>, <<"UPWARDS ARROW", 8593>>,
    <<"RIGHTWARDS ARROW", 8594>>, <<"DOWNWARDS ARROW", 8595>>, <<"LEFT RIGHT ARROW", 8596>>,
    <<"UP DOWN ARROW", 8597>>, <<"NORTH WEST ARROW", 8598>>, <<"NORTH EAST ARROW", 8599>>,
    <<"SOUTH EAST ARROW", 8600>>, <<"SOUTH WEST ARROW", 8601>>,
    <<"LEFTWARDS ARROW WITH STROKE", 8602>>, <<"RIGHTWARDS ARROW WITH STROKE", 8603>>,
    <<"LEFTWARDS WAVE ARROW", 8604>>, <<"RIGHTWARDS WAVE ARROW", 8605>>,
    <<"LEFTWARDS TWO HEADED ARROW", 8606>>, <<"UPWARDS TWO HEADED ARROW", 8607>>,
    <<"RIGHTWARDS TWO HEADED ARROW", 8608>>, <<"DOWNWARDS TWO HEADED ARROW", 8609>>,
    <<"LEFTWARDS ARROW WITH TAIL", 8610>>, <<"RIGHTWARDS ARROW WITH TAIL", 8611>>,
    <<"LEFTWARDS ARROW FROM BAR", 8612>>, <<"UPWARDS ARROW FROM BAR", 8613>>,
    <<"RIGHTWARDS ARROW FROM BAR", 8614>>, <<"DOWNWARDS ARROW FROM BAR", 8615>>,
    <<"UP DOWN ARROW WITH BASE", 8616>>, <<"LEFTWARDS ARROW WITH HOOK", 8617>>,
    <<"RIGHTWARDS ARROW WITH HOOK", 8618>>, <<"LEFTWARDS ARROW WITH LOOP", 8619>>,
    <<"RIGHTWARDS ARROW WITH LOOP", 8620>>, <<"LEFT RIGHT WAVE ARROW", 8621>>,
    <<"LEFT RIGHT ARROW WITH STROKE", 8622>>, <<"DOWNWARDS ZIGZAG ARROW", 8623>>,
    <<"UPWARDS ARROW WITH TIP LEFTWARDS", 8624>>, <<"UPWARDS ARROW WITH TIP RIGHTWARDS", 8625>>,
    <<"DOWNWARDS ARROW WITH TIP LEFTWARDS", 8626>>, <<"DOWNWARDS ARROW WITH TIP RIGHTWARDS", 8627>>,
    <<"RIGHTWARDS ARROW WITH CORNER DOWNWARDS", 8628>>,
    <<"DOWNWARDS ARROW WITH CORNER LEFTWARDS", 8629>>, <<"ANTICLOCKWISE TOP SEMICIRCLE ARROW", 8630>>,
    <<"CLOCKWISE TOP SEMICIRCLE ARROW", 8631>>, <<"NORTH WEST ARROW TO LONG BAR", 8632>>,
    <<"LEFTWARDS ARROW TO BAR OVER RIGHTWARDS ARROW TO BAR", 8633>>,
    <<"ANTICLOCKWISE OPEN CIRCLE ARROW", 8634>>, <<"CLOCKWISE OPEN CIRCLE ARROW", 8635>>,
    <<"LEFTWARDS HARPOON WITH BARB UPWARDS", 8636>>, <<"LEFTWARDS HARPOON WITH BARB DOWNWARDS", 8637>>,
    <<"UPWARDS HARPOON WITH BARB RIGHTWARDS", 8638>>, <<"UPWARDS HARPOON WITH BARB LEFTWARDS", 8639>>,
    <<"RIGHTWARDS HARPOON WITH BARB UPWARDS", 8640>>,
    <<"RIGHTWARDS HARPOON WITH BARB DOWNWARDS", 8641>>,
    <<"DOWNWARDS HARPOON WITH BARB RIGHTWARDS", 8642>>,
    <<"DOWNWARDS HARPOON WITH BARB LEFTWARDS", 8643>>,
    <<"RIGHTWARDS ARROW OVER LEFTWARDS ARROW", 8644>>,
    <<"UPWARDS ARROW LEFTWARDS OF DOWNWARDS ARROW", 8645>>,
    <<"LEFTWARDS ARROW OVER RIGHTWARDS ARROW", 8646>>, <<"LEFTWARDS PAIRED ARROWS", 8647>>,
    <<"UPWARDS PAIRED ARROWS", 8648>>, <<"RIGHTWARDS PAIRED ARROWS", 8649>>,
    <<"DOWNWARDS PAIRED ARROWS", 8650>>, <<"LEFTWARDS HARPOON OVER RIGHTWARDS HARPOON", 8651>>,
    <<"RIGHTWARDS HARPOON OVER LEFTWARDS HARPOON", 8652>>,
    <<"LEFTWARDS DOUBLE ARROW WITH STROKE", 8653>>, <<"LEFT RIGHT DOUBLE ARROW WITH STROKE", 8654>>,
    <<"RIGHTWARDS DOUBLE ARROW WITH STROKE", 8655>>, <<"LEFTWARDS DOUBLE ARROW", 8656>>,
    <<"UPWARDS DOUBLE ARROW", 8657>>, <<"RIGHTWARDS DOUBLE ARROW", 8658>>,
    <<"DOWNWARDS DOUBLE ARROW", 8659>>, <<"LEFT RIGHT DOUBLE ARROW", 8660>>,
    <<"UP DOWN DOUBLE ARROW", 8661>>, <<"NORTH WEST DOUBLE ARROW", 8662>>,
    <<"NORTH EAST DOUBLE ARROW", 8663>>, <<"SOUTH EAST DOUBLE ARROW", 8664>>,
    <<"SOUTH WEST DOUBLE ARROW", 8665>>, <<"LEFTWARDS TRIPLE ARROW", 8666>>,
    <<"RIGHTWARDS TRIPLE ARROW", 8667>>, <<"LEFTWARDS SQUIGGLE ARROW", 8668>>,
    <<"RIGHTWARDS SQUIGGLE ARROW", 8669>>, <<"UPWARDS ARROW WITH DOUBLE STROKE", 8670>>,
    <<"DOWNWARDS ARROW WITH DOUBLE STROKE", 8671>>, <<"LEFTWARDS DASHED ARROW", 8672>>,
    <<"UPWARDS DASHED ARROW", 8673>>, <<"RIGHTWARDS DASHED ARROW", 8674>>,
    <<"DOWNWARDS DASHED ARROW", 8675>>, <<"LEFTWARDS ARROW TO BAR", 8676>>,
    <<"RIGHTWARDS ARROW TO BAR", 8677>>, <<"LEFTWARDS WHITE ARROW", 8678>>,
    <<"UPWARDS WHITE ARROW", 8679>>, <<"RIGHTWARDS WHITE ARROW", 8680>>,
    <<"DOWNWARDS WHITE ARROW", 8681>>, <<"UPWARDS WHITE ARROW FROM BAR", 8682>>,
    <<"UPWARDS WHITE ARROW ON PEDESTAL", 8683>>,
    <<"UPWARDS WHITE ARROW ON PEDESTAL WITH HORIZONTAL BAR", 8684>>,
    <<"UPWARDS WHITE ARROW ON PEDESTAL WITH VERTICAL BAR", 8685>>,
    <<"UPWARDS WHITE DOUBLE ARROW", 8686>>, <<"UPWARDS WHITE DOUBLE ARROW ON PEDESTAL", 8687>>,
    <<"RIGHTWARDS WHITE ARROW FROM WALL", 8688>>, <<"NORTH WEST ARROW TO CORNER", 8689>>,
    <<"SOUTH EAST ARROW TO CORNER", 8690>>, <<"UP DOWN WHITE ARROW", 8691>>,
    <<"RIGHT ARROW WITH SMALL CIRCLE", 8692>>, <<"DOWNWARDS ARROW LEFTWARDS OF UPWARDS ARROW", 8693>>,
    <<"THREE RIGHTWARDS ARROWS", 8694>>, <<"LEFTWARDS ARROW WITH VERTICAL STROKE", 8695>>,
    <<"RIGHTWARDS ARROW WITH VERTICAL STROKE", 8696>>,
    <<"LEFT RIGHT ARROW WITH VERTICAL STROKE", 8697>>,
    <<"LEFTWARDS ARROW WITH DOUBLE VERTICAL STROKE", 8698>>,
    <<"RIGHTWARDS ARROW WITH DOUBLE VERTICAL STROKE", 8699>>,
    <<"LEFT RIGHT ARROW WITH DOUBLE VERTICAL STROKE", 8700>>, <<"LEFTWARDS OPEN-HEADED ARROW", 8701>>,
    <<"RIGHTWARDS OPEN-HEADED ARROW", 8702>>, <<"LEFT RIGHT OPEN-HEADED ARROW", 8703>>,
    <<"FOR ALL", 8704>>, <<"COMPLEMENT", 8705>>, <<"PARTIAL DIFFERENTIAL", 8706>>,
    <<"THERE EXISTS", 8707>>, <<"THERE DOES NOT EXIST", 8708>>, <<"EMPTY SET", 8709>>,
    <<"INCREMENT", 8710>>, <<"NABLA", 8711>>, <<"ELEMENT OF", 8712>>, <<"NOT AN ELEMENT OF", 8713>>,
    <<"SMALL ELEMENT OF", 8714>>, <<"CONTAINS AS MEMBER", 8715>>,
    <<"DOES NOT CONTAIN AS MEMBER", 8716>>, <<"SMALL CONTAINS AS MEMBER", 8717>>,
    <<"END OF PROOF", 8718>>, <<"N-ARY PRODUCT", 8719>>, <<"N-ARY COPRODUCT", 8720>>,
    <<"N-ARY SUMMATION", 8721>>, <<"MINUS SIGN", 8722>>, <<"MINUS-OR-PLUS SIGN", 8723>>,
    <<"DOT PLUS", 8724>>, <<"DIVISION SLASH", 8725>>, <<"SET MINUS", 8726>>,
    <<"ASTERISK OPERATOR", 8727>>, <<"RING OPERATOR", 8728>>, <<"BULLET OPERATOR", 8729>>,
    <<"SQUARE ROOT", 8730>>, <<"CUBE ROOT", 8731>>, <<"FOURTH ROOT", 8732>>,
    <<"PROPORTIONAL TO", 8733>>, <<"INFINITY", 8734>>, <<"RIGHT ANGLE", 8735>>, <<"ANGLE", 8736>>,
    <<"MEASURED ANGLE", 8737>>, <<"SPHERICAL ANGLE", 8738>>, <<"DIVIDES", 8739>>,
    <<"DOES NOT DIVIDE", 8740>>, <<"PARALLEL TO", 8741>>, <<"NOT PARALLEL TO", 8742>>,
    <<"LOGICAL AND", 8743>>, <<"LOGICAL OR", 8744>>, <<"INTERSECTION", 8745>>, <<"UNION", 8746>>,
    <<"INTEGRAL", 8747>>, <<"DOUBLE INTEGRAL", 8748>>, <<"TRIPLE INTEGRAL", 8749>>,
    <<"CONTOUR INTEGRAL", 8750>>, <<"SURFACE INTEGRAL", 8751>>, <<"VOLUME INTEGRAL", 8752>>,
    <<"CLOCKWISE INTEGRAL", 8753>>, <<"CLOCKWISE CONTOUR INTEGRAL", 8754>>,
    <<"ANTICLOCKWISE CONTOUR INTEGRAL", 8755>>, <<"THEREFORE", 8756>>, <<"BECAUSE", 8757>>,
    <<"RATIO", 8758>>, <<"PROPORTION", 8759>>, <<"DOT MINUS", 8760>>, <<"EXCESS", 8761>>,
    <<"GEOMETRIC PROPORTION", 8762>>, <<"HOMOTHETIC", 8763>>, <<"TILDE OPERATOR", 8764>>,
    <<"REVERSED TILDE", 8765>>, <<"INVERTED LAZY S", 8766>>, <<"SINE WAVE", 8767>>,
    <<"WREATH PRODUCT", 8768>>, <<"NOT TILDE", 8769>>, <<"MINUS TILDE", 8770>>,
    <<"ASYMPTOTICALLY EQUAL TO", 8771>>, <<"NOT ASYMPTOTICALLY EQUAL TO", 8772>>,
    <<"APPROXIMATELY EQUAL TO", 8773>>, <<"APPROXIMATELY BUT NOT ACTUALLY EQUAL TO", 8774>>,
    <<"NEITHER APPROXIMATELY NOR ACTUALLY EQUAL TO", 8775>>, <<"ALMOST EQUAL TO", 8776>>,
    <<"NOT ALMOST EQUAL TO", 8777>>, <<"ALMOST EQUAL OR EQUAL TO", 8778>>, <<"TRIPLE TILDE", 8779>>,
    <<"ALL EQUAL TO", 8780>>, <<"EQUIVALENT TO", 8781>>, <<"GEOMETRICALLY EQUIVALENT TO", 8782>>,
    <<"DIFFERENCE BETWEEN", 8783>>, <<"APPROACHES THE LIMIT", 8784>>,
    <<"GEOMETRICALLY EQUAL TO", 8785>>, <<"APPROXIMATELY EQUAL TO OR THE IMAGE OF", 8786>>,
    <<"IMAGE OF OR APPROXIMATELY EQUAL TO", 8787>>, <<"COLON EQUALS", 8788>>, <<"EQUALS COLON", 8789>>,
    <<"RING IN EQUAL TO", 8790>>, <<"RING EQUAL TO", 8791>>, <<"CORRESPONDS TO", 8792>>,
    <<"ESTIMATES", 8793>>, <<"EQUIANGULAR TO", 8794>>, <<"STAR EQUALS", 8795>>,
    <<"DELTA EQUAL TO", 8796>>, <<"EQUAL TO BY DEFINITION", 8797>>, <<"MEASURED BY", 8798>>,
    <<"QUESTIONED EQUAL TO", 8799>>, <<"NOT EQUAL TO", 8800>>, <<"IDENTICAL TO", 8801>>,
    <<"NOT IDENTICAL TO", 8802>>, <<"STRICTLY EQUIVALENT TO", 8803>>,
    <<"LESS-THAN OR EQUAL TO", 8804>>, <<"GREATER-THAN OR EQUAL TO", 8805>>,
    <<"LESS-THAN OVER EQUAL TO", 8806>>, <<"GREATER-THAN OVER EQUAL TO", 8807>>,
    <<"LESS-THAN BUT NOT EQUAL TO", 8808>>, <<"GREATER-THAN BUT NOT EQUAL TO", 8809>>,
    <<"MUCH LESS-THAN", 8810>>, <<"MUCH GREATER-THAN", 8811>>, <<"BETWEEN", 8812>>,
    <<"NOT EQUIVALENT TO", 8813>>, <<"NOT LESS-THAN", 8814>>, <<"NOT GREATER-THAN", 8815>>,
    <<"NEITHER LESS-THAN NOR EQUAL TO", 8816>>, <<"NEITHER GREATER-THAN NOR EQUAL TO", 8817>>,
    <<"LESS-THAN OR EQUIVALENT TO", 8818>>, <<"GREATER-THAN OR EQUIVALENT TO", 8819>>,
    <<"NEITHER LESS-THAN NOR EQUIVALENT TO", 8820>>,
    <<"NEITHER GREATER-THAN NOR EQUIVALENT TO", 8821>>, <<"LESS-THAN OR GREATER-THAN", 8822>>,
    <<"GREATER-THAN OR LESS-THAN", 8823>>, <<"NEITHER LESS-THAN NOR GREATER-THAN", 8824>>,
    <<"NEITHER GREATER-THAN NOR LESS-THAN", 8825>>, <<"PRECEDES", 8826>>, <<"SUCCEEDS", 8827>>,
    <<"PRECEDES OR EQUAL TO", 8828>>, <<"SUCCEEDS OR EQUAL TO", 8829>>,
    <<"PRECEDES OR EQUIVALENT TO", 8830>>, <<"SUCCEEDS OR EQUIVALENT TO", 8831>>,
    <<"DOES NOT PRECEDE", 8832>>, <<"DOES NOT SUCCEED", 8833>>, <<"SUBSET OF", 8834>>,
    <<"SUPERSET OF", 8835>>, <<"NOT A SUBSET OF", 8836>>, <<"NOT A SUPERSET OF", 8837>>,
    <<"SUBSET OF OR EQUAL TO", 8838>>, <<"SUPERSET OF OR EQUAL TO", 8839>>,
    <<"NEITHER A SUBSET OF NOR EQUAL TO", 8840>>, <<"NEITHER A SUPERSET OF NOR EQUAL TO", 8841>>,
    <<"SUBSET OF WITH NOT EQUAL TO", 8842>>, <<"SUPERSET OF WITH NOT EQUAL TO", 8843>>,
    <<"MULTISET", 8844>>, <<"MULTISET MULTIPLICATION", 8845>>, <<"MULTISET UNION", 8846>>,
    <<"SQUARE IMAGE OF", 8847>>, <<"SQUARE ORIGINAL OF", 8848>>,
    <<"SQUARE IMAGE OF OR EQUAL TO", 8849>>, <<"SQUARE ORIGINAL OF OR EQUAL TO", 8850>>,
    <<"SQUARE CAP", 8851>>, <<"SQUARE CUP", 8852>>, <<"CIRCLED PLUS", 8853>>,
    <<"CIRCLED MINUS", 8854>>, <<"CIRCLED TIMES", 8855>>, <<"CIRCLED DIVISION SLASH", 8856>>,
    <<"CIRCLED DOT OPERATOR", 8857>>, <<"CIRCLED RING OPERATOR", 8858>>,
    <<"CIRCLED ASTERISK OPERATOR", 8859>>, <<"CIRCLED EQUALS", 8860>>, <<"CIRCLED DASH", 8861>>,
    <<"SQUARED PLUS", 8862>>, <<"SQUARED MINUS", 8863>>, <<"SQUARED TIMES", 8864>>,
    <<"SQUARED DOT OPERATOR", 8865>>, <<"RIGHT TACK", 8866>>, <<"LEFT TACK", 8867>>,
    <<"DOWN TACK", 8868>>, <<"UP TACK", 8869>>, <<"ASSERTION", 8870>>, <<"MODELS", 8871>>,
    <<"TRUE", 8872>>, <<"FORCES", 8873>>, <<"TRIPLE VERTICAL BAR RIGHT TURNSTILE", 8874>>,
    <<"DOUBLE VERTICAL BAR DOUBLE RIGHT TURNSTILE", 8875>>, <<"DOES NOT PROVE", 8876>>,
    <<"NOT TRUE", 8877>>, <<"DOES NOT FORCE", 8878>>,
    <<"NEGATED DOUBLE VERTICAL BAR DOUBLE RIGHT TURNSTILE", 8879>>,
    <<"PRECEDES UNDER RELATION", 8880>>, <<"SUCCEEDS UNDER RELATION", 8881>>,
    <<"NORMAL SUBGROUP OF", 8882>>, <<"CONTAINS AS NORMAL SUBGROUP", 8883>>,
    <<"NORMAL SUBGROUP OF OR EQUAL TO", 8884>>, <<"CONTAINS AS NORMAL SUBGROUP OR EQUAL TO", 8885>>,
    <<"ORIGINAL OF", 8886>>, <<"IMAGE OF", 8887>>, <<"MULTIMAP", 8888>>,
    <<"HERMITIAN CONJUGATE MATRIX", 8889>>, <<"INTERCALATE", 8890>>, <<"XOR", 8891>>, <<"NAND", 8892>>,
    <<"NOR", 8893>>, <<"RIGHT ANGLE WITH ARC", 8894>>, <<"RIGHT TRIANGLE", 8895>>,
    <<"N-ARY LOGICAL AND", 8896>>, <<"N-ARY LOGICAL OR", 8897>>, <<"N-ARY INTERSECTION", 8898>>,
    <<"N-ARY UNION", 8899>>, <<"DIAMOND OPERATOR", 8900>>, <<"DOT OPERATOR", 8901>>,
    <<"STAR OPERATOR", 8902>>, <<"DIVISION TIMES", 8903>>, <<"BOWTIE", 8904>>,
    <<"LEFT NORMAL FACTOR SEMIDIRECT PRODUCT", 8905>>,
    <<"RIGHT NORMAL FACTOR SEMIDIRECT PRODUCT", 8906>>, <<"LEFT SEMIDIRECT PRODUCT", 8907>>,
    <<"RIGHT SEMIDIRECT PRODUCT", 8908>>, <<"REVERSED TILDE EQUALS", 8909>>,
    <<"CURLY LOGICAL OR", 8910>>, <<"CURLY LOGICAL AND", 8911>>, <<"DOUBLE SUBSET", 8912>>,
    <<"DOUBLE SUPERSET", 8913>>, <<"DOUBLE INTERSECTION", 8914>>, <<"DOUBLE UNION", 8915>>,
    <<"PITCHFORK", 8916>>, <<"EQUAL AND PARALLEL TO", 8917>>, <<"LESS-THAN WITH DOT", 8918>>,
    <<"GREATER-THAN WITH DOT", 8919>>, <<"VERY MUCH LESS-THAN", 8920>>,
    <<"VERY MUCH GREATER-THAN", 8921>>, <<"LESS-THAN EQUAL TO OR GREATER-THAN", 8922>>,
    <<"GREATER-THAN EQUAL TO OR LESS-THAN", 8923>>, <<"EQUAL TO OR LESS-THAN", 8924>>,
    <<"EQUAL TO OR GREATER-THAN", 8925>>, <<"EQUAL TO OR PRECEDES", 8926>>,
    <<"EQUAL TO OR SUCCEEDS", 8927>>, <<"DOES NOT PRECEDE OR EQUAL", 8928>>,
    <<"DOES NOT SUCCEED OR EQUAL", 8929>>, <<"NOT SQUARE IMAGE OF OR EQUAL TO", 8930>>,
    <<"NOT SQUARE ORIGINAL OF OR EQUAL TO", 8931>>, <<"SQUARE IMAGE OF OR NOT EQUAL TO", 8932>>,
    <<"SQUARE ORIGINAL OF OR NOT EQUAL TO", 8933>>, <<"LESS-THAN BUT NOT EQUIVALENT TO", 8934>>,
    <<"GREATER-THAN BUT NOT EQUIVALENT TO", 8935>>, <<"PRECEDES BUT NOT EQUIVALENT TO", 8936>>,
    <<"SUCCEEDS BUT NOT EQUIVALENT TO", 8937>>, <<"NOT NORMAL SUBGROUP OF", 8938>>,
    <<"DOES NOT CONTAIN AS NORMAL SUBGROUP", 8939>>, <<"NOT NORMAL SUBGROUP OF OR EQUAL TO", 8940>>,
    <<"DOES NOT CONTAIN AS NORMAL SUBGROUP OR EQUAL", 8941>>, <<"VERTICAL ELLIPSIS", 8942>>,
    <<"MIDLINE HORIZONTAL ELLIPSIS", 8943>>, <<"UP RIGHT DIAGONAL ELLIPSIS", 8944>>,
    <<"DOWN RIGHT DIAGONAL ELLIPSIS", 8945>>, <<"ELEMENT OF WITH LONG HORIZONTAL STROKE", 8946>>,
    <<"ELEMENT OF WITH VERTICAL BAR AT END OF HORIZONTAL STROKE", 8947>>,
    <<"SMALL ELEMENT OF WITH VERTICAL BAR AT END OF HORIZONTAL STROKE", 8948>>,
    <<"ELEMENT OF WITH DOT ABOVE", 8949>>, <<"ELEMENT OF WITH OVERBAR", 8950>>,
    <<"SMALL ELEMENT OF WITH OVERBAR", 8951>>, <<"ELEMENT OF WITH UNDERBAR", 8952>>,
    <<"ELEMENT OF WITH TWO HORIZONTAL STROKES", 8953>>,
    <<"CONTAINS WITH LONG HORIZONTAL STROKE", 8954>>,
    <<"CONTAINS WITH VERTICAL BAR AT END OF HORIZONTAL STROKE", 8955>>,
    <<"SMALL CONTAINS WITH VERTICAL BAR AT END OF HORIZONTAL STROKE", 8956>>,
    <<"CONTAINS WITH OVERBAR", 8957>>, <<"SMALL CONTAINS WITH OVERBAR", 8958>>,
    <<"Z NOTATION BAG MEMBERSHIP", 8959>>, <<"DIAMETER SIGN", 8960>>, <<"ELECTRIC ARROW", 8961>>,
    <<"HOUSE", 8962>>, <<"UP ARROWHEAD", 8963>>, <<"DOWN ARROWHEAD", 8964>>, <<"PROJECTIVE", 8965>>,
    <<"PERSPECTIVE", 8966>>, <<"WAVY LINE", 8967>>, <<"LEFT CEILING", 8968>>,
    <<"RIGHT CEILING", 8969>>, <<"LEFT FLOOR", 8970>>, <<"RIGHT FLOOR", 8971>>,
    <<"BOTTOM RIGHT CROP", 8972>>, <<"BOTTOM LEFT CROP", 8973>>, <<"TOP RIGHT CROP", 8974>>,
    <<"TOP LEFT CROP", 8975>>, <<"REVERSED NOT SIGN", 8976>>, <<"SQUARE LOZENGE", 8977>>,
    <<"ARC", 8978>>, <<"SEGMENT", 8979>>, <<"SECTOR", 8980>>, <<"TELEPHONE RECORDER", 8981>>,
    <<"POSITION INDICATOR", 8982>>, <<"VIEWDATA SQUARE", 8983>>, <<"PLACE OF INTEREST SIGN", 8984>>,
    <<"TURNED NOT SIGN", 8985>>, <<"WATCH", 8986>>, <<"HOURGLASS", 8987>>, <<"TOP LEFT CORNER", 8988>>,
    <<"TOP RIGHT CORNER", 8989>>, <<"BOTTOM LEFT CORNER", 8990>>, <<"BOTTOM RIGHT CORNER", 8991>>,
    <<"TOP HALF INTEGRAL", 8992>>, <<"BOTTOM HALF INTEGRAL", 8993>>, <<"FROWN", 8994>>,
    <<"SMILE", 8995>>, <<"UP ARROWHEAD BETWEEN TWO HORIZONTAL BARS", 8996>>, <<"OPTION KEY", 8997>>,
    <<"ERASE TO THE RIGHT", 8998>>, <<"X IN A RECTANGLE BOX", 8999>>, <<"KEYBOARD", 9000>>,
    <<"LEFT-POINTING ANGLE BRACKET", 9001>>, <<"RIGHT-POINTING ANGLE BRACKET", 9002>>,
    <<"ERASE TO THE LEFT", 9003>>, <<"BENZENE RING", 9004>>, <<"CYLINDRICITY", 9005>>,
    <<"ALL AROUND-PROFILE", 9006>>, <<"SYMMETRY", 9007>>, <<"TOTAL RUNOUT", 9008>>,
    <<"DIMENSION ORIGIN", 9009>>, <<"CONICAL TAPER", 9010>>, <<"SLOPE", 9011>>,
    <<"COUNTERBORE", 9012>>, <<"COUNTERSINK", 9013>>, <<"APL FUNCTIONAL SYMBOL I-BEAM", 9014>>,
    <<"APL FUNCTIONAL SYMBOL SQUISH QUAD", 9015>>, <<"APL FUNCTIONAL SYMBOL QUAD EQUAL", 9016>>,
    <<"APL FUNCTIONAL SYMBOL QUAD DIVIDE", 9017>>, <<"APL FUNCTIONAL SYMBOL QUAD DIAMOND", 9018>>,
    <<"APL FUNCTIONAL SYMBOL QUAD JOT", 9019>>, <<"APL FUNCTIONAL SYMBOL QUAD CIRCLE", 9020>>,
    <<"APL FUNCTIONAL SYMBOL CIRCLE STILE", 9021>>, <<"APL FUNCTIONAL SYMBOL CIRCLE JOT", 9022>>,
    <<"APL FUNCTIONAL SYMBOL SLASH BAR", 9023>>, <<"APL FUNCTIONAL SYMBOL BACKSLASH BAR", 9024>>,
    <<"APL FUNCTIONAL SYMBOL QUAD SLASH", 9025>>, <<"APL FUNCTIONAL SYMBOL QUAD BACKSLASH", 9026>>,
    <<"APL FUNCTIONAL SYMBOL QUAD LESS-THAN", 9027>>,
    <<"APL FUNCTIONAL SYMBOL QUAD GREATER-THAN", 9028>>,
    <<"APL FUNCTIONAL SYMBOL LEFTWARDS VANE", 9029>>,
    <<"APL FUNCTIONAL SYMBOL RIGHTWARDS VANE", 9030>>,
    <<"APL FUNCTIONAL SYMBOL QUAD LEFTWARDS ARROW", 9031>>,
    <<"APL FUNCTIONAL SYMBOL QUAD RIGHTWARDS ARROW", 9032>>,
    <<"APL FUNCTIONAL SYMBOL CIRCLE BACKSLASH", 9033>>,
    <<"APL FUNCTIONAL SYMBOL DOWN TACK UNDERBAR", 9034>>,
    <<"APL FUNCTIONAL SYMBOL DELTA STILE", 9035>>, <<"APL FUNCTIONAL SYMBOL QUAD DOWN CARET", 9036>>,
    <<"APL FUNCTIONAL SYMBOL QUAD DELTA", 9037>>, <<"APL FUNCTIONAL SYMBOL DOWN TACK JOT", 9038>>,
    <<"APL FUNCTIONAL SYMBOL UPWARDS VANE", 9039>>,
    <<"APL FUNCTIONAL SYMBOL QUAD UPWARDS ARROW", 9040>>,
    <<"APL FUNCTIONAL SYMBOL UP TACK OVERBAR", 9041>>, <<"APL FUNCTIONAL SYMBOL DEL STILE", 9042>>,
    <<"APL FUNCTIONAL SYMBOL QUAD UP CARET", 9043>>, <<"APL FUNCTIONAL SYMBOL QUAD DEL", 9044>>,
    <<"APL FUNCTIONAL SYMBOL UP TACK JOT", 9045>>, <<"APL FUNCTIONAL SYMBOL DOWNWARDS VANE", 9046>>,
    <<"APL FUNCTIONAL SYMBOL QUAD DOWNWARDS ARROW", 9047>>,
    <<"APL FUNCTIONAL SYMBOL QUOTE UNDERBAR", 9048>>, <<"APL FUNCTIONAL SYMBOL DELTA UNDERBAR", 9049>>,
    <<"APL FUNCTIONAL SYMBOL DIAMOND UNDERBAR", 9050>>, <<"APL FUNCTIONAL SYMBOL JOT UNDERBAR", 9051>>,
    <<"APL FUNCTIONAL SYMBOL CIRCLE UNDERBAR", 9052>>, <<"APL FUNCTIONAL SYMBOL UP SHOE JOT", 9053>>,
    <<"APL FUNCTIONAL SYMBOL QUOTE QUAD", 9054>>, <<"APL FUNCTIONAL SYMBOL CIRCLE STAR", 9055>>,
    <<"APL FUNCTIONAL SYMBOL QUAD COLON", 9056>>, <<"APL FUNCTIONAL SYMBOL UP TACK DIAERESIS", 9057>>,
    <<"APL FUNCTIONAL SYMBOL DEL DIAERESIS", 9058>>, <<"APL FUNCTIONAL SYMBOL STAR DIAERESIS", 9059>>,
    <<"APL FUNCTIONAL SYMBOL JOT DIAERESIS", 9060>>,
    <<"APL FUNCTIONAL SYMBOL CIRCLE DIAERESIS", 9061>>,
    <<"APL FUNCTIONAL SYMBOL DOWN SHOE STILE", 9062>>,
    <<"APL FUNCTIONAL SYMBOL LEFT SHOE STILE", 9063>>,
    <<"APL FUNCTIONAL SYMBOL TILDE DIAERESIS", 9064>>,
    <<"APL FUNCTIONAL SYMBOL GREATER-THAN DIAERESIS", 9065>>,
    <<"APL FUNCTIONAL SYMBOL COMMA BAR", 9066>>, <<"APL FUNCTIONAL SYMBOL DEL TILDE", 9067>>,
    <<"APL FUNCTIONAL SYMBOL ZILDE", 9068>>, <<"APL FUNCTIONAL SYMBOL STILE TILDE", 9069>>,
    <<"APL FUNCTIONAL SYMBOL SEMICOLON UNDERBAR", 9070>>,
    <<"APL FUNCTIONAL SYMBOL QUAD NOT EQUAL", 9071>>, <<"APL FUNCTIONAL SYMBOL QUAD QUESTION", 9072>>,
    <<"APL FUNCTIONAL SYMBOL DOWN CARET TILDE", 9073>>,
    <<"APL FUNCTIONAL SYMBOL UP CARET TILDE", 9074>>, <<"APL FUNCTIONAL SYMBOL IOTA", 9075>>,
    <<"APL FUNCTIONAL SYMBOL RHO", 9076>>, <<"APL FUNCTIONAL SYMBOL OMEGA", 9077>>,
    <<"APL FUNCTIONAL SYMBOL ALPHA UNDERBAR", 9078>>,
    <<"APL FUNCTIONAL SYMBOL EPSILON UNDERBAR", 9079>>,
    <<"APL FUNCTIONAL SYMBOL IOTA UNDERBAR", 9080>>, <<"APL FUNCTIONAL SYMBOL OMEGA UNDERBAR", 9081>>,
    <<"APL FUNCTIONAL SYMBOL ALPHA", 9082>>, <<"NOT CHECK MARK", 9083>>,
    <<"RIGHT ANGLE WITH DOWNWARDS ZIGZAG ARROW", 9084>>, <<"SHOULDERED OPEN BOX", 9085>>,
    <<"BELL SYMBOL", 9086>>, <<"VERTICAL LINE WITH MIDDLE DOT", 9087>>, <<"INSERTION SYMBOL", 9088>>,
    <<"CONTINUOUS UNDERLINE SYMBOL", 9089>>, <<"DISCONTINUOUS UNDERLINE SYMBOL", 9090>>,
    <<"EMPHASIS SYMBOL", 9091>>, <<"COMPOSITION SYMBOL", 9092>>,
    <<"WHITE SQUARE WITH CENTRE VERTICAL LINE", 9093>>, <<"ENTER SYMBOL", 9094>>,
    <<"ALTERNATIVE KEY SYMBOL", 9095>>, <<"HELM SYMBOL", 9096>>,
    <<"CIRCLED HORIZONTAL BAR WITH NOTCH", 9097>>, <<"CIRCLED TRIANGLE DOWN", 9098>>,
    <<"BROKEN CIRCLE WITH NORTHWEST ARROW", 9099>>, <<"UNDO SYMBOL", 9100>>,
    <<"MONOSTABLE SYMBOL", 9101>>, <<"HYSTERESIS SYMBOL", 9102>>,
    <<"OPEN-CIRCUIT-OUTPUT H-TYPE SYMBOL", 9103>>, <<"OPEN-CIRCUIT-OUTPUT L-TYPE SYMBOL", 9104>>,
    <<"PASSIVE-PULL-DOWN-OUTPUT SYMBOL", 9105>>, <<"PASSIVE-PULL-UP-OUTPUT SYMBOL", 9106>>,
    <<"DIRECT CURRENT SYMBOL FORM TWO", 9107>>, <<"SOFTWARE-FUNCTION SYMBOL", 9108>>,
    <<"APL FUNCTIONAL SYMBOL QUAD", 9109>>, <<"DECIMAL SEPARATOR KEY SYMBOL", 9110>>,
    <<"PREVIOUS PAGE", 9111>>, <<"NEXT PAGE", 9112>>, <<"PRINT SCREEN SYMBOL", 9113>>,
    <<"CLEAR SCREEN SYMBOL", 9114>>, <<"LEFT PARENTHESIS UPPER HOOK", 9115>>,
    <<"LEFT PARENTHESIS EXTENSION", 9116>>, <<"LEFT PARENTHESIS LOWER HOOK", 9117>>,
    <<"RIGHT PARENTHESIS UPPER HOOK", 9118>>, <<"RIGHT PARENTHESIS EXTENSION", 9119>>,
    <<"RIGHT PARENTHESIS LOWER HOOK", 9120>>, <<"LEFT SQUARE BRACKET UPPER CORNER", 9121>>,
    <<"LEFT SQUARE BRACKET EXTENSION", 9122>>, <<"LEFT SQUARE BRACKET LOWER CORNER", 9123>>,
    <<"RIGHT SQUARE BRACKET UPPER CORNER", 9124>>, <<"RIGHT SQUARE BRACKET EXTENSION", 9125>>,
    <<"RIGHT SQUARE BRACKET LOWER CORNER", 9126>>, <<"LEFT CURLY BRACKET UPPER HOOK", 9127>>,
    <<"LEFT CURLY BRACKET MIDDLE PIECE", 9128>>, <<"LEFT CURLY BRACKET LOWER HOOK", 9129>>,
    <<"CURLY BRACKET EXTENSION", 9130>>, <<"RIGHT CURLY BRACKET UPPER HOOK", 9131>>,
    <<"RIGHT CURLY BRACKET MIDDLE PIECE", 9132>>, <<"RIGHT CURLY BRACKET LOWER HOOK", 9133>>,
    <<"INTEGRAL EXTENSION", 9134>>, <<"HORIZONTAL LINE EXTENSION", 9135>>,
    <<"UPPER LEFT OR LOWER RIGHT CURLY BRACKET SECTION", 9136>>,
    <<"UPPER RIGHT OR LOWER LEFT CURLY BRACKET SECTION", 9137>>, <<"SUMMATION TOP", 9138>>,
    <<"SUMMATION BOTTOM", 9139>>, <<"TOP SQUARE BRACKET", 9140>>, <<"BOTTOM SQUARE BRACKET", 9141>>,
    <<"BOTTOM SQUARE BRACKET OVER TOP SQUARE BRACKET", 9142>>, <<"RADICAL SYMBOL BOTTOM", 9143>>,
    <<"LEFT VERTICAL BOX LINE", 9144>>, <<"RIGHT VERTICAL BOX LINE", 9145>>,
    <<"HORIZONTAL SCAN LINE-1", 9146>>, <<"HORIZONTAL SCAN LINE-3", 9147>>,
    <<"HORIZONTAL SCAN LINE-7", 9148>>, <<"HORIZONTAL SCAN LINE-9", 9149>>,
    <<"DENTISTRY SYMBOL LIGHT VERTICAL AND TOP RIGHT", 9150>>,
    <<"DENTISTRY SYMBOL LIGHT VERTICAL AND BOTTOM RIGHT", 9151>>,
    <<"DENTISTRY SYMBOL LIGHT VERTICAL WITH CIRCLE", 9152>>,
    <<"DENTISTRY SYMBOL LIGHT DOWN AND HORIZONTAL WITH CIRCLE", 9153>>,
    <<"DENTISTRY SYMBOL LIGHT UP AND HORIZONTAL WITH CIRCLE", 9154>>,
    <<"DENTISTRY SYMBOL LIGHT VERTICAL WITH TRIANGLE", 9155>>,
    <<"DENTISTRY SYMBOL LIGHT DOWN AND HORIZONTAL WITH TRIANGLE", 9156>>,
    <<"DENTISTRY SYMBOL LIGHT UP AND HORIZONTAL WITH TRIANGLE", 9157>>,
    <<"DENTISTRY SYMBOL LIGHT VERTICAL AND WAVE", 9158>>,
    <<"DENTISTRY SYMBOL LIGHT DOWN AND HORIZONTAL WITH WAVE", 9159>>,
    <<"DENTISTRY SYMBOL LIGHT UP AND HORIZONTAL WITH WAVE", 9160>>,
    <<"DENTISTRY SYMBOL LIGHT DOWN AND HORIZONTAL", 9161>>,
    <<"DENTISTRY SYMBOL LIGHT UP AND HORIZONTAL", 9162>>,
    <<"DENTISTRY SYMBOL LIGHT VERTICAL AND TOP LEFT", 9163>>,
    <<"DENTISTRY SYMBOL LIGHT VERTICAL AND BOTTOM LEFT", 9164>>, <<"SQUARE FOOT", 9165>>,
    <<"RETURN SYMBOL", 9166>>, <<"EJECT SYMBOL", 9167>>, <<"VERTICAL LINE EXTENSION", 9168>>,
    <<"METRICAL BREVE", 9169>>, <<"METRICAL LONG OVER SHORT", 9170>>,
    <<"METRICAL SHORT OVER LONG", 9171>>, <<"METRICAL LONG OVER TWO SHORTS", 9172>>,
    <<"METRICAL TWO SHORTS OVER LONG", 9173>>, <<"METRICAL TWO SHORTS JOINED", 9174>>,
    <<"METRICAL TRISEME", 9175>>, <<"METRICAL TETRASEME", 9176>>, <<"METRICAL PENTASEME", 9177>>,
    <<"EARTH GROUND", 9178>>, <<"FUSE", 9179>>, <<"TOP PARENTHESIS", 9180>>,
    <<"BOTTOM PARENTHESIS", 9181>>, <<"TOP CURLY BRACKET", 9182>>, <<"BOTTOM CURLY BRACKET", 9183>>,
    <<"TOP TORTOISE SHELL BRACKET", 9184>>, <<"BOTTOM TORTOISE SHELL BRACKET", 9185>>,
    <<"WHITE TRAPEZIUM", 9186>>, <<"BENZENE RING WITH CIRCLE", 9187>>, <<"STRAIGHTNESS", 9188>>,
    <<"FLATNESS", 9189>>, <<"AC CURRENT", 9190>>, <<"ELECTRICAL INTERSECTION", 9191>>,
    <<"DECIMAL EXPONENT SYMBOL", 9192>>, <<"BLACK RIGHT-POINTING DOUBLE TRIANGLE", 9193>>,
    <<"BLACK LEFT-POINTING DOUBLE TRIANGLE", 9194>>, <<"BLACK UP-POINTING DOUBLE TRIANGLE", 9195>>,
    <<"BLACK DOWN-POINTING DOUBLE TRIANGLE", 9196>>,
    <<"BLACK RIGHT-POINTING DOUBLE TRIANGLE WITH VERTICAL BAR", 9197>>,
    <<"BLACK LEFT-POINTING DOUBLE TRIANGLE WITH VERTICAL BAR", 9198>>,
    <<"BLACK RIGHT-POINTING TRIANGLE WITH DOUBLE VERTICAL BAR", 9199>>, <<"ALARM CLOCK", 9200>>,
    <<"STOPWATCH", 9201>>, <<"TIMER CLOCK", 9202>>, <<"HOURGLASS WITH FLOWING SAND", 9203>>,
    <<"BLACK MEDIUM LEFT-POINTING TRIANGLE", 9204>>, <<"BLACK MEDIUM RIGHT-POINTING TRIANGLE", 9205>>,
    <<"BLACK MEDIUM UP-POINTING TRIANGLE", 9206>>, <<"BLACK MEDIUM DOWN-POINTING TRIANGLE", 9207>>,
    <<"DOUBLE VERTICAL BAR", 9208>>, <<"BLACK SQUARE FOR STOP", 9209>>,
    <<"BLACK CIRCLE FOR RECORD", 9210>>, <<"POWER SYMBOL", 9211>>, <<"POWER ON-OFF SYMBOL", 9212>>,
    <<"POWER ON SYMBOL", 9213>>, <<"POWER SLEEP SYMBOL", 9214>>, <<"OBSERVER EYE SYMBOL", 9215>>,
    <<"SYMBOL FOR NULL", 9216>>, <<"SYMBOL FOR START OF HEADING", 9217>>,
    <<"SYMBOL FOR START OF TEXT", 9218>>, <<"SYMBOL FOR END OF TEXT", 9219>>,
    <<"SYMBOL FOR END OF TRANSMISSION", 9220>>, <<"SYMBOL FOR ENQUIRY", 9221>>,
    <<"SYMBOL FOR ACKNOWLEDGE", 9222>>, <<"SYMBOL FOR BELL", 9223>>, <<"SYMBOL FOR BACKSPACE", 9224>>,
    <<"SYMBOL FOR HORIZONTAL TABULATION", 9225>>, <<"SYMBOL FOR LINE FEED", 9226>>,
    <<"SYMBOL FOR VERTICAL TABULATION", 9227>>, <<"SYMBOL FOR FORM FEED", 9228>>,
    <<"SYMBOL FOR CARRIAGE RETURN", 9229>>, <<"SYMBOL FOR SHIFT OUT", 9230>>,
    <<"SYMBOL FOR SHIFT IN", 9231>>, <<"SYMBOL FOR DATA LINK ESCAPE", 9232>>,
    <<"SYMBOL FOR DEVICE CONTROL ONE", 9233>>, <<"SYMBOL FOR DEVICE CONTROL TWO", 9234>>,
    <<"SYMBOL FOR DEVICE CONTROL THREE", 9235>>, <<"SYMBOL FOR DEVICE CONTROL FOUR", 9236>>,
    <<"SYMBOL FOR NEGATIVE ACKNOWLEDGE", 9237>>, <<"SYMBOL FOR SYNCHRONOUS IDLE", 9238>>,
    <<"SYMBOL FOR END OF TRANSMISSION BLOCK", 9239>>, <<"SYMBOL FOR CANCEL", 9240>>,
    <<"SYMBOL FOR END OF MEDIUM", 9241>>, <<"SYMBOL FOR SUBSTITUTE", 9242>>,
    <<"SYMBOL FOR ESCAPE", 9243>>, <<"SYMBOL FOR FILE SEPARATOR", 9244>>,
    <<"SYMBOL FOR GROUP SEPARATOR", 9245>>, <<"SYMBOL FOR RECORD SEPARATOR", 9246>>,
    <<"SYMBOL FOR UNIT SEPARATOR", 9247>>, <<"SYMBOL FOR SPACE", 9248>>, <<"SYMBOL FOR DELETE", 9249>>,
    <<"BLANK SYMBOL", 9250>>, <<"OPEN BOX", 9251>>, <<"SYMBOL FOR NEWLINE", 9252>>,
    <<"SYMBOL FOR DELETE FORM TWO", 9253>>, <<"SYMBOL FOR SUBSTITUTE FORM TWO", 9254>>,
    <<"OCR HOOK", 9280>>, <<"OCR CHAIR", 9281>>, <<"OCR FORK", 9282>>, <<"OCR INVERTED FORK", 9283>>,
    <<"OCR BELT BUCKLE", 9284>>, <<"OCR BOW TIE", 9285>>, <<"OCR BRANCH BANK IDENTIFICATION", 9286>>,
    <<"OCR AMOUNT OF CHECK", 9287>>, <<"MICR ON US SYMBOL", 9288>>, <<"OCR DASH", 9288>>,
    <<"MICR DASH SYMBOL", 9289>>, <<"OCR CUSTOMER ACCOUNT NUMBER", 9289>>,
    <<"OCR DOUBLE BACKSLASH", 9290>>, <<"CIRCLED DIGIT ONE", 9312>>, <<"CIRCLED DIGIT TWO", 9313>>,
    <<"CIRCLED DIGIT THREE", 9314>>, <<"CIRCLED DIGIT FOUR", 9315>>, <<"CIRCLED DIGIT FIVE", 9316>>,
    <<"CIRCLED DIGIT SIX", 9317>>, <<"CIRCLED DIGIT SEVEN", 9318>>, <<"CIRCLED DIGIT EIGHT", 9319>>,
    <<"CIRCLED DIGIT NINE", 9320>>, <<"CIRCLED NUMBER TEN", 9321>>, <<"CIRCLED NUMBER ELEVEN", 9322>>,
    <<"CIRCLED NUMBER TWELVE", 9323>>, <<"CIRCLED NUMBER THIRTEEN", 9324>>,
    <<"CIRCLED NUMBER FOURTEEN", 9325>>, <<"CIRCLED NUMBER FIFTEEN", 9326>>,
    <<"CIRCLED NUMBER SIXTEEN", 9327>>, <<"CIRCLED NUMBER SEVENTEEN", 9328>>,
    <<"CIRCLED NUMBER EIGHTEEN", 9329>>, <<"CIRCLED NUMBER NINETEEN", 9330>>,
    <<"CIRCLED NUMBER TWENTY", 9331>>, <<"PARENTHESIZED DIGIT ONE", 9332>>,
    <<"PARENTHESIZED DIGIT TWO", 9333>>, <<"PARENTHESIZED DIGIT THREE", 9334>>,
    <<"PARENTHESIZED DIGIT FOUR", 9335>>, <<"PARENTHESIZED DIGIT FIVE", 9336>>,
    <<"PARENTHESIZED DIGIT SIX", 9337>>, <<"PARENTHESIZED DIGIT SEVEN", 9338>>,
    <<"PARENTHESIZED DIGIT EIGHT", 9339>>, <<"PARENTHESIZED DIGIT NINE", 9340>>,
    <<"PARENTHESIZED NUMBER TEN", 9341>>, <<"PARENTHESIZED NUMBER ELEVEN", 9342>>,
    <<"PARENTHESIZED NUMBER TWELVE", 9343>>, <<"PARENTHESIZED NUMBER THIRTEEN", 9344>>,
    <<"PARENTHESIZED NUMBER FOURTEEN", 9345>>, <<"PARENTHESIZED NUMBER FIFTEEN", 9346>>,
    <<"PARENTHESIZED NUMBER SIXTEEN", 9347>>, <<"PARENTHESIZED NUMBER SEVENTEEN", 9348>>,
    <<"PARENTHESIZED NUMBER EIGHTEEN", 9349>>, <<"PARENTHESIZED NUMBER NINETEEN", 9350>>,
    <<"PARENTHESIZED NUMBER TWENTY", 9351>>, <<"DIGIT ONE FULL STOP", 9352>>,
    <<"DIGIT TWO FULL STOP", 9353>>, <<"DIGIT THREE FULL STOP", 9354>>,
    <<"DIGIT FOUR FULL STOP", 9355>>, <<"DIGIT FIVE FULL STOP", 9356>>,
    <<"DIGIT SIX FULL STOP", 9357>>, <<"DIGIT SEVEN FULL STOP", 9358>>,
    <<"DIGIT EIGHT FULL STOP", 9359>>, <<"DIGIT NINE FULL STOP", 9360>>,
    <<"NUMBER TEN FULL STOP", 9361>>, <<"NUMBER ELEVEN FULL STOP", 9362>>,
    <<"NUMBER TWELVE FULL STOP", 9363>>, <<"NUMBER THIRTEEN FULL STOP", 9364>>,
    <<"NUMBER FOURTEEN FULL STOP", 9365>>, <<"NUMBER FIFTEEN FULL STOP", 9366>>,
    <<"NUMBER SIXTEEN FULL STOP", 9367>>, <<"NUMBER SEVENTEEN FULL STOP", 9368>>,
    <<"NUMBER EIGHTEEN FULL STOP", 9369>>, <<"NUMBER NINETEEN FULL STOP", 9370>>,
    <<"NUMBER TWENTY FULL STOP", 9371>>, <<"PARENTHESIZED LATIN SMALL LETTER A", 9372>>,
    <<"PARENTHESIZED LATIN SMALL LETTER B", 9373>>, <<"PARENTHESIZED LATIN SMALL LETTER C", 9374>>,
    <<"PARENTHESIZED LATIN SMALL LETTER D", 9375>>, <<"PARENTHESIZED LATIN SMALL LETTER E", 9376>>,
    <<"PARENTHESIZED LATIN SMALL LETTER F", 9377>>, <<"PARENTHESIZED LATIN SMALL LETTER G", 9378>>,
    <<"PARENTHESIZED LATIN SMALL LETTER H", 9379>>, <<"PARENTHESIZED LATIN SMALL LETTER I", 9380>>,
    <<"PARENTHESIZED LATIN SMALL LETTER J", 9381>>, <<"PARENTHESIZED LATIN SMALL LETTER K", 9382>>,
    <<"PARENTHESIZED LATIN SMALL LETTER L", 9383>>, <<"PARENTHESIZED LATIN SMALL LETTER M", 9384>>,
    <<"PARENTHESIZED LATIN SMALL LETTER N", 9385>>, <<"PARENTHESIZED LATIN SMALL LETTER O", 9386>>,
    <<"PARENTHESIZED LATIN SMALL LETTER P", 9387>>, <<"PARENTHESIZED LATIN SMALL LETTER Q", 9388>>,
    <<"PARENTHESIZED LATIN SMALL LETTER R", 9389>>, <<"PARENTHESIZED LATIN SMALL LETTER S", 9390>>,
    <<"PARENTHESIZED LATIN SMALL LETTER T", 9391>>, <<"PARENTHESIZED LATIN SMALL LETTER U", 9392>>,
    <<"PARENTHESIZED LATIN SMALL LETTER V", 9393>>, <<"PARENTHESIZED LATIN SMALL LETTER W", 9394>>,
    <<"PARENTHESIZED LATIN SMALL LETTER X", 9395>>, <<"PARENTHESIZED LATIN SMALL LETTER Y", 9396>>,
    <<"PARENTHESIZED LATIN SMALL LETTER Z", 9397>>, <<"CIRCLED LATIN CAPITAL LETTER A", 9398>>,
    <<"CIRCLED LATIN CAPITAL LETTER B", 9399>>, <<"CIRCLED LATIN CAPITAL LETTER C", 9400>>,
    <<"CIRCLED LATIN CAPITAL LETTER D", 9401>>, <<"CIRCLED LATIN CAPITAL LETTER E", 9402>>,
    <<"CIRCLED LATIN CAPITAL LETTER F", 9403>>, <<"CIRCLED LATIN CAPITAL LETTER G", 9404>>,
    <<"CIRCLED LATIN CAPITAL LETTER H", 9405>>, <<"CIRCLED LATIN CAPITAL LETTER I", 9406>>,
    <<"CIRCLED LATIN CAPITAL LETTER J", 9407>>, <<"CIRCLED LATIN CAPITAL LETTER K", 9408>>,
    <<"CIRCLED LATIN CAPITAL LETTER L", 9409>>, <<"CIRCLED LATIN CAPITAL LETTER M", 9410>>,
    <<"CIRCLED LATIN CAPITAL LETTER N", 9411>>, <<"CIRCLED LATIN CAPITAL LETTER O", 9412>>,
    <<"CIRCLED LATIN CAPITAL LETTER P", 9413>>, <<"CIRCLED LATIN CAPITAL LETTER Q", 9414>>,
    <<"CIRCLED LATIN CAPITAL LETTER R", 9415>>, <<"CIRCLED LATIN CAPITAL LETTER S", 9416>>,
    <<"CIRCLED LATIN CAPITAL LETTER T", 9417>>, <<"CIRCLED LATIN CAPITAL LETTER U", 9418>>,
    <<"CIRCLED LATIN CAPITAL LETTER V", 9419>>, <<"CIRCLED LATIN CAPITAL LETTER W", 9420>>,
    <<"CIRCLED LATIN CAPITAL LETTER X", 9421>>, <<"CIRCLED LATIN CAPITAL LETTER Y", 9422>>,
    <<"CIRCLED LATIN CAPITAL LETTER Z", 9423>>, <<"CIRCLED LATIN SMALL LETTER A", 9424>>,
    <<"CIRCLED LATIN SMALL LETTER B", 9425>>, <<"CIRCLED LATIN SMALL LETTER C", 9426>>,
    <<"CIRCLED LATIN SMALL LETTER D", 9427>>, <<"CIRCLED LATIN SMALL LETTER E", 9428>>,
    <<"CIRCLED LATIN SMALL LETTER F", 9429>>, <<"CIRCLED LATIN SMALL LETTER G", 9430>>,
    <<"CIRCLED LATIN SMALL LETTER H", 9431>>, <<"CIRCLED LATIN SMALL LETTER I", 9432>>,
    <<"CIRCLED LATIN SMALL LETTER J", 9433>>, <<"CIRCLED LATIN SMALL LETTER K", 9434>>,
    <<"CIRCLED LATIN SMALL LETTER L", 9435>>, <<"CIRCLED LATIN SMALL LETTER M", 9436>>,
    <<"CIRCLED LATIN SMALL LETTER N", 9437>>, <<"CIRCLED LATIN SMALL LETTER O", 9438>>,
    <<"CIRCLED LATIN SMALL LETTER P", 9439>>, <<"CIRCLED LATIN SMALL LETTER Q", 9440>>,
    <<"CIRCLED LATIN SMALL LETTER R", 9441>>, <<"CIRCLED LATIN SMALL LETTER S", 9442>>,
    <<"CIRCLED LATIN SMALL LETTER T", 9443>>, <<"CIRCLED LATIN SMALL LETTER U", 9444>>,
    <<"CIRCLED LATIN SMALL LETTER V", 9445>>, <<"CIRCLED LATIN SMALL LETTER W", 9446>>,
    <<"CIRCLED LATIN SMALL LETTER X", 9447>>, <<"CIRCLED LATIN SMALL LETTER Y", 9448>>,
    <<"CIRCLED LATIN SMALL LETTER Z", 9449>>, <<"CIRCLED DIGIT ZERO", 9450>>,
    <<"NEGATIVE CIRCLED NUMBER ELEVEN", 9451>>, <<"NEGATIVE CIRCLED NUMBER TWELVE", 9452>>,
    <<"NEGATIVE CIRCLED NUMBER THIRTEEN", 9453>>, <<"NEGATIVE CIRCLED NUMBER FOURTEEN", 9454>>,
    <<"NEGATIVE CIRCLED NUMBER FIFTEEN", 9455>>, <<"NEGATIVE CIRCLED NUMBER SIXTEEN", 9456>>,
    <<"NEGATIVE CIRCLED NUMBER SEVENTEEN", 9457>>, <<"NEGATIVE CIRCLED NUMBER EIGHTEEN", 9458>>,
    <<"NEGATIVE CIRCLED NUMBER NINETEEN", 9459>>, <<"NEGATIVE CIRCLED NUMBER TWENTY", 9460>>,
    <<"DOUBLE CIRCLED DIGIT ONE", 9461>>, <<"DOUBLE CIRCLED DIGIT TWO", 9462>>,
    <<"DOUBLE CIRCLED DIGIT THREE", 9463>>, <<"DOUBLE CIRCLED DIGIT FOUR", 9464>>,
    <<"DOUBLE CIRCLED DIGIT FIVE", 9465>>, <<"DOUBLE CIRCLED DIGIT SIX", 9466>>,
    <<"DOUBLE CIRCLED DIGIT SEVEN", 9467>>, <<"DOUBLE CIRCLED DIGIT EIGHT", 9468>>,
    <<"DOUBLE CIRCLED DIGIT NINE", 9469>>, <<"DOUBLE CIRCLED NUMBER TEN", 9470>>,
    <<"NEGATIVE CIRCLED DIGIT ZERO", 9471>>, <<"BOX DRAWINGS LIGHT HORIZONTAL", 9472>>,
    <<"BOX DRAWINGS HEAVY HORIZONTAL", 9473>>, <<"BOX DRAWINGS LIGHT VERTICAL", 9474>>,
    <<"BOX DRAWINGS HEAVY VERTICAL", 9475>>, <<"BOX DRAWINGS LIGHT TRIPLE DASH HORIZONTAL", 9476>>,
    <<"BOX DRAWINGS HEAVY TRIPLE DASH HORIZONTAL", 9477>>,
    <<"BOX DRAWINGS LIGHT TRIPLE DASH VERTICAL", 9478>>,
    <<"BOX DRAWINGS HEAVY TRIPLE DASH VERTICAL", 9479>>,
    <<"BOX DRAWINGS LIGHT QUADRUPLE DASH HORIZONTAL", 9480>>,
    <<"BOX DRAWINGS HEAVY QUADRUPLE DASH HORIZONTAL", 9481>>,
    <<"BOX DRAWINGS LIGHT QUADRUPLE DASH VERTICAL", 9482>>,
    <<"BOX DRAWINGS HEAVY QUADRUPLE DASH VERTICAL", 9483>>,
    <<"BOX DRAWINGS LIGHT DOWN AND RIGHT", 9484>>, <<"BOX DRAWINGS DOWN LIGHT AND RIGHT HEAVY", 9485>>,
    <<"BOX DRAWINGS DOWN HEAVY AND RIGHT LIGHT", 9486>>, <<"BOX DRAWINGS HEAVY DOWN AND RIGHT", 9487>>,
    <<"BOX DRAWINGS LIGHT DOWN AND LEFT", 9488>>, <<"BOX DRAWINGS DOWN LIGHT AND LEFT HEAVY", 9489>>,
    <<"BOX DRAWINGS DOWN HEAVY AND LEFT LIGHT", 9490>>, <<"BOX DRAWINGS HEAVY DOWN AND LEFT", 9491>>,
    <<"BOX DRAWINGS LIGHT UP AND RIGHT", 9492>>, <<"BOX DRAWINGS UP LIGHT AND RIGHT HEAVY", 9493>>,
    <<"BOX DRAWINGS UP HEAVY AND RIGHT LIGHT", 9494>>, <<"BOX DRAWINGS HEAVY UP AND RIGHT", 9495>>,
    <<"BOX DRAWINGS LIGHT UP AND LEFT", 9496>>, <<"BOX DRAWINGS UP LIGHT AND LEFT HEAVY", 9497>>,
    <<"BOX DRAWINGS UP HEAVY AND LEFT LIGHT", 9498>>, <<"BOX DRAWINGS HEAVY UP AND LEFT", 9499>>,
    <<"BOX DRAWINGS LIGHT VERTICAL AND RIGHT", 9500>>,
    <<"BOX DRAWINGS VERTICAL LIGHT AND RIGHT HEAVY", 9501>>,
    <<"BOX DRAWINGS UP HEAVY AND RIGHT DOWN LIGHT", 9502>>,
    <<"BOX DRAWINGS DOWN HEAVY AND RIGHT UP LIGHT", 9503>>,
    <<"BOX DRAWINGS VERTICAL HEAVY AND RIGHT LIGHT", 9504>>,
    <<"BOX DRAWINGS DOWN LIGHT AND RIGHT UP HEAVY", 9505>>,
    <<"BOX DRAWINGS UP LIGHT AND RIGHT DOWN HEAVY", 9506>>,
    <<"BOX DRAWINGS HEAVY VERTICAL AND RIGHT", 9507>>,
    <<"BOX DRAWINGS LIGHT VERTICAL AND LEFT", 9508>>,
    <<"BOX DRAWINGS VERTICAL LIGHT AND LEFT HEAVY", 9509>>,
    <<"BOX DRAWINGS UP HEAVY AND LEFT DOWN LIGHT", 9510>>,
    <<"BOX DRAWINGS DOWN HEAVY AND LEFT UP LIGHT", 9511>>,
    <<"BOX DRAWINGS VERTICAL HEAVY AND LEFT LIGHT", 9512>>,
    <<"BOX DRAWINGS DOWN LIGHT AND LEFT UP HEAVY", 9513>>,
    <<"BOX DRAWINGS UP LIGHT AND LEFT DOWN HEAVY", 9514>>,
    <<"BOX DRAWINGS HEAVY VERTICAL AND LEFT", 9515>>,
    <<"BOX DRAWINGS LIGHT DOWN AND HORIZONTAL", 9516>>,
    <<"BOX DRAWINGS LEFT HEAVY AND RIGHT DOWN LIGHT", 9517>>,
    <<"BOX DRAWINGS RIGHT HEAVY AND LEFT DOWN LIGHT", 9518>>,
    <<"BOX DRAWINGS DOWN LIGHT AND HORIZONTAL HEAVY", 9519>>,
    <<"BOX DRAWINGS DOWN HEAVY AND HORIZONTAL LIGHT", 9520>>,
    <<"BOX DRAWINGS RIGHT LIGHT AND LEFT DOWN HEAVY", 9521>>,
    <<"BOX DRAWINGS LEFT LIGHT AND RIGHT DOWN HEAVY", 9522>>,
    <<"BOX DRAWINGS HEAVY DOWN AND HORIZONTAL", 9523>>,
    <<"BOX DRAWINGS LIGHT UP AND HORIZONTAL", 9524>>,
    <<"BOX DRAWINGS LEFT HEAVY AND RIGHT UP LIGHT", 9525>>,
    <<"BOX DRAWINGS RIGHT HEAVY AND LEFT UP LIGHT", 9526>>,
    <<"BOX DRAWINGS UP LIGHT AND HORIZONTAL HEAVY", 9527>>,
    <<"BOX DRAWINGS UP HEAVY AND HORIZONTAL LIGHT", 9528>>,
    <<"BOX DRAWINGS RIGHT LIGHT AND LEFT UP HEAVY", 9529>>,
    <<"BOX DRAWINGS LEFT LIGHT AND RIGHT UP HEAVY", 9530>>,
    <<"BOX DRAWINGS HEAVY UP AND HORIZONTAL", 9531>>,
    <<"BOX DRAWINGS LIGHT VERTICAL AND HORIZONTAL", 9532>>,
    <<"BOX DRAWINGS LEFT HEAVY AND RIGHT VERTICAL LIGHT", 9533>>,
    <<"BOX DRAWINGS RIGHT HEAVY AND LEFT VERTICAL LIGHT", 9534>>,
    <<"BOX DRAWINGS VERTICAL LIGHT AND HORIZONTAL HEAVY", 9535>>,
    <<"BOX DRAWINGS UP HEAVY AND DOWN HORIZONTAL LIGHT", 9536>>,
    <<"BOX DRAWINGS DOWN HEAVY AND UP HORIZONTAL LIGHT", 9537>>,
    <<"BOX DRAWINGS VERTICAL HEAVY AND HORIZONTAL LIGHT", 9538>>,
    <<"BOX DRAWINGS LEFT UP HEAVY AND RIGHT DOWN LIGHT", 9539>>,
    <<"BOX DRAWINGS RIGHT UP HEAVY AND LEFT DOWN LIGHT", 9540>>,
    <<"BOX DRAWINGS LEFT DOWN HEAVY AND RIGHT UP LIGHT", 9541>>,
    <<"BOX DRAWINGS RIGHT DOWN HEAVY AND LEFT UP LIGHT", 9542>>,
    <<"BOX DRAWINGS DOWN LIGHT AND UP HORIZONTAL HEAVY", 9543>>,
    <<"BOX DRAWINGS UP LIGHT AND DOWN HORIZONTAL HEAVY", 9544>>,
    <<"BOX DRAWINGS RIGHT LIGHT AND LEFT VERTICAL HEAVY", 9545>>,
    <<"BOX DRAWINGS LEFT LIGHT AND RIGHT VERTICAL HEAVY", 9546>>,
    <<"BOX DRAWINGS HEAVY VERTICAL AND HORIZONTAL", 9547>>,
    <<"BOX DRAWINGS LIGHT DOUBLE DASH HORIZONTAL", 9548>>,
    <<"BOX DRAWINGS HEAVY DOUBLE DASH HORIZONTAL", 9549>>,
    <<"BOX DRAWINGS LIGHT DOUBLE DASH VERTICAL", 9550>>,
    <<"BOX DRAWINGS HEAVY DOUBLE DASH VERTICAL", 9551>>, <<"BOX DRAWINGS DOUBLE HORIZONTAL", 9552>>,
    <<"BOX DRAWINGS DOUBLE VERTICAL", 9553>>, <<"BOX DRAWINGS DOWN SINGLE AND RIGHT DOUBLE", 9554>>,
    <<"BOX DRAWINGS DOWN DOUBLE AND RIGHT SINGLE", 9555>>,
    <<"BOX DRAWINGS DOUBLE DOWN AND RIGHT", 9556>>,
    <<"BOX DRAWINGS DOWN SINGLE AND LEFT DOUBLE", 9557>>,
    <<"BOX DRAWINGS DOWN DOUBLE AND LEFT SINGLE", 9558>>,
    <<"BOX DRAWINGS DOUBLE DOWN AND LEFT", 9559>>, <<"BOX DRAWINGS UP SINGLE AND RIGHT DOUBLE", 9560>>,
    <<"BOX DRAWINGS UP DOUBLE AND RIGHT SINGLE", 9561>>, <<"BOX DRAWINGS DOUBLE UP AND RIGHT", 9562>>,
    <<"BOX DRAWINGS UP SINGLE AND LEFT DOUBLE", 9563>>,
    <<"BOX DRAWINGS UP DOUBLE AND LEFT SINGLE", 9564>>, <<"BOX DRAWINGS DOUBLE UP AND LEFT", 9565>>,
    <<"BOX DRAWINGS VERTICAL SINGLE AND RIGHT DOUBLE", 9566>>,
    <<"BOX DRAWINGS VERTICAL DOUBLE AND RIGHT SINGLE", 9567>>,
    <<"BOX DRAWINGS DOUBLE VERTICAL AND RIGHT", 9568>>,
    <<"BOX DRAWINGS VERTICAL SINGLE AND LEFT DOUBLE", 9569>>,
    <<"BOX DRAWINGS VERTICAL DOUBLE AND LEFT SINGLE", 9570>>,
    <<"BOX DRAWINGS DOUBLE VERTICAL AND LEFT", 9571>>,
    <<"BOX DRAWINGS DOWN SINGLE AND HORIZONTAL DOUBLE", 9572>>,
    <<"BOX DRAWINGS DOWN DOUBLE AND HORIZONTAL SINGLE", 9573>>,
    <<"BOX DRAWINGS DOUBLE DOWN AND HORIZONTAL", 9574>>,
    <<"BOX DRAWINGS UP SINGLE AND HORIZONTAL DOUBLE", 9575>>,
    <<"BOX DRAWINGS UP DOUBLE AND HORIZONTAL SINGLE", 9576>>,
    <<"BOX DRAWINGS DOUBLE UP AND HORIZONTAL", 9577>>,
    <<"BOX DRAWINGS VERTICAL SINGLE AND HORIZONTAL DOUBLE", 9578>>,
    <<"BOX DRAWINGS VERTICAL DOUBLE AND HORIZONTAL SINGLE", 9579>>,
    <<"BOX DRAWINGS DOUBLE VERTICAL AND HORIZONTAL", 9580>>,
    <<"BOX DRAWINGS LIGHT ARC DOWN AND RIGHT", 9581>>,
    <<"BOX DRAWINGS LIGHT ARC DOWN AND LEFT", 9582>>, <<"BOX DRAWINGS LIGHT ARC UP AND LEFT", 9583>>,
    <<"BOX DRAWINGS LIGHT ARC UP AND RIGHT", 9584>>,
    <<"BOX DRAWINGS LIGHT DIAGONAL UPPER RIGHT TO LOWER LEFT", 9585>>,
    <<"BOX DRAWINGS LIGHT DIAGONAL UPPER LEFT TO LOWER RIGHT", 9586>>,
    <<"BOX DRAWINGS LIGHT DIAGONAL CROSS", 9587>>, <<"BOX DRAWINGS LIGHT LEFT", 9588>>,
    <<"BOX DRAWINGS LIGHT UP", 9589>>, <<"BOX DRAWINGS LIGHT RIGHT", 9590>>,
    <<"BOX DRAWINGS LIGHT DOWN", 9591>>, <<"BOX DRAWINGS HEAVY LEFT", 9592>>,
    <<"BOX DRAWINGS HEAVY UP", 9593>>, <<"BOX DRAWINGS HEAVY RIGHT", 9594>>,
    <<"BOX DRAWINGS HEAVY DOWN", 9595>>, <<"BOX DRAWINGS LIGHT LEFT AND HEAVY RIGHT", 9596>>,
    <<"BOX DRAWINGS LIGHT UP AND HEAVY DOWN", 9597>>,
    <<"BOX DRAWINGS HEAVY LEFT AND LIGHT RIGHT", 9598>>,
    <<"BOX DRAWINGS HEAVY UP AND LIGHT DOWN", 9599>>, <<"UPPER HALF BLOCK", 9600>>,
    <<"LOWER ONE EIGHTH BLOCK", 9601>>, <<"LOWER ONE QUARTER BLOCK", 9602>>,
    <<"LOWER THREE EIGHTHS BLOCK", 9603>>, <<"LOWER HALF BLOCK", 9604>>,
    <<"LOWER FIVE EIGHTHS BLOCK", 9605>>, <<"LOWER THREE QUARTERS BLOCK", 9606>>,
    <<"LOWER SEVEN EIGHTHS BLOCK", 9607>>, <<"FULL BLOCK", 9608>>,
    <<"LEFT SEVEN EIGHTHS BLOCK", 9609>>, <<"LEFT THREE QUARTERS BLOCK", 9610>>,
    <<"LEFT FIVE EIGHTHS BLOCK", 9611>>, <<"LEFT HALF BLOCK", 9612>>,
    <<"LEFT THREE EIGHTHS BLOCK", 9613>>, <<"LEFT ONE QUARTER BLOCK", 9614>>,
    <<"LEFT ONE EIGHTH BLOCK", 9615>>, <<"RIGHT HALF BLOCK", 9616>>, <<"LIGHT SHADE", 9617>>,
    <<"MEDIUM SHADE", 9618>>, <<"DARK SHADE", 9619>>, <<"UPPER ONE EIGHTH BLOCK", 9620>>,
    <<"RIGHT ONE EIGHTH BLOCK", 9621>>, <<"QUADRANT LOWER LEFT", 9622>>,
    <<"QUADRANT LOWER RIGHT", 9623>>, <<"QUADRANT UPPER LEFT", 9624>>,
    <<"QUADRANT UPPER LEFT AND LOWER LEFT AND LOWER RIGHT", 9625>>,
    <<"QUADRANT UPPER LEFT AND LOWER RIGHT", 9626>>,
    <<"QUADRANT UPPER LEFT AND UPPER RIGHT AND LOWER LEFT", 9627>>,
    <<"QUADRANT UPPER LEFT AND UPPER RIGHT AND LOWER RIGHT", 9628>>, <<"QUADRANT UPPER RIGHT", 9629>>,
    <<"QUADRANT UPPER RIGHT AND LOWER LEFT", 9630>>,
    <<"QUADRANT UPPER RIGHT AND LOWER LEFT AND LOWER RIGHT", 9631>>, <<"BLACK SQUARE", 9632>>,
    <<"WHITE SQUARE", 9633>>, <<"WHITE SQUARE WITH ROUNDED CORNERS", 9634>>,
    <<"WHITE SQUARE CONTAINING BLACK SMALL SQUARE", 9635>>, <<"SQUARE WITH HORIZONTAL FILL", 9636>>,
    <<"SQUARE WITH VERTICAL FILL", 9637>>, <<"SQUARE WITH ORTHOGONAL CROSSHATCH FILL", 9638>>,
    <<"SQUARE WITH UPPER LEFT TO LOWER RIGHT FILL", 9639>>,
    <<"SQUARE WITH UPPER RIGHT TO LOWER LEFT FILL", 9640>>,
    <<"SQUARE WITH DIAGONAL CROSSHATCH FILL", 9641>>, <<"BLACK SMALL SQUARE", 9642>>,
    <<"WHITE SMALL SQUARE", 9643>>, <<"BLACK RECTANGLE", 9644>>, <<"WHITE RECTANGLE", 9645>>,
    <<"BLACK VERTICAL RECTANGLE", 9646>>, <<"WHITE VERTICAL RECTANGLE", 9647>>,
    <<"BLACK PARALLELOGRAM", 9648>>, <<"WHITE PARALLELOGRAM", 9649>>,
    <<"BLACK UP-POINTING TRIANGLE", 9650>>, <<"WHITE UP-POINTING TRIANGLE", 9651>>,
    <<"BLACK UP-POINTING SMALL TRIANGLE", 9652>>, <<"WHITE UP-POINTING SMALL TRIANGLE", 9653>>,
    <<"BLACK RIGHT-POINTING TRIANGLE", 9654>>, <<"WHITE RIGHT-POINTING TRIANGLE", 9655>>,
    <<"BLACK RIGHT-POINTING SMALL TRIANGLE", 9656>>, <<"WHITE RIGHT-POINTING SMALL TRIANGLE", 9657>>,
    <<"BLACK RIGHT-POINTING POINTER", 9658>>, <<"WHITE RIGHT-POINTING POINTER", 9659>>,
    <<"BLACK DOWN-POINTING TRIANGLE", 9660>>, <<"WHITE DOWN-POINTING TRIANGLE", 9661>>,
    <<"BLACK DOWN-POINTING SMALL TRIANGLE", 9662>>, <<"WHITE DOWN-POINTING SMALL TRIANGLE", 9663>>,
    <<"BLACK LEFT-POINTING TRIANGLE", 9664>>, <<"WHITE LEFT-POINTING TRIANGLE", 9665>>,
    <<"BLACK LEFT-POINTING SMALL TRIANGLE", 9666>>, <<"WHITE LEFT-POINTING SMALL TRIANGLE", 9667>>,
    <<"BLACK LEFT-POINTING POINTER", 9668>>, <<"WHITE LEFT-POINTING POINTER", 9669>>,
    <<"BLACK DIAMOND", 9670>>, <<"WHITE DIAMOND", 9671>>,
    <<"WHITE DIAMOND CONTAINING BLACK SMALL DIAMOND", 9672>>, <<"FISHEYE", 9673>>, <<"LOZENGE", 9674>>,
    <<"WHITE CIRCLE", 9675>>, <<"DOTTED CIRCLE", 9676>>, <<"CIRCLE WITH VERTICAL FILL", 9677>>,
    <<"BULLSEYE", 9678>>, <<"BLACK CIRCLE", 9679>>, <<"CIRCLE WITH LEFT HALF BLACK", 9680>>,
    <<"CIRCLE WITH RIGHT HALF BLACK", 9681>>, <<"CIRCLE WITH LOWER HALF BLACK", 9682>>,
    <<"CIRCLE WITH UPPER HALF BLACK", 9683>>, <<"CIRCLE WITH UPPER RIGHT QUADRANT BLACK", 9684>>,
    <<"CIRCLE WITH ALL BUT UPPER LEFT QUADRANT BLACK", 9685>>, <<"LEFT HALF BLACK CIRCLE", 9686>>,
    <<"RIGHT HALF BLACK CIRCLE", 9687>>, <<"INVERSE BULLET", 9688>>, <<"INVERSE WHITE CIRCLE", 9689>>,
    <<"UPPER HALF INVERSE WHITE CIRCLE", 9690>>, <<"LOWER HALF INVERSE WHITE CIRCLE", 9691>>,
    <<"UPPER LEFT QUADRANT CIRCULAR ARC", 9692>>, <<"UPPER RIGHT QUADRANT CIRCULAR ARC", 9693>>,
    <<"LOWER RIGHT QUADRANT CIRCULAR ARC", 9694>>, <<"LOWER LEFT QUADRANT CIRCULAR ARC", 9695>>,
    <<"UPPER HALF CIRCLE", 9696>>, <<"LOWER HALF CIRCLE", 9697>>,
    <<"BLACK LOWER RIGHT TRIANGLE", 9698>>, <<"BLACK LOWER LEFT TRIANGLE", 9699>>,
    <<"BLACK UPPER LEFT TRIANGLE", 9700>>, <<"BLACK UPPER RIGHT TRIANGLE", 9701>>,
    <<"WHITE BULLET", 9702>>, <<"SQUARE WITH LEFT HALF BLACK", 9703>>,
    <<"SQUARE WITH RIGHT HALF BLACK", 9704>>, <<"SQUARE WITH UPPER LEFT DIAGONAL HALF BLACK", 9705>>,
    <<"SQUARE WITH LOWER RIGHT DIAGONAL HALF BLACK", 9706>>,
    <<"WHITE SQUARE WITH VERTICAL BISECTING LINE", 9707>>,
    <<"WHITE UP-POINTING TRIANGLE WITH DOT", 9708>>,
    <<"UP-POINTING TRIANGLE WITH LEFT HALF BLACK", 9709>>,
    <<"UP-POINTING TRIANGLE WITH RIGHT HALF BLACK", 9710>>, <<"LARGE CIRCLE", 9711>>,
    <<"WHITE SQUARE WITH UPPER LEFT QUADRANT", 9712>>,
    <<"WHITE SQUARE WITH LOWER LEFT QUADRANT", 9713>>,
    <<"WHITE SQUARE WITH LOWER RIGHT QUADRANT", 9714>>,
    <<"WHITE SQUARE WITH UPPER RIGHT QUADRANT", 9715>>,
    <<"WHITE CIRCLE WITH UPPER LEFT QUADRANT", 9716>>,
    <<"WHITE CIRCLE WITH LOWER LEFT QUADRANT", 9717>>,
    <<"WHITE CIRCLE WITH LOWER RIGHT QUADRANT", 9718>>,
    <<"WHITE CIRCLE WITH UPPER RIGHT QUADRANT", 9719>>, <<"UPPER LEFT TRIANGLE", 9720>>,
    <<"UPPER RIGHT TRIANGLE", 9721>>, <<"LOWER LEFT TRIANGLE", 9722>>, <<"WHITE MEDIUM SQUARE", 9723>>,
    <<"BLACK MEDIUM SQUARE", 9724>>, <<"WHITE MEDIUM SMALL SQUARE", 9725>>,
    <<"BLACK MEDIUM SMALL SQUARE", 9726>>, <<"LOWER RIGHT TRIANGLE", 9727>>,
    <<"BLACK SUN WITH RAYS", 9728>>, <<"CLOUD", 9729>>, <<"UMBRELLA", 9730>>, <<"SNOWMAN", 9731>>,
    <<"COMET", 9732>>, <<"BLACK STAR", 9733>>, <<"WHITE STAR", 9734>>, <<"LIGHTNING", 9735>>,
    <<"THUNDERSTORM", 9736>>, <<"SUN", 9737>>, <<"ASCENDING NODE", 9738>>, <<"DESCENDING NODE", 9739>>,
    <<"CONJUNCTION", 9740>>, <<"OPPOSITION", 9741>>, <<"BLACK TELEPHONE", 9742>>,
    <<"WHITE TELEPHONE", 9743>>, <<"BALLOT BOX", 9744>>, <<"BALLOT BOX WITH CHECK", 9745>>,
    <<"BALLOT BOX WITH X", 9746>>, <<"SALTIRE", 9747>>, <<"UMBRELLA WITH RAIN DROPS", 9748>>,
    <<"HOT BEVERAGE", 9749>>, <<"WHITE SHOGI PIECE", 9750>>, <<"BLACK SHOGI PIECE", 9751>>,
    <<"SHAMROCK", 9752>>, <<"REVERSED ROTATED FLORAL HEART BULLET", 9753>>,
    <<"BLACK LEFT POINTING INDEX", 9754>>, <<"BLACK RIGHT POINTING INDEX", 9755>>,
    <<"WHITE LEFT POINTING INDEX", 9756>>, <<"WHITE UP POINTING INDEX", 9757>>,
    <<"WHITE RIGHT POINTING INDEX", 9758>>, <<"WHITE DOWN POINTING INDEX", 9759>>,
    <<"SKULL AND CROSSBONES", 9760>>, <<"CAUTION SIGN", 9761>>, <<"RADIOACTIVE SIGN", 9762>>,
    <<"BIOHAZARD SIGN", 9763>>, <<"CADUCEUS", 9764>>, <<"ANKH", 9765>>, <<"ORTHODOX CROSS", 9766>>,
    <<"CHI RHO", 9767>>, <<"CROSS OF LORRAINE", 9768>>, <<"CROSS OF JERUSALEM", 9769>>,
    <<"STAR AND CRESCENT", 9770>>, <<"FARSI SYMBOL", 9771>>, <<"ADI SHAKTI", 9772>>,
    <<"HAMMER AND SICKLE", 9773>>, <<"PEACE SYMBOL", 9774>>, <<"YIN YANG", 9775>>,
    <<"TRIGRAM FOR HEAVEN", 9776>>, <<"TRIGRAM FOR LAKE", 9777>>, <<"TRIGRAM FOR FIRE", 9778>>,
    <<"TRIGRAM FOR THUNDER", 9779>>, <<"TRIGRAM FOR WIND", 9780>>, <<"TRIGRAM FOR WATER", 9781>>,
    <<"TRIGRAM FOR MOUNTAIN", 9782>>, <<"TRIGRAM FOR EARTH", 9783>>, <<"WHEEL OF DHARMA", 9784>>,
    <<"WHITE FROWNING FACE", 9785>>, <<"WHITE SMILING FACE", 9786>>, <<"BLACK SMILING FACE", 9787>>,
    <<"WHITE SUN WITH RAYS", 9788>>, <<"FIRST QUARTER MOON", 9789>>, <<"LAST QUARTER MOON", 9790>>,
    <<"MERCURY", 9791>>, <<"FEMALE SIGN", 9792>>, <<"EARTH", 9793>>, <<"MALE SIGN", 9794>>,
    <<"JUPITER", 9795>>, <<"SATURN", 9796>>, <<"URANUS", 9797>>, <<"NEPTUNE", 9798>>,
    <<"PLUTO", 9799>>, <<"ARIES", 9800>>, <<"TAURUS", 9801>>, <<"GEMINI", 9802>>, <<"CANCER", 9803>>,
    <<"LEO", 9804>>, <<"VIRGO", 9805>>, <<"LIBRA", 9806>>, <<"SCORPIUS", 9807>>,
    <<"SAGITTARIUS", 9808>>, <<"CAPRICORN", 9809>>, <<"AQUARIUS", 9810>>, <<"PISCES", 9811>>,
    <<"WHITE CHESS KING", 9812>>, <<"WHITE CHESS QUEEN", 9813>>, <<"WHITE CHESS ROOK", 9814>>,
    <<"WHITE CHESS BISHOP", 9815>>, <<"WHITE CHESS KNIGHT", 9816>>, <<"WHITE CHESS PAWN", 9817>>,
    <<"BLACK CHESS KING", 9818>>, <<"BLACK CHESS QUEEN", 9819>>, <<"BLACK CHESS ROOK", 9820>>,
    <<"BLACK CHESS BISHOP", 9821>>, <<"BLACK CHESS KNIGHT", 9822>>, <<"BLACK CHESS PAWN", 9823>>,
    <<"BLACK SPADE SUIT", 9824>>, <<"WHITE HEART SUIT", 9825>>, <<"WHITE DIAMOND SUIT", 9826>>,
    <<"BLACK CLUB SUIT", 9827>>, <<"WHITE SPADE SUIT", 9828>>, <<"BLACK HEART SUIT", 9829>>,
    <<"BLACK DIAMOND SUIT", 9830>>, <<"WHITE CLUB SUIT", 9831>>, <<"HOT SPRINGS", 9832>>,
    <<"QUARTER NOTE", 9833>>, <<"EIGHTH NOTE", 9834>>, <<"BEAMED EIGHTH NOTES", 9835>>,
    <<"BEAMED SIXTEENTH NOTES", 9836>>, <<"MUSIC FLAT SIGN", 9837>>, <<"MUSIC NATURAL SIGN", 9838>>,
    <<"MUSIC SHARP SIGN", 9839>>, <<"WEST SYRIAC CROSS", 9840>>, <<"EAST SYRIAC CROSS", 9841>>,
    <<"UNIVERSAL RECYCLING SYMBOL", 9842>>, <<"RECYCLING SYMBOL FOR TYPE-1 PLASTICS", 9843>>,
    <<"RECYCLING SYMBOL FOR TYPE-2 PLASTICS", 9844>>, <<"RECYCLING SYMBOL FOR TYPE-3 PLASTICS", 9845>>,
    <<"RECYCLING SYMBOL FOR TYPE-4 PLASTICS", 9846>>, <<"RECYCLING SYMBOL FOR TYPE-5 PLASTICS", 9847>>,
    <<"RECYCLING SYMBOL FOR TYPE-6 PLASTICS", 9848>>, <<"RECYCLING SYMBOL FOR TYPE-7 PLASTICS", 9849>>,
    <<"RECYCLING SYMBOL FOR GENERIC MATERIALS", 9850>>, <<"BLACK UNIVERSAL RECYCLING SYMBOL", 9851>>,
    <<"RECYCLED PAPER SYMBOL", 9852>>, <<"PARTIALLY-RECYCLED PAPER SYMBOL", 9853>>,
    <<"PERMANENT PAPER SIGN", 9854>>, <<"WHEELCHAIR SYMBOL", 9855>>, <<"DIE FACE-1", 9856>>,
    <<"DIE FACE-2", 9857>>, <<"DIE FACE-3", 9858>>, <<"DIE FACE-4", 9859>>, <<"DIE FACE-5", 9860>>,
    <<"DIE FACE-6", 9861>>, <<"WHITE CIRCLE WITH DOT RIGHT", 9862>>,
    <<"WHITE CIRCLE WITH TWO DOTS", 9863>>, <<"BLACK CIRCLE WITH WHITE DOT RIGHT", 9864>>,
    <<"BLACK CIRCLE WITH TWO WHITE DOTS", 9865>>, <<"MONOGRAM FOR YANG", 9866>>,
    <<"MONOGRAM FOR YIN", 9867>>, <<"DIGRAM FOR GREATER YANG", 9868>>,
    <<"DIGRAM FOR LESSER YIN", 9869>>, <<"DIGRAM FOR LESSER YANG", 9870>>,
    <<"DIGRAM FOR GREATER YIN", 9871>>, <<"WHITE FLAG", 9872>>, <<"BLACK FLAG", 9873>>,
    <<"HAMMER AND PICK", 9874>>, <<"ANCHOR", 9875>>, <<"CROSSED SWORDS", 9876>>,
    <<"STAFF OF AESCULAPIUS", 9877>>, <<"SCALES", 9878>>, <<"ALEMBIC", 9879>>, <<"FLOWER", 9880>>,
    <<"GEAR", 9881>>, <<"STAFF OF HERMES", 9882>>, <<"ATOM SYMBOL", 9883>>, <<"FLEUR-DE-LIS", 9884>>,
    <<"OUTLINED WHITE STAR", 9885>>, <<"THREE LINES CONVERGING RIGHT", 9886>>,
    <<"THREE LINES CONVERGING LEFT", 9887>>, <<"WARNING SIGN", 9888>>, <<"HIGH VOLTAGE SIGN", 9889>>,
    <<"DOUBLED FEMALE SIGN", 9890>>, <<"DOUBLED MALE SIGN", 9891>>,
    <<"INTERLOCKED FEMALE AND MALE SIGN", 9892>>, <<"MALE AND FEMALE SIGN", 9893>>,
    <<"MALE WITH STROKE SIGN", 9894>>, <<"MALE WITH STROKE AND MALE AND FEMALE SIGN", 9895>>,
    <<"VERTICAL MALE WITH STROKE SIGN", 9896>>, <<"HORIZONTAL MALE WITH STROKE SIGN", 9897>>,
    <<"MEDIUM WHITE CIRCLE", 9898>>, <<"MEDIUM BLACK CIRCLE", 9899>>,
    <<"MEDIUM SMALL WHITE CIRCLE", 9900>>, <<"MARRIAGE SYMBOL", 9901>>, <<"DIVORCE SYMBOL", 9902>>,
    <<"UNMARRIED PARTNERSHIP SYMBOL", 9903>>, <<"COFFIN", 9904>>, <<"FUNERAL URN", 9905>>,
    <<"NEUTER", 9906>>, <<"CERES", 9907>>, <<"PALLAS", 9908>>, <<"JUNO", 9909>>, <<"VESTA", 9910>>,
    <<"CHIRON", 9911>>, <<"BLACK MOON LILITH", 9912>>, <<"SEXTILE", 9913>>, <<"SEMISEXTILE", 9914>>,
    <<"QUINCUNX", 9915>>, <<"SESQUIQUADRATE", 9916>>, <<"SOCCER BALL", 9917>>, <<"BASEBALL", 9918>>,
    <<"SQUARED KEY", 9919>>, <<"WHITE DRAUGHTS MAN", 9920>>, <<"WHITE DRAUGHTS KING", 9921>>,
    <<"BLACK DRAUGHTS MAN", 9922>>, <<"BLACK DRAUGHTS KING", 9923>>, <<"SNOWMAN WITHOUT SNOW", 9924>>,
    <<"SUN BEHIND CLOUD", 9925>>, <<"RAIN", 9926>>, <<"BLACK SNOWMAN", 9927>>,
    <<"THUNDER CLOUD AND RAIN", 9928>>, <<"TURNED WHITE SHOGI PIECE", 9929>>,
    <<"TURNED BLACK SHOGI PIECE", 9930>>, <<"WHITE DIAMOND IN SQUARE", 9931>>,
    <<"CROSSING LANES", 9932>>, <<"DISABLED CAR", 9933>>, <<"OPHIUCHUS", 9934>>, <<"PICK", 9935>>,
    <<"CAR SLIDING", 9936>>, <<"HELMET WITH WHITE CROSS", 9937>>, <<"CIRCLED CROSSING LANES", 9938>>,
    <<"CHAINS", 9939>>, <<"NO ENTRY", 9940>>, <<"ALTERNATE ONE-WAY LEFT WAY TRAFFIC", 9941>>,
    <<"BLACK TWO-WAY LEFT WAY TRAFFIC", 9942>>, <<"WHITE TWO-WAY LEFT WAY TRAFFIC", 9943>>,
    <<"BLACK LEFT LANE MERGE", 9944>>, <<"WHITE LEFT LANE MERGE", 9945>>, <<"DRIVE SLOW SIGN", 9946>>,
    <<"HEAVY WHITE DOWN-POINTING TRIANGLE", 9947>>, <<"LEFT CLOSED ENTRY", 9948>>,
    <<"SQUARED SALTIRE", 9949>>, <<"FALLING DIAGONAL IN WHITE CIRCLE IN BLACK SQUARE", 9950>>,
    <<"BLACK TRUCK", 9951>>, <<"RESTRICTED LEFT ENTRY-1", 9952>>, <<"RESTRICTED LEFT ENTRY-2", 9953>>,
    <<"ASTRONOMICAL SYMBOL FOR URANUS", 9954>>,
    <<"HEAVY CIRCLE WITH STROKE AND TWO DOTS ABOVE", 9955>>, <<"PENTAGRAM", 9956>>,
    <<"RIGHT-HANDED INTERLACED PENTAGRAM", 9957>>, <<"LEFT-HANDED INTERLACED PENTAGRAM", 9958>>,
    <<"INVERTED PENTAGRAM", 9959>>, <<"BLACK CROSS ON SHIELD", 9960>>, <<"SHINTO SHRINE", 9961>>,
    <<"CHURCH", 9962>>, <<"CASTLE", 9963>>, <<"HISTORIC SITE", 9964>>, <<"GEAR WITHOUT HUB", 9965>>,
    <<"GEAR WITH HANDLES", 9966>>, <<"MAP SYMBOL FOR LIGHTHOUSE", 9967>>, <<"MOUNTAIN", 9968>>,
    <<"UMBRELLA ON GROUND", 9969>>, <<"FOUNTAIN", 9970>>, <<"FLAG IN HOLE", 9971>>, <<"FERRY", 9972>>,
    <<"SAILBOAT", 9973>>, <<"SQUARE FOUR CORNERS", 9974>>, <<"SKIER", 9975>>, <<"ICE SKATE", 9976>>,
    <<"PERSON WITH BALL", 9977>>, <<"TENT", 9978>>, <<"JAPANESE BANK SYMBOL", 9979>>,
    <<"HEADSTONE GRAVEYARD SYMBOL", 9980>>, <<"FUEL PUMP", 9981>>, <<"CUP ON BLACK SQUARE", 9982>>,
    <<"WHITE FLAG WITH HORIZONTAL MIDDLE BLACK STRIPE", 9983>>, <<"BLACK SAFETY SCISSORS", 9984>>,
    <<"UPPER BLADE SCISSORS", 9985>>, <<"BLACK SCISSORS", 9986>>, <<"LOWER BLADE SCISSORS", 9987>>,
    <<"WHITE SCISSORS", 9988>>, <<"WHITE HEAVY CHECK MARK", 9989>>,
    <<"TELEPHONE LOCATION SIGN", 9990>>, <<"TAPE DRIVE", 9991>>, <<"AIRPLANE", 9992>>,
    <<"ENVELOPE", 9993>>, <<"RAISED FIST", 9994>>, <<"RAISED HAND", 9995>>, <<"VICTORY HAND", 9996>>,
    <<"WRITING HAND", 9997>>, <<"LOWER RIGHT PENCIL", 9998>>, <<"PENCIL", 9999>>,
    <<"UPPER RIGHT PENCIL", 10000>>, <<"WHITE NIB", 10001>>, <<"BLACK NIB", 10002>>,
    <<"CHECK MARK", 10003>>, <<"HEAVY CHECK MARK", 10004>>, <<"MULTIPLICATION X", 10005>>,
    <<"HEAVY MULTIPLICATION X", 10006>>, <<"BALLOT X", 10007>>, <<"HEAVY BALLOT X", 10008>>,
    <<"OUTLINED GREEK CROSS", 10009>>, <<"HEAVY GREEK CROSS", 10010>>, <<"OPEN CENTRE CROSS", 10011>>,
    <<"HEAVY OPEN CENTRE CROSS", 10012>>, <<"LATIN CROSS", 10013>>,
    <<"SHADOWED WHITE LATIN CROSS", 10014>>, <<"OUTLINED LATIN CROSS", 10015>>,
    <<"MALTESE CROSS", 10016>>, <<"STAR OF DAVID", 10017>>, <<"FOUR TEARDROP-SPOKED ASTERISK", 10018>>,
    <<"FOUR BALLOON-SPOKED ASTERISK", 10019>>, <<"HEAVY FOUR BALLOON-SPOKED ASTERISK", 10020>>,
    <<"FOUR CLUB-SPOKED ASTERISK", 10021>>, <<"BLACK FOUR POINTED STAR", 10022>>,
    <<"WHITE FOUR POINTED STAR", 10023>>, <<"SPARKLES", 10024>>,
    <<"STRESS OUTLINED WHITE STAR", 10025>>, <<"CIRCLED WHITE STAR", 10026>>,
    <<"OPEN CENTRE BLACK STAR", 10027>>, <<"BLACK CENTRE WHITE STAR", 10028>>,
    <<"OUTLINED BLACK STAR", 10029>>, <<"HEAVY OUTLINED BLACK STAR", 10030>>,
    <<"PINWHEEL STAR", 10031>>, <<"SHADOWED WHITE STAR", 10032>>, <<"HEAVY ASTERISK", 10033>>,
    <<"OPEN CENTRE ASTERISK", 10034>>, <<"EIGHT SPOKED ASTERISK", 10035>>,
    <<"EIGHT POINTED BLACK STAR", 10036>>, <<"EIGHT POINTED PINWHEEL STAR", 10037>>,
    <<"SIX POINTED BLACK STAR", 10038>>, <<"EIGHT POINTED RECTILINEAR BLACK STAR", 10039>>,
    <<"HEAVY EIGHT POINTED RECTILINEAR BLACK STAR", 10040>>, <<"TWELVE POINTED BLACK STAR", 10041>>,
    <<"SIXTEEN POINTED ASTERISK", 10042>>, <<"TEARDROP-SPOKED ASTERISK", 10043>>,
    <<"OPEN CENTRE TEARDROP-SPOKED ASTERISK", 10044>>, <<"HEAVY TEARDROP-SPOKED ASTERISK", 10045>>,
    <<"SIX PETALLED BLACK AND WHITE FLORETTE", 10046>>, <<"BLACK FLORETTE", 10047>>,
    <<"WHITE FLORETTE", 10048>>, <<"EIGHT PETALLED OUTLINED BLACK FLORETTE", 10049>>,
    <<"CIRCLED OPEN CENTRE EIGHT POINTED STAR", 10050>>,
    <<"HEAVY TEARDROP-SPOKED PINWHEEL ASTERISK", 10051>>, <<"SNOWFLAKE", 10052>>,
    <<"TIGHT TRIFOLIATE SNOWFLAKE", 10053>>, <<"HEAVY CHEVRON SNOWFLAKE", 10054>>,
    <<"SPARKLE", 10055>>, <<"HEAVY SPARKLE", 10056>>, <<"BALLOON-SPOKED ASTERISK", 10057>>,
    <<"EIGHT TEARDROP-SPOKED PROPELLER ASTERISK", 10058>>,
    <<"HEAVY EIGHT TEARDROP-SPOKED PROPELLER ASTERISK", 10059>>, <<"CROSS MARK", 10060>>,
    <<"SHADOWED WHITE CIRCLE", 10061>>, <<"NEGATIVE SQUARED CROSS MARK", 10062>>,
    <<"LOWER RIGHT DROP-SHADOWED WHITE SQUARE", 10063>>,
    <<"UPPER RIGHT DROP-SHADOWED WHITE SQUARE", 10064>>,
    <<"LOWER RIGHT SHADOWED WHITE SQUARE", 10065>>, <<"UPPER RIGHT SHADOWED WHITE SQUARE", 10066>>,
    <<"BLACK QUESTION MARK ORNAMENT", 10067>>, <<"WHITE QUESTION MARK ORNAMENT", 10068>>,
    <<"WHITE EXCLAMATION MARK ORNAMENT", 10069>>, <<"BLACK DIAMOND MINUS WHITE X", 10070>>,
    <<"HEAVY EXCLAMATION MARK SYMBOL", 10071>>, <<"LIGHT VERTICAL BAR", 10072>>,
    <<"MEDIUM VERTICAL BAR", 10073>>, <<"HEAVY VERTICAL BAR", 10074>>,
    <<"HEAVY SINGLE TURNED COMMA QUOTATION MARK ORNAMENT", 10075>>,
    <<"HEAVY SINGLE COMMA QUOTATION MARK ORNAMENT", 10076>>,
    <<"HEAVY DOUBLE TURNED COMMA QUOTATION MARK ORNAMENT", 10077>>,
    <<"HEAVY DOUBLE COMMA QUOTATION MARK ORNAMENT", 10078>>,
    <<"HEAVY LOW SINGLE COMMA QUOTATION MARK ORNAMENT", 10079>>,
    <<"HEAVY LOW DOUBLE COMMA QUOTATION MARK ORNAMENT", 10080>>,
    <<"CURVED STEM PARAGRAPH SIGN ORNAMENT", 10081>>, <<"HEAVY EXCLAMATION MARK ORNAMENT", 10082>>,
    <<"HEAVY HEART EXCLAMATION MARK ORNAMENT", 10083>>, <<"HEAVY BLACK HEART", 10084>>,
    <<"ROTATED HEAVY BLACK HEART BULLET", 10085>>, <<"FLORAL HEART", 10086>>,
    <<"ROTATED FLORAL HEART BULLET", 10087>>, <<"MEDIUM LEFT PARENTHESIS ORNAMENT", 10088>>,
    <<"MEDIUM RIGHT PARENTHESIS ORNAMENT", 10089>>,
    <<"MEDIUM FLATTENED LEFT PARENTHESIS ORNAMENT", 10090>>,
    <<"MEDIUM FLATTENED RIGHT PARENTHESIS ORNAMENT", 10091>>,
    <<"MEDIUM LEFT-POINTING ANGLE BRACKET ORNAMENT", 10092>>,
    <<"MEDIUM RIGHT-POINTING ANGLE BRACKET ORNAMENT", 10093>>,
    <<"HEAVY LEFT-POINTING ANGLE QUOTATION MARK ORNAMENT", 10094>>,
    <<"HEAVY RIGHT-POINTING ANGLE QUOTATION MARK ORNAMENT", 10095>>,
    <<"HEAVY LEFT-POINTING ANGLE BRACKET ORNAMENT", 10096>>,
    <<"HEAVY RIGHT-POINTING ANGLE BRACKET ORNAMENT", 10097>>,
    <<"LIGHT LEFT TORTOISE SHELL BRACKET ORNAMENT", 10098>>,
    <<"LIGHT RIGHT TORTOISE SHELL BRACKET ORNAMENT", 10099>>,
    <<"MEDIUM LEFT CURLY BRACKET ORNAMENT", 10100>>, <<"MEDIUM RIGHT CURLY BRACKET ORNAMENT", 10101>>,
    <<"DINGBAT NEGATIVE CIRCLED DIGIT ONE", 10102>>, <<"DINGBAT NEGATIVE CIRCLED DIGIT TWO", 10103>>,
    <<"DINGBAT NEGATIVE CIRCLED DIGIT THREE", 10104>>,
    <<"DINGBAT NEGATIVE CIRCLED DIGIT FOUR", 10105>>, <<"DINGBAT NEGATIVE CIRCLED DIGIT FIVE", 10106>>,
    <<"DINGBAT NEGATIVE CIRCLED DIGIT SIX", 10107>>, <<"DINGBAT NEGATIVE CIRCLED DIGIT SEVEN", 10108>>,
    <<"DINGBAT NEGATIVE CIRCLED DIGIT EIGHT", 10109>>,
    <<"DINGBAT NEGATIVE CIRCLED DIGIT NINE", 10110>>, <<"DINGBAT NEGATIVE CIRCLED NUMBER TEN", 10111>>,
    <<"DINGBAT CIRCLED SANS-SERIF DIGIT ONE", 10112>>,
    <<"DINGBAT CIRCLED SANS-SERIF DIGIT TWO", 10113>>,
    <<"DINGBAT CIRCLED SANS-SERIF DIGIT THREE", 10114>>,
    <<"DINGBAT CIRCLED SANS-SERIF DIGIT FOUR", 10115>>,
    <<"DINGBAT CIRCLED SANS-SERIF DIGIT FIVE", 10116>>,
    <<"DINGBAT CIRCLED SANS-SERIF DIGIT SIX", 10117>>,
    <<"DINGBAT CIRCLED SANS-SERIF DIGIT SEVEN", 10118>>,
    <<"DINGBAT CIRCLED SANS-SERIF DIGIT EIGHT", 10119>>,
    <<"DINGBAT CIRCLED SANS-SERIF DIGIT NINE", 10120>>,
    <<"DINGBAT CIRCLED SANS-SERIF NUMBER TEN", 10121>>,
    <<"DINGBAT NEGATIVE CIRCLED SANS-SERIF DIGIT ONE", 10122>>,
    <<"DINGBAT NEGATIVE CIRCLED SANS-SERIF DIGIT TWO", 10123>>,
    <<"DINGBAT NEGATIVE CIRCLED SANS-SERIF DIGIT THREE", 10124>>,
    <<"DINGBAT NEGATIVE CIRCLED SANS-SERIF DIGIT FOUR", 10125>>,
    <<"DINGBAT NEGATIVE CIRCLED SANS-SERIF DIGIT FIVE", 10126>>,
    <<"DINGBAT NEGATIVE CIRCLED SANS-SERIF DIGIT SIX", 10127>>,
    <<"DINGBAT NEGATIVE CIRCLED SANS-SERIF DIGIT SEVEN", 10128>>,
    <<"DINGBAT NEGATIVE CIRCLED SANS-SERIF DIGIT EIGHT", 10129>>,
    <<"DINGBAT NEGATIVE CIRCLED SANS-SERIF DIGIT NINE", 10130>>,
    <<"DINGBAT NEGATIVE CIRCLED SANS-SERIF NUMBER TEN", 10131>>,
    <<"HEAVY WIDE-HEADED RIGHTWARDS ARROW", 10132>>, <<"HEAVY PLUS SIGN", 10133>>,
    <<"HEAVY MINUS SIGN", 10134>>, <<"HEAVY DIVISION SIGN", 10135>>,
    <<"HEAVY SOUTH EAST ARROW", 10136>>, <<"HEAVY RIGHTWARDS ARROW", 10137>>,
    <<"HEAVY NORTH EAST ARROW", 10138>>, <<"DRAFTING POINT RIGHTWARDS ARROW", 10139>>,
    <<"HEAVY ROUND-TIPPED RIGHTWARDS ARROW", 10140>>, <<"TRIANGLE-HEADED RIGHTWARDS ARROW", 10141>>,
    <<"HEAVY TRIANGLE-HEADED RIGHTWARDS ARROW", 10142>>,
    <<"DASHED TRIANGLE-HEADED RIGHTWARDS ARROW", 10143>>,
    <<"HEAVY DASHED TRIANGLE-HEADED RIGHTWARDS ARROW", 10144>>, <<"BLACK RIGHTWARDS ARROW", 10145>>,
    <<"THREE-D TOP-LIGHTED RIGHTWARDS ARROWHEAD", 10146>>,
    <<"THREE-D BOTTOM-LIGHTED RIGHTWARDS ARROWHEAD", 10147>>, <<"BLACK RIGHTWARDS ARROWHEAD", 10148>>,
    <<"HEAVY BLACK CURVED DOWNWARDS AND RIGHTWARDS ARROW", 10149>>,
    <<"HEAVY BLACK CURVED UPWARDS AND RIGHTWARDS ARROW", 10150>>,
    <<"SQUAT BLACK RIGHTWARDS ARROW", 10151>>,
    <<"HEAVY CONCAVE-POINTED BLACK RIGHTWARDS ARROW", 10152>>,
    <<"RIGHT-SHADED WHITE RIGHTWARDS ARROW", 10153>>, <<"LEFT-SHADED WHITE RIGHTWARDS ARROW", 10154>>,
    <<"BACK-TILTED SHADOWED WHITE RIGHTWARDS ARROW", 10155>>,
    <<"FRONT-TILTED SHADOWED WHITE RIGHTWARDS ARROW", 10156>>,
    <<"HEAVY LOWER RIGHT-SHADOWED WHITE RIGHTWARDS ARROW", 10157>>,
    <<"HEAVY UPPER RIGHT-SHADOWED WHITE RIGHTWARDS ARROW", 10158>>,
    <<"NOTCHED LOWER RIGHT-SHADOWED WHITE RIGHTWARDS ARROW", 10159>>, <<"CURLY LOOP", 10160>>,
    <<"NOTCHED UPPER RIGHT-SHADOWED WHITE RIGHTWARDS ARROW", 10161>>,
    <<"CIRCLED HEAVY WHITE RIGHTWARDS ARROW", 10162>>, <<"WHITE-FEATHERED RIGHTWARDS ARROW", 10163>>,
    <<"BLACK-FEATHERED SOUTH EAST ARROW", 10164>>, <<"BLACK-FEATHERED RIGHTWARDS ARROW", 10165>>,
    <<"BLACK-FEATHERED NORTH EAST ARROW", 10166>>, <<"HEAVY BLACK-FEATHERED SOUTH EAST ARROW", 10167>>,
    <<"HEAVY BLACK-FEATHERED RIGHTWARDS ARROW", 10168>>,
    <<"HEAVY BLACK-FEATHERED NORTH EAST ARROW", 10169>>, <<"TEARDROP-BARBED RIGHTWARDS ARROW", 10170>>,
    <<"HEAVY TEARDROP-SHANKED RIGHTWARDS ARROW", 10171>>, <<"WEDGE-TAILED RIGHTWARDS ARROW", 10172>>,
    <<"HEAVY WEDGE-TAILED RIGHTWARDS ARROW", 10173>>, <<"OPEN-OUTLINED RIGHTWARDS ARROW", 10174>>,
    <<"DOUBLE CURLY LOOP", 10175>>, <<"THREE DIMENSIONAL ANGLE", 10176>>,
    <<"WHITE TRIANGLE CONTAINING SMALL WHITE TRIANGLE", 10177>>, <<"PERPENDICULAR", 10178>>,
    <<"OPEN SUBSET", 10179>>, <<"OPEN SUPERSET", 10180>>, <<"LEFT S-SHAPED BAG DELIMITER", 10181>>,
    <<"RIGHT S-SHAPED BAG DELIMITER", 10182>>, <<"OR WITH DOT INSIDE", 10183>>,
    <<"REVERSE SOLIDUS PRECEDING SUBSET", 10184>>, <<"SUPERSET PRECEDING SOLIDUS", 10185>>,
    <<"VERTICAL BAR WITH HORIZONTAL STROKE", 10186>>, <<"MATHEMATICAL RISING DIAGONAL", 10187>>,
    <<"LONG DIVISION", 10188>>, <<"MATHEMATICAL FALLING DIAGONAL", 10189>>,
    <<"SQUARED LOGICAL AND", 10190>>, <<"SQUARED LOGICAL OR", 10191>>,
    <<"WHITE DIAMOND WITH CENTRED DOT", 10192>>, <<"AND WITH DOT", 10193>>,
    <<"ELEMENT OF OPENING UPWARDS", 10194>>, <<"LOWER RIGHT CORNER WITH DOT", 10195>>,
    <<"UPPER LEFT CORNER WITH DOT", 10196>>, <<"LEFT OUTER JOIN", 10197>>,
    <<"RIGHT OUTER JOIN", 10198>>, <<"FULL OUTER JOIN", 10199>>, <<"LARGE UP TACK", 10200>>,
    <<"LARGE DOWN TACK", 10201>>, <<"LEFT AND RIGHT DOUBLE TURNSTILE", 10202>>,
    <<"LEFT AND RIGHT TACK", 10203>>, <<"LEFT MULTIMAP", 10204>>, <<"LONG RIGHT TACK", 10205>>,
    <<"LONG LEFT TACK", 10206>>, <<"UP TACK WITH CIRCLE ABOVE", 10207>>,
    <<"LOZENGE DIVIDED BY HORIZONTAL RULE", 10208>>, <<"WHITE CONCAVE-SIDED DIAMOND", 10209>>,
    <<"WHITE CONCAVE-SIDED DIAMOND WITH LEFTWARDS TICK", 10210>>,
    <<"WHITE CONCAVE-SIDED DIAMOND WITH RIGHTWARDS TICK", 10211>>,
    <<"WHITE SQUARE WITH LEFTWARDS TICK", 10212>>, <<"WHITE SQUARE WITH RIGHTWARDS TICK", 10213>>,
    <<"MATHEMATICAL LEFT WHITE SQUARE BRACKET", 10214>>,
    <<"MATHEMATICAL RIGHT WHITE SQUARE BRACKET", 10215>>, <<"MATHEMATICAL LEFT ANGLE BRACKET", 10216>>,
    <<"MATHEMATICAL RIGHT ANGLE BRACKET", 10217>>, <<"MATHEMATICAL LEFT DOUBLE ANGLE BRACKET", 10218>>,
    <<"MATHEMATICAL RIGHT DOUBLE ANGLE BRACKET", 10219>>,
    <<"MATHEMATICAL LEFT WHITE TORTOISE SHELL BRACKET", 10220>>,
    <<"MATHEMATICAL RIGHT WHITE TORTOISE SHELL BRACKET", 10221>>,
    <<"MATHEMATICAL LEFT FLATTENED PARENTHESIS", 10222>>,
    <<"MATHEMATICAL RIGHT FLATTENED PARENTHESIS", 10223>>, <<"UPWARDS QUADRUPLE ARROW", 10224>>,
    <<"DOWNWARDS QUADRUPLE ARROW", 10225>>, <<"ANTICLOCKWISE GAPPED CIRCLE ARROW", 10226>>,
    <<"CLOCKWISE GAPPED CIRCLE ARROW", 10227>>, <<"RIGHT ARROW WITH CIRCLED PLUS", 10228>>,
    <<"LONG LEFTWARDS ARROW", 10229>>, <<"LONG RIGHTWARDS ARROW", 10230>>,
    <<"LONG LEFT RIGHT ARROW", 10231>>, <<"LONG LEFTWARDS DOUBLE ARROW", 10232>>,
    <<"LONG RIGHTWARDS DOUBLE ARROW", 10233>>, <<"LONG LEFT RIGHT DOUBLE ARROW", 10234>>,
    <<"LONG LEFTWARDS ARROW FROM BAR", 10235>>, <<"LONG RIGHTWARDS ARROW FROM BAR", 10236>>,
    <<"LONG LEFTWARDS DOUBLE ARROW FROM BAR", 10237>>,
    <<"LONG RIGHTWARDS DOUBLE ARROW FROM BAR", 10238>>, <<"LONG RIGHTWARDS SQUIGGLE ARROW", 10239>>,
    <<"BRAILLE PATTERN BLANK", 10240>>, <<"BRAILLE PATTERN DOTS-1", 10241>>,
    <<"BRAILLE PATTERN DOTS-2", 10242>>, <<"BRAILLE PATTERN DOTS-12", 10243>>,
    <<"BRAILLE PATTERN DOTS-3", 10244>>, <<"BRAILLE PATTERN DOTS-13", 10245>>,
    <<"BRAILLE PATTERN DOTS-23", 10246>>, <<"BRAILLE PATTERN DOTS-123", 10247>>,
    <<"BRAILLE PATTERN DOTS-4", 10248>>, <<"BRAILLE PATTERN DOTS-14", 10249>>,
    <<"BRAILLE PATTERN DOTS-24", 10250>>, <<"BRAILLE PATTERN DOTS-124", 10251>>,
    <<"BRAILLE PATTERN DOTS-34", 10252>>, <<"BRAILLE PATTERN DOTS-134", 10253>>,
    <<"BRAILLE PATTERN DOTS-234", 10254>>, <<"BRAILLE PATTERN DOTS-1234", 10255>>,
    <<"BRAILLE PATTERN DOTS-5", 10256>>, <<"BRAILLE PATTERN DOTS-15", 10257>>,
    <<"BRAILLE PATTERN DOTS-25", 10258>>, <<"BRAILLE PATTERN DOTS-125", 10259>>,
    <<"BRAILLE PATTERN DOTS-35", 10260>>, <<"BRAILLE PATTERN DOTS-135", 10261>>,
    <<"BRAILLE PATTERN DOTS-235", 10262>>, <<"BRAILLE PATTERN DOTS-1235", 10263>>,
    <<"BRAILLE PATTERN DOTS-45", 10264>>, <<"BRAILLE PATTERN DOTS-145", 10265>>,
    <<"BRAILLE PATTERN DOTS-245", 10266>>, <<"BRAILLE PATTERN DOTS-1245", 10267>>,
    <<"BRAILLE PATTERN DOTS-345", 10268>>, <<"BRAILLE PATTERN DOTS-1345", 10269>>,
    <<"BRAILLE PATTERN DOTS-2345", 10270>>, <<"BRAILLE PATTERN DOTS-12345", 10271>>,
    <<"BRAILLE PATTERN DOTS-6", 10272>>, <<"BRAILLE PATTERN DOTS-16", 10273>>,
    <<"BRAILLE PATTERN DOTS-26", 10274>>, <<"BRAILLE PATTERN DOTS-126", 10275>>,
    <<"BRAILLE PATTERN DOTS-36", 10276>>, <<"BRAILLE PATTERN DOTS-136", 10277>>,
    <<"BRAILLE PATTERN DOTS-236", 10278>>, <<"BRAILLE PATTERN DOTS-1236", 10279>>,
    <<"BRAILLE PATTERN DOTS-46", 10280>>, <<"BRAILLE PATTERN DOTS-146", 10281>>,
    <<"BRAILLE PATTERN DOTS-246", 10282>>, <<"BRAILLE PATTERN DOTS-1246", 10283>>,
    <<"BRAILLE PATTERN DOTS-346", 10284>>, <<"BRAILLE PATTERN DOTS-1346", 10285>>,
    <<"BRAILLE PATTERN DOTS-2346", 10286>>, <<"BRAILLE PATTERN DOTS-12346", 10287>>,
    <<"BRAILLE PATTERN DOTS-56", 10288>>, <<"BRAILLE PATTERN DOTS-156", 10289>>,
    <<"BRAILLE PATTERN DOTS-256", 10290>>, <<"BRAILLE PATTERN DOTS-1256", 10291>>,
    <<"BRAILLE PATTERN DOTS-356", 10292>>, <<"BRAILLE PATTERN DOTS-1356", 10293>>,
    <<"BRAILLE PATTERN DOTS-2356", 10294>>, <<"BRAILLE PATTERN DOTS-12356", 10295>>,
    <<"BRAILLE PATTERN DOTS-456", 10296>>, <<"BRAILLE PATTERN DOTS-1456", 10297>>,
    <<"BRAILLE PATTERN DOTS-2456", 10298>>, <<"BRAILLE PATTERN DOTS-12456", 10299>>,
    <<"BRAILLE PATTERN DOTS-3456", 10300>>, <<"BRAILLE PATTERN DOTS-13456", 10301>>,
    <<"BRAILLE PATTERN DOTS-23456", 10302>>, <<"BRAILLE PATTERN DOTS-123456", 10303>>,
    <<"BRAILLE PATTERN DOTS-7", 10304>>, <<"BRAILLE PATTERN DOTS-17", 10305>>,
    <<"BRAILLE PATTERN DOTS-27", 10306>>, <<"BRAILLE PATTERN DOTS-127", 10307>>,
    <<"BRAILLE PATTERN DOTS-37", 10308>>, <<"BRAILLE PATTERN DOTS-137", 10309>>,
    <<"BRAILLE PATTERN DOTS-237", 10310>>, <<"BRAILLE PATTERN DOTS-1237", 10311>>,
    <<"BRAILLE PATTERN DOTS-47", 10312>>, <<"BRAILLE PATTERN DOTS-147", 10313>>,
    <<"BRAILLE PATTERN DOTS-247", 10314>>, <<"BRAILLE PATTERN DOTS-1247", 10315>>,
    <<"BRAILLE PATTERN DOTS-347", 10316>>, <<"BRAILLE PATTERN DOTS-1347", 10317>>,
    <<"BRAILLE PATTERN DOTS-2347", 10318>>, <<"BRAILLE PATTERN DOTS-12347", 10319>>,
    <<"BRAILLE PATTERN DOTS-57", 10320>>, <<"BRAILLE PATTERN DOTS-157", 10321>>,
    <<"BRAILLE PATTERN DOTS-257", 10322>>, <<"BRAILLE PATTERN DOTS-1257", 10323>>,
    <<"BRAILLE PATTERN DOTS-357", 10324>>, <<"BRAILLE PATTERN DOTS-1357", 10325>>,
    <<"BRAILLE PATTERN DOTS-2357", 10326>>, <<"BRAILLE PATTERN DOTS-12357", 10327>>,
    <<"BRAILLE PATTERN DOTS-457", 10328>>, <<"BRAILLE PATTERN DOTS-1457", 10329>>,
    <<"BRAILLE PATTERN DOTS-2457", 10330>>, <<"BRAILLE PATTERN DOTS-12457", 10331>>,
    <<"BRAILLE PATTERN DOTS-3457", 10332>>, <<"BRAILLE PATTERN DOTS-13457", 10333>>,
    <<"BRAILLE PATTERN DOTS-23457", 10334>>, <<"BRAILLE PATTERN DOTS-123457", 10335>>,
    <<"BRAILLE PATTERN DOTS-67", 10336>>, <<"BRAILLE PATTERN DOTS-167", 10337>>,
    <<"BRAILLE PATTERN DOTS-267", 10338>>, <<"BRAILLE PATTERN DOTS-1267", 10339>>,
    <<"BRAILLE PATTERN DOTS-367", 10340>>, <<"BRAILLE PATTERN DOTS-1367", 10341>>,
    <<"BRAILLE PATTERN DOTS-2367", 10342>>, <<"BRAILLE PATTERN DOTS-12367", 10343>>,
    <<"BRAILLE PATTERN DOTS-467", 10344>>, <<"BRAILLE PATTERN DOTS-1467", 10345>>,
    <<"BRAILLE PATTERN DOTS-2467", 10346>>, <<"BRAILLE PATTERN DOTS-12467", 10347>>,
    <<"BRAILLE PATTERN DOTS-3467", 10348>>, <<"BRAILLE PATTERN DOTS-13467", 10349>>,
    <<"BRAILLE PATTERN DOTS-23467", 10350>>, <<"BRAILLE PATTERN DOTS-123467", 10351>>,
    <<"BRAILLE PATTERN DOTS-567", 10352>>, <<"BRAILLE PATTERN DOTS-1567", 10353>>,
    <<"BRAILLE PATTERN DOTS-2567", 10354>>, <<"BRAILLE PATTERN DOTS-12567", 10355>>,
    <<"BRAILLE PATTERN DOTS-3567", 10356>>, <<"BRAILLE PATTERN DOTS-13567", 10357>>,
    <<"BRAILLE PATTERN DOTS-23567", 10358>>, <<"BRAILLE PATTERN DOTS-123567", 10359>>,
    <<"BRAILLE PATTERN DOTS-4567", 10360>>, <<"BRAILLE PATTERN DOTS-14567", 10361>>,
    <<"BRAILLE PATTERN DOTS-24567", 10362>>, <<"BRAILLE PATTERN DOTS-124567", 10363>>,
    <<"BRAILLE PATTERN DOTS-34567", 10364>>, <<"BRAILLE PATTERN DOTS-134567", 10365>>,
    <<"BRAILLE PATTERN DOTS-234567", 10366>>, <<"BRAILLE PATTERN DOTS-1234567", 10367>>,
    <<"BRAILLE PATTERN DOTS-8", 10368>>, <<"BRAILLE PATTERN DOTS-18", 10369>>,
    <<"BRAILLE PATTERN DOTS-28", 10370>>, <<"BRAILLE PATTERN DOTS-128", 10371>>,
    <<"BRAILLE PATTERN DOTS-38", 10372>>, <<"BRAILLE PATTERN DOTS-138", 10373>>,
    <<"BRAILLE PATTERN DOTS-238", 10374>>, <<"BRAILLE PATTERN DOTS-1238", 10375>>,
    <<"BRAILLE PATTERN DOTS-48", 10376>>, <<"BRAILLE PATTERN DOTS-148", 10377>>,
    <<"BRAILLE PATTERN DOTS-248", 10378>>, <<"BRAILLE PATTERN DOTS-1248", 10379>>,
    <<"BRAILLE PATTERN DOTS-348", 10380>>, <<"BRAILLE PATTERN DOTS-1348", 10381>>,
    <<"BRAILLE PATTERN DOTS-2348", 10382>>, <<"BRAILLE PATTERN DOTS-12348", 10383>>,
    <<"BRAILLE PATTERN DOTS-58", 10384>>, <<"BRAILLE PATTERN DOTS-158", 10385>>,
    <<"BRAILLE PATTERN DOTS-258", 10386>>, <<"BRAILLE PATTERN DOTS-1258", 10387>>,
    <<"BRAILLE PATTERN DOTS-358", 10388>>, <<"BRAILLE PATTERN DOTS-1358", 10389>>,
    <<"BRAILLE PATTERN DOTS-2358", 10390>>, <<"BRAILLE PATTERN DOTS-12358", 10391>>,
    <<"BRAILLE PATTERN DOTS-458", 10392>>, <<"BRAILLE PATTERN DOTS-1458", 10393>>,
    <<"BRAILLE PATTERN DOTS-2458", 10394>>, <<"BRAILLE PATTERN DOTS-12458", 10395>>,
    <<"BRAILLE PATTERN DOTS-3458", 10396>>, <<"BRAILLE PATTERN DOTS-13458", 10397>>,
    <<"BRAILLE PATTERN DOTS-23458", 10398>>, <<"BRAILLE PATTERN DOTS-123458", 10399>>,
    <<"BRAILLE PATTERN DOTS-68", 10400>>, <<"BRAILLE PATTERN DOTS-168", 10401>>,
    <<"BRAILLE PATTERN DOTS-268", 10402>>, <<"BRAILLE PATTERN DOTS-1268", 10403>>,
    <<"BRAILLE PATTERN DOTS-368", 10404>>, <<"BRAILLE PATTERN DOTS-1368", 10405>>,
    <<"BRAILLE PATTERN DOTS-2368", 10406>>, <<"BRAILLE PATTERN DOTS-12368", 10407>>,
    <<"BRAILLE PATTERN DOTS-468", 10408>>, <<"BRAILLE PATTERN DOTS-1468", 10409>>,
    <<"BRAILLE PATTERN DOTS-2468", 10410>>, <<"BRAILLE PATTERN DOTS-12468", 10411>>,
    <<"BRAILLE PATTERN DOTS-3468", 10412>>, <<"BRAILLE PATTERN DOTS-13468", 10413>>,
    <<"BRAILLE PATTERN DOTS-23468", 10414>>, <<"BRAILLE PATTERN DOTS-123468", 10415>>,
    <<"BRAILLE PATTERN DOTS-568", 10416>>, <<"BRAILLE PATTERN DOTS-1568", 10417>>,
    <<"BRAILLE PATTERN DOTS-2568", 10418>>, <<"BRAILLE PATTERN DOTS-12568", 10419>>,
    <<"BRAILLE PATTERN DOTS-3568", 10420>>, <<"BRAILLE PATTERN DOTS-13568", 10421>>,
    <<"BRAILLE PATTERN DOTS-23568", 10422>>, <<"BRAILLE PATTERN DOTS-123568", 10423>>,
    <<"BRAILLE PATTERN DOTS-4568", 10424>>, <<"BRAILLE PATTERN DOTS-14568", 10425>>,
    <<"BRAILLE PATTERN DOTS-24568", 10426>>, <<"BRAILLE PATTERN DOTS-124568", 10427>>,
    <<"BRAILLE PATTERN DOTS-34568", 10428>>, <<"BRAILLE PATTERN DOTS-134568", 10429>>,
    <<"BRAILLE PATTERN DOTS-234568", 10430>>, <<"BRAILLE PATTERN DOTS-1234568", 10431>>,
    <<"BRAILLE PATTERN DOTS-78", 10432>>, <<"BRAILLE PATTERN DOTS-178", 10433>>,
    <<"BRAILLE PATTERN DOTS-278", 10434>>, <<"BRAILLE PATTERN DOTS-1278", 10435>>,
    <<"BRAILLE PATTERN DOTS-378", 10436>>, <<"BRAILLE PATTERN DOTS-1378", 10437>>,
    <<"BRAILLE PATTERN DOTS-2378", 10438>>, <<"BRAILLE PATTERN DOTS-12378", 10439>>,
    <<"BRAILLE PATTERN DOTS-478", 10440>>, <<"BRAILLE PATTERN DOTS-1478", 10441>>,
    <<"BRAILLE PATTERN DOTS-2478", 10442>>, <<"BRAILLE PATTERN DOTS-12478", 10443>>,
    <<"BRAILLE PATTERN DOTS-3478", 10444>>, <<"BRAILLE PATTERN DOTS-13478", 10445>>,
    <<"BRAILLE PATTERN DOTS-23478", 10446>>, <<"BRAILLE PATTERN DOTS-123478", 10447>>,
    <<"BRAILLE PATTERN DOTS-578", 10448>>, <<"BRAILLE PATTERN DOTS-1578", 10449>>,
    <<"BRAILLE PATTERN DOTS-2578", 10450>>, <<"BRAILLE PATTERN DOTS-12578", 10451>>,
    <<"BRAILLE PATTERN DOTS-3578", 10452>>, <<"BRAILLE PATTERN DOTS-13578", 10453>>,
    <<"BRAILLE PATTERN DOTS-23578", 10454>>, <<"BRAILLE PATTERN DOTS-123578", 10455>>,
    <<"BRAILLE PATTERN DOTS-4578", 10456>>, <<"BRAILLE PATTERN DOTS-14578", 10457>>,
    <<"BRAILLE PATTERN DOTS-24578", 10458>>, <<"BRAILLE PATTERN DOTS-124578", 10459>>,
    <<"BRAILLE PATTERN DOTS-34578", 10460>>, <<"BRAILLE PATTERN DOTS-134578", 10461>>,
    <<"BRAILLE PATTERN DOTS-234578", 10462>>, <<"BRAILLE PATTERN DOTS-1234578", 10463>>,
    <<"BRAILLE PATTERN DOTS-678", 10464>>, <<"BRAILLE PATTERN DOTS-1678", 10465>>,
    <<"BRAILLE PATTERN DOTS-2678", 10466>>, <<"BRAILLE PATTERN DOTS-12678", 10467>>,
    <<"BRAILLE PATTERN DOTS-3678", 10468>>, <<"BRAILLE PATTERN DOTS-13678", 10469>>,
    <<"BRAILLE PATTERN DOTS-23678", 10470>>, <<"BRAILLE PATTERN DOTS-123678", 10471>>,
    <<"BRAILLE PATTERN DOTS-4678", 10472>>, <<"BRAILLE PATTERN DOTS-14678", 10473>>,
    <<"BRAILLE PATTERN DOTS-24678", 10474>>, <<"BRAILLE PATTERN DOTS-124678", 10475>>,
    <<"BRAILLE PATTERN DOTS-34678", 10476>>, <<"BRAILLE PATTERN DOTS-134678", 10477>>,
    <<"BRAILLE PATTERN DOTS-234678", 10478>>, <<"BRAILLE PATTERN DOTS-1234678", 10479>>,
    <<"BRAILLE PATTERN DOTS-5678", 10480>>, <<"BRAILLE PATTERN DOTS-15678", 10481>>,
    <<"BRAILLE PATTERN DOTS-25678", 10482>>, <<"BRAILLE PATTERN DOTS-125678", 10483>>,
    <<"BRAILLE PATTERN DOTS-35678", 10484>>, <<"BRAILLE PATTERN DOTS-135678", 10485>>,
    <<"BRAILLE PATTERN DOTS-235678", 10486>>, <<"BRAILLE PATTERN DOTS-1235678", 10487>>,
    <<"BRAILLE PATTERN DOTS-45678", 10488>>, <<"BRAILLE PATTERN DOTS-145678", 10489>>,
    <<"BRAILLE PATTERN DOTS-245678", 10490>>, <<"BRAILLE PATTERN DOTS-1245678", 10491>>,
    <<"BRAILLE PATTERN DOTS-345678", 10492>>, <<"BRAILLE PATTERN DOTS-1345678", 10493>>,
    <<"BRAILLE PATTERN DOTS-2345678", 10494>>, <<"BRAILLE PATTERN DOTS-12345678", 10495>>,
    <<"RIGHTWARDS TWO-HEADED ARROW WITH VERTICAL STROKE", 10496>>,
    <<"RIGHTWARDS TWO-HEADED ARROW WITH DOUBLE VERTICAL STROKE", 10497>>,
    <<"LEFTWARDS DOUBLE ARROW WITH VERTICAL STROKE", 10498>>,
    <<"RIGHTWARDS DOUBLE ARROW WITH VERTICAL STROKE", 10499>>,
    <<"LEFT RIGHT DOUBLE ARROW WITH VERTICAL STROKE", 10500>>,
    <<"RIGHTWARDS TWO-HEADED ARROW FROM BAR", 10501>>, <<"LEFTWARDS DOUBLE ARROW FROM BAR", 10502>>,
    <<"RIGHTWARDS DOUBLE ARROW FROM BAR", 10503>>, <<"DOWNWARDS ARROW WITH HORIZONTAL STROKE", 10504>>,
    <<"UPWARDS ARROW WITH HORIZONTAL STROKE", 10505>>, <<"UPWARDS TRIPLE ARROW", 10506>>,
    <<"DOWNWARDS TRIPLE ARROW", 10507>>, <<"LEFTWARDS DOUBLE DASH ARROW", 10508>>,
    <<"RIGHTWARDS DOUBLE DASH ARROW", 10509>>, <<"LEFTWARDS TRIPLE DASH ARROW", 10510>>,
    <<"RIGHTWARDS TRIPLE DASH ARROW", 10511>>, <<"RIGHTWARDS TWO-HEADED TRIPLE DASH ARROW", 10512>>,
    <<"RIGHTWARDS ARROW WITH DOTTED STEM", 10513>>, <<"UPWARDS ARROW TO BAR", 10514>>,
    <<"DOWNWARDS ARROW TO BAR", 10515>>, <<"RIGHTWARDS ARROW WITH TAIL WITH VERTICAL STROKE", 10516>>,
    <<"RIGHTWARDS ARROW WITH TAIL WITH DOUBLE VERTICAL STROKE", 10517>>,
    <<"RIGHTWARDS TWO-HEADED ARROW WITH TAIL", 10518>>,
    <<"RIGHTWARDS TWO-HEADED ARROW WITH TAIL WITH VERTICAL STROKE", 10519>>,
    <<"RIGHTWARDS TWO-HEADED ARROW WITH TAIL WITH DOUBLE VERTICAL STROKE", 10520>>,
    <<"LEFTWARDS ARROW-TAIL", 10521>>, <<"RIGHTWARDS ARROW-TAIL", 10522>>,
    <<"LEFTWARDS DOUBLE ARROW-TAIL", 10523>>, <<"RIGHTWARDS DOUBLE ARROW-TAIL", 10524>>,
    <<"LEFTWARDS ARROW TO BLACK DIAMOND", 10525>>, <<"RIGHTWARDS ARROW TO BLACK DIAMOND", 10526>>,
    <<"LEFTWARDS ARROW FROM BAR TO BLACK DIAMOND", 10527>>,
    <<"RIGHTWARDS ARROW FROM BAR TO BLACK DIAMOND", 10528>>,
    <<"NORTH WEST AND SOUTH EAST ARROW", 10529>>, <<"NORTH EAST AND SOUTH WEST ARROW", 10530>>,
    <<"NORTH WEST ARROW WITH HOOK", 10531>>, <<"NORTH EAST ARROW WITH HOOK", 10532>>,
    <<"SOUTH EAST ARROW WITH HOOK", 10533>>, <<"SOUTH WEST ARROW WITH HOOK", 10534>>,
    <<"NORTH WEST ARROW AND NORTH EAST ARROW", 10535>>,
    <<"NORTH EAST ARROW AND SOUTH EAST ARROW", 10536>>,
    <<"SOUTH EAST ARROW AND SOUTH WEST ARROW", 10537>>,
    <<"SOUTH WEST ARROW AND NORTH WEST ARROW", 10538>>,
    <<"RISING DIAGONAL CROSSING FALLING DIAGONAL", 10539>>,
    <<"FALLING DIAGONAL CROSSING RISING DIAGONAL", 10540>>,
    <<"SOUTH EAST ARROW CROSSING NORTH EAST ARROW", 10541>>,
    <<"NORTH EAST ARROW CROSSING SOUTH EAST ARROW", 10542>>,
    <<"FALLING DIAGONAL CROSSING NORTH EAST ARROW", 10543>>,
    <<"RISING DIAGONAL CROSSING SOUTH EAST ARROW", 10544>>,
    <<"NORTH EAST ARROW CROSSING NORTH WEST ARROW", 10545>>,
    <<"NORTH WEST ARROW CROSSING NORTH EAST ARROW", 10546>>,
    <<"WAVE ARROW POINTING DIRECTLY RIGHT", 10547>>,
    <<"ARROW POINTING RIGHTWARDS THEN CURVING UPWARDS", 10548>>,
    <<"ARROW POINTING RIGHTWARDS THEN CURVING DOWNWARDS", 10549>>,
    <<"ARROW POINTING DOWNWARDS THEN CURVING LEFTWARDS", 10550>>,
    <<"ARROW POINTING DOWNWARDS THEN CURVING RIGHTWARDS", 10551>>,
    <<"RIGHT-SIDE ARC CLOCKWISE ARROW", 10552>>, <<"LEFT-SIDE ARC ANTICLOCKWISE ARROW", 10553>>,
    <<"TOP ARC ANTICLOCKWISE ARROW", 10554>>, <<"BOTTOM ARC ANTICLOCKWISE ARROW", 10555>>,
    <<"TOP ARC CLOCKWISE ARROW WITH MINUS", 10556>>,
    <<"TOP ARC ANTICLOCKWISE ARROW WITH PLUS", 10557>>,
    <<"LOWER RIGHT SEMICIRCULAR CLOCKWISE ARROW", 10558>>,
    <<"LOWER LEFT SEMICIRCULAR ANTICLOCKWISE ARROW", 10559>>,
    <<"ANTICLOCKWISE CLOSED CIRCLE ARROW", 10560>>, <<"CLOCKWISE CLOSED CIRCLE ARROW", 10561>>,
    <<"RIGHTWARDS ARROW ABOVE SHORT LEFTWARDS ARROW", 10562>>,
    <<"LEFTWARDS ARROW ABOVE SHORT RIGHTWARDS ARROW", 10563>>,
    <<"SHORT RIGHTWARDS ARROW ABOVE LEFTWARDS ARROW", 10564>>,
    <<"RIGHTWARDS ARROW WITH PLUS BELOW", 10565>>, <<"LEFTWARDS ARROW WITH PLUS BELOW", 10566>>,
    <<"RIGHTWARDS ARROW THROUGH X", 10567>>, <<"LEFT RIGHT ARROW THROUGH SMALL CIRCLE", 10568>>,
    <<"UPWARDS TWO-HEADED ARROW FROM SMALL CIRCLE", 10569>>,
    <<"LEFT BARB UP RIGHT BARB DOWN HARPOON", 10570>>,
    <<"LEFT BARB DOWN RIGHT BARB UP HARPOON", 10571>>,
    <<"UP BARB RIGHT DOWN BARB LEFT HARPOON", 10572>>,
    <<"UP BARB LEFT DOWN BARB RIGHT HARPOON", 10573>>, <<"LEFT BARB UP RIGHT BARB UP HARPOON", 10574>>,
    <<"UP BARB RIGHT DOWN BARB RIGHT HARPOON", 10575>>,
    <<"LEFT BARB DOWN RIGHT BARB DOWN HARPOON", 10576>>,
    <<"UP BARB LEFT DOWN BARB LEFT HARPOON", 10577>>,
    <<"LEFTWARDS HARPOON WITH BARB UP TO BAR", 10578>>,
    <<"RIGHTWARDS HARPOON WITH BARB UP TO BAR", 10579>>,
    <<"UPWARDS HARPOON WITH BARB RIGHT TO BAR", 10580>>,
    <<"DOWNWARDS HARPOON WITH BARB RIGHT TO BAR", 10581>>,
    <<"LEFTWARDS HARPOON WITH BARB DOWN TO BAR", 10582>>,
    <<"RIGHTWARDS HARPOON WITH BARB DOWN TO BAR", 10583>>,
    <<"UPWARDS HARPOON WITH BARB LEFT TO BAR", 10584>>,
    <<"DOWNWARDS HARPOON WITH BARB LEFT TO BAR", 10585>>,
    <<"LEFTWARDS HARPOON WITH BARB UP FROM BAR", 10586>>,
    <<"RIGHTWARDS HARPOON WITH BARB UP FROM BAR", 10587>>,
    <<"UPWARDS HARPOON WITH BARB RIGHT FROM BAR", 10588>>,
    <<"DOWNWARDS HARPOON WITH BARB RIGHT FROM BAR", 10589>>,
    <<"LEFTWARDS HARPOON WITH BARB DOWN FROM BAR", 10590>>,
    <<"RIGHTWARDS HARPOON WITH BARB DOWN FROM BAR", 10591>>,
    <<"UPWARDS HARPOON WITH BARB LEFT FROM BAR", 10592>>,
    <<"DOWNWARDS HARPOON WITH BARB LEFT FROM BAR", 10593>>,
    <<"LEFTWARDS HARPOON WITH BARB UP ABOVE LEFTWARDS HARPOON WITH BARB DOWN", 10594>>,
    <<"UPWARDS HARPOON WITH BARB LEFT BESIDE UPWARDS HARPOON WITH BARB RIGHT", 10595>>,
    <<"RIGHTWARDS HARPOON WITH BARB UP ABOVE RIGHTWARDS HARPOON WITH BARB DOWN", 10596>>,
    <<"DOWNWARDS HARPOON WITH BARB LEFT BESIDE DOWNWARDS HARPOON WITH BARB RIGHT", 10597>>,
    <<"LEFTWARDS HARPOON WITH BARB UP ABOVE RIGHTWARDS HARPOON WITH BARB UP", 10598>>,
    <<"LEFTWARDS HARPOON WITH BARB DOWN ABOVE RIGHTWARDS HARPOON WITH BARB DOWN", 10599>>,
    <<"RIGHTWARDS HARPOON WITH BARB UP ABOVE LEFTWARDS HARPOON WITH BARB UP", 10600>>,
    <<"RIGHTWARDS HARPOON WITH BARB DOWN ABOVE LEFTWARDS HARPOON WITH BARB DOWN", 10601>>,
    <<"LEFTWARDS HARPOON WITH BARB UP ABOVE LONG DASH", 10602>>,
    <<"LEFTWARDS HARPOON WITH BARB DOWN BELOW LONG DASH", 10603>>,
    <<"RIGHTWARDS HARPOON WITH BARB UP ABOVE LONG DASH", 10604>>,
    <<"RIGHTWARDS HARPOON WITH BARB DOWN BELOW LONG DASH", 10605>>,
    <<"UPWARDS HARPOON WITH BARB LEFT BESIDE DOWNWARDS HARPOON WITH BARB RIGHT", 10606>>,
    <<"DOWNWARDS HARPOON WITH BARB LEFT BESIDE UPWARDS HARPOON WITH BARB RIGHT", 10607>>,
    <<"RIGHT DOUBLE ARROW WITH ROUNDED HEAD", 10608>>, <<"EQUALS SIGN ABOVE RIGHTWARDS ARROW", 10609>>,
    <<"TILDE OPERATOR ABOVE RIGHTWARDS ARROW", 10610>>,
    <<"LEFTWARDS ARROW ABOVE TILDE OPERATOR", 10611>>,
    <<"RIGHTWARDS ARROW ABOVE TILDE OPERATOR", 10612>>,
    <<"RIGHTWARDS ARROW ABOVE ALMOST EQUAL TO", 10613>>, <<"LESS-THAN ABOVE LEFTWARDS ARROW", 10614>>,
    <<"LEFTWARDS ARROW THROUGH LESS-THAN", 10615>>, <<"GREATER-THAN ABOVE RIGHTWARDS ARROW", 10616>>,
    <<"SUBSET ABOVE RIGHTWARDS ARROW", 10617>>, <<"LEFTWARDS ARROW THROUGH SUBSET", 10618>>,
    <<"SUPERSET ABOVE LEFTWARDS ARROW", 10619>>, <<"LEFT FISH TAIL", 10620>>,
    <<"RIGHT FISH TAIL", 10621>>, <<"UP FISH TAIL", 10622>>, <<"DOWN FISH TAIL", 10623>>,
    <<"TRIPLE VERTICAL BAR DELIMITER", 10624>>, <<"Z NOTATION SPOT", 10625>>,
    <<"Z NOTATION TYPE COLON", 10626>>, <<"LEFT WHITE CURLY BRACKET", 10627>>,
    <<"RIGHT WHITE CURLY BRACKET", 10628>>, <<"LEFT WHITE PARENTHESIS", 10629>>,
    <<"RIGHT WHITE PARENTHESIS", 10630>>, <<"Z NOTATION LEFT IMAGE BRACKET", 10631>>,
    <<"Z NOTATION RIGHT IMAGE BRACKET", 10632>>, <<"Z NOTATION LEFT BINDING BRACKET", 10633>>,
    <<"Z NOTATION RIGHT BINDING BRACKET", 10634>>, <<"LEFT SQUARE BRACKET WITH UNDERBAR", 10635>>,
    <<"RIGHT SQUARE BRACKET WITH UNDERBAR", 10636>>,
    <<"LEFT SQUARE BRACKET WITH TICK IN TOP CORNER", 10637>>,
    <<"RIGHT SQUARE BRACKET WITH TICK IN BOTTOM CORNER", 10638>>,
    <<"LEFT SQUARE BRACKET WITH TICK IN BOTTOM CORNER", 10639>>,
    <<"RIGHT SQUARE BRACKET WITH TICK IN TOP CORNER", 10640>>,
    <<"LEFT ANGLE BRACKET WITH DOT", 10641>>, <<"RIGHT ANGLE BRACKET WITH DOT", 10642>>,
    <<"LEFT ARC LESS-THAN BRACKET", 10643>>, <<"RIGHT ARC GREATER-THAN BRACKET", 10644>>,
    <<"DOUBLE LEFT ARC GREATER-THAN BRACKET", 10645>>, <<"DOUBLE RIGHT ARC LESS-THAN BRACKET", 10646>>,
    <<"LEFT BLACK TORTOISE SHELL BRACKET", 10647>>, <<"RIGHT BLACK TORTOISE SHELL BRACKET", 10648>>,
    <<"DOTTED FENCE", 10649>>, <<"VERTICAL ZIGZAG LINE", 10650>>,
    <<"MEASURED ANGLE OPENING LEFT", 10651>>, <<"RIGHT ANGLE VARIANT WITH SQUARE", 10652>>,
    <<"MEASURED RIGHT ANGLE WITH DOT", 10653>>, <<"ANGLE WITH S INSIDE", 10654>>,
    <<"ACUTE ANGLE", 10655>>, <<"SPHERICAL ANGLE OPENING LEFT", 10656>>,
    <<"SPHERICAL ANGLE OPENING UP", 10657>>, <<"TURNED ANGLE", 10658>>, <<"REVERSED ANGLE", 10659>>,
    <<"ANGLE WITH UNDERBAR", 10660>>, <<"REVERSED ANGLE WITH UNDERBAR", 10661>>,
    <<"OBLIQUE ANGLE OPENING UP", 10662>>, <<"OBLIQUE ANGLE OPENING DOWN", 10663>>,
    <<"MEASURED ANGLE WITH OPEN ARM ENDING IN ARROW POINTING UP AND RIGHT", 10664>>,
    <<"MEASURED ANGLE WITH OPEN ARM ENDING IN ARROW POINTING UP AND LEFT", 10665>>,
    <<"MEASURED ANGLE WITH OPEN ARM ENDING IN ARROW POINTING DOWN AND RIGHT", 10666>>,
    <<"MEASURED ANGLE WITH OPEN ARM ENDING IN ARROW POINTING DOWN AND LEFT", 10667>>,
    <<"MEASURED ANGLE WITH OPEN ARM ENDING IN ARROW POINTING RIGHT AND UP", 10668>>,
    <<"MEASURED ANGLE WITH OPEN ARM ENDING IN ARROW POINTING LEFT AND UP", 10669>>,
    <<"MEASURED ANGLE WITH OPEN ARM ENDING IN ARROW POINTING RIGHT AND DOWN", 10670>>,
    <<"MEASURED ANGLE WITH OPEN ARM ENDING IN ARROW POINTING LEFT AND DOWN", 10671>>,
    <<"REVERSED EMPTY SET", 10672>>, <<"EMPTY SET WITH OVERBAR", 10673>>,
    <<"EMPTY SET WITH SMALL CIRCLE ABOVE", 10674>>, <<"EMPTY SET WITH RIGHT ARROW ABOVE", 10675>>,
    <<"EMPTY SET WITH LEFT ARROW ABOVE", 10676>>, <<"CIRCLE WITH HORIZONTAL BAR", 10677>>,
    <<"CIRCLED VERTICAL BAR", 10678>>, <<"CIRCLED PARALLEL", 10679>>,
    <<"CIRCLED REVERSE SOLIDUS", 10680>>, <<"CIRCLED PERPENDICULAR", 10681>>,
    <<"CIRCLE DIVIDED BY HORIZONTAL BAR AND TOP HALF DIVIDED BY VERTICAL BAR", 10682>>,
    <<"CIRCLE WITH SUPERIMPOSED X", 10683>>, <<"CIRCLED ANTICLOCKWISE-ROTATED DIVISION SIGN", 10684>>,
    <<"UP ARROW THROUGH CIRCLE", 10685>>, <<"CIRCLED WHITE BULLET", 10686>>,
    <<"CIRCLED BULLET", 10687>>, <<"CIRCLED LESS-THAN", 10688>>, <<"CIRCLED GREATER-THAN", 10689>>,
    <<"CIRCLE WITH SMALL CIRCLE TO THE RIGHT", 10690>>,
    <<"CIRCLE WITH TWO HORIZONTAL STROKES TO THE RIGHT", 10691>>,
    <<"SQUARED RISING DIAGONAL SLASH", 10692>>, <<"SQUARED FALLING DIAGONAL SLASH", 10693>>,
    <<"SQUARED ASTERISK", 10694>>, <<"SQUARED SMALL CIRCLE", 10695>>, <<"SQUARED SQUARE", 10696>>,
    <<"TWO JOINED SQUARES", 10697>>, <<"TRIANGLE WITH DOT ABOVE", 10698>>,
    <<"TRIANGLE WITH UNDERBAR", 10699>>, <<"S IN TRIANGLE", 10700>>,
    <<"TRIANGLE WITH SERIFS AT BOTTOM", 10701>>, <<"RIGHT TRIANGLE ABOVE LEFT TRIANGLE", 10702>>,
    <<"LEFT TRIANGLE BESIDE VERTICAL BAR", 10703>>, <<"VERTICAL BAR BESIDE RIGHT TRIANGLE", 10704>>,
    <<"BOWTIE WITH LEFT HALF BLACK", 10705>>, <<"BOWTIE WITH RIGHT HALF BLACK", 10706>>,
    <<"BLACK BOWTIE", 10707>>, <<"TIMES WITH LEFT HALF BLACK", 10708>>,
    <<"TIMES WITH RIGHT HALF BLACK", 10709>>, <<"WHITE HOURGLASS", 10710>>,
    <<"BLACK HOURGLASS", 10711>>, <<"LEFT WIGGLY FENCE", 10712>>, <<"RIGHT WIGGLY FENCE", 10713>>,
    <<"LEFT DOUBLE WIGGLY FENCE", 10714>>, <<"RIGHT DOUBLE WIGGLY FENCE", 10715>>,
    <<"INCOMPLETE INFINITY", 10716>>, <<"TIE OVER INFINITY", 10717>>,
    <<"INFINITY NEGATED WITH VERTICAL BAR", 10718>>, <<"DOUBLE-ENDED MULTIMAP", 10719>>,
    <<"SQUARE WITH CONTOURED OUTLINE", 10720>>, <<"INCREASES AS", 10721>>,
    <<"SHUFFLE PRODUCT", 10722>>, <<"EQUALS SIGN AND SLANTED PARALLEL", 10723>>,
    <<"EQUALS SIGN AND SLANTED PARALLEL WITH TILDE ABOVE", 10724>>,
    <<"IDENTICAL TO AND SLANTED PARALLEL", 10725>>, <<"GLEICH STARK", 10726>>,
    <<"THERMODYNAMIC", 10727>>, <<"DOWN-POINTING TRIANGLE WITH LEFT HALF BLACK", 10728>>,
    <<"DOWN-POINTING TRIANGLE WITH RIGHT HALF BLACK", 10729>>,
    <<"BLACK DIAMOND WITH DOWN ARROW", 10730>>, <<"BLACK LOZENGE", 10731>>,
    <<"WHITE CIRCLE WITH DOWN ARROW", 10732>>, <<"BLACK CIRCLE WITH DOWN ARROW", 10733>>,
    <<"ERROR-BARRED WHITE SQUARE", 10734>>, <<"ERROR-BARRED BLACK SQUARE", 10735>>,
    <<"ERROR-BARRED WHITE DIAMOND", 10736>>, <<"ERROR-BARRED BLACK DIAMOND", 10737>>,
    <<"ERROR-BARRED WHITE CIRCLE", 10738>>, <<"ERROR-BARRED BLACK CIRCLE", 10739>>,
    <<"RULE-DELAYED", 10740>>, <<"REVERSE SOLIDUS OPERATOR", 10741>>,
    <<"SOLIDUS WITH OVERBAR", 10742>>, <<"REVERSE SOLIDUS WITH HORIZONTAL STROKE", 10743>>,
    <<"BIG SOLIDUS", 10744>>, <<"BIG REVERSE SOLIDUS", 10745>>, <<"DOUBLE PLUS", 10746>>,
    <<"TRIPLE PLUS", 10747>>, <<"LEFT-POINTING CURVED ANGLE BRACKET", 10748>>,
    <<"RIGHT-POINTING CURVED ANGLE BRACKET", 10749>>, <<"TINY", 10750>>, <<"MINY", 10751>>,
    <<"N-ARY CIRCLED DOT OPERATOR", 10752>>, <<"N-ARY CIRCLED PLUS OPERATOR", 10753>>,
    <<"N-ARY CIRCLED TIMES OPERATOR", 10754>>, <<"N-ARY UNION OPERATOR WITH DOT", 10755>>,
    <<"N-ARY UNION OPERATOR WITH PLUS", 10756>>, <<"N-ARY SQUARE INTERSECTION OPERATOR", 10757>>,
    <<"N-ARY SQUARE UNION OPERATOR", 10758>>, <<"TWO LOGICAL AND OPERATOR", 10759>>,
    <<"TWO LOGICAL OR OPERATOR", 10760>>, <<"N-ARY TIMES OPERATOR", 10761>>,
    <<"MODULO TWO SUM", 10762>>, <<"SUMMATION WITH INTEGRAL", 10763>>,
    <<"QUADRUPLE INTEGRAL OPERATOR", 10764>>, <<"FINITE PART INTEGRAL", 10765>>,
    <<"INTEGRAL WITH DOUBLE STROKE", 10766>>, <<"INTEGRAL AVERAGE WITH SLASH", 10767>>,
    <<"CIRCULATION FUNCTION", 10768>>, <<"ANTICLOCKWISE INTEGRATION", 10769>>,
    <<"LINE INTEGRATION WITH RECTANGULAR PATH AROUND POLE", 10770>>,
    <<"LINE INTEGRATION WITH SEMICIRCULAR PATH AROUND POLE", 10771>>,
    <<"LINE INTEGRATION NOT INCLUDING THE POLE", 10772>>,
    <<"INTEGRAL AROUND A POINT OPERATOR", 10773>>, <<"QUATERNION INTEGRAL OPERATOR", 10774>>,
    <<"INTEGRAL WITH LEFTWARDS ARROW WITH HOOK", 10775>>, <<"INTEGRAL WITH TIMES SIGN", 10776>>,
    <<"INTEGRAL WITH INTERSECTION", 10777>>, <<"INTEGRAL WITH UNION", 10778>>,
    <<"INTEGRAL WITH OVERBAR", 10779>>, <<"INTEGRAL WITH UNDERBAR", 10780>>, <<"JOIN", 10781>>,
    <<"LARGE LEFT TRIANGLE OPERATOR", 10782>>, <<"Z NOTATION SCHEMA COMPOSITION", 10783>>,
    <<"Z NOTATION SCHEMA PIPING", 10784>>, <<"Z NOTATION SCHEMA PROJECTION", 10785>>,
    <<"PLUS SIGN WITH SMALL CIRCLE ABOVE", 10786>>,
    <<"PLUS SIGN WITH CIRCUMFLEX ACCENT ABOVE", 10787>>, <<"PLUS SIGN WITH TILDE ABOVE", 10788>>,
    <<"PLUS SIGN WITH DOT BELOW", 10789>>, <<"PLUS SIGN WITH TILDE BELOW", 10790>>,
    <<"PLUS SIGN WITH SUBSCRIPT TWO", 10791>>, <<"PLUS SIGN WITH BLACK TRIANGLE", 10792>>,
    <<"MINUS SIGN WITH COMMA ABOVE", 10793>>, <<"MINUS SIGN WITH DOT BELOW", 10794>>,
    <<"MINUS SIGN WITH FALLING DOTS", 10795>>, <<"MINUS SIGN WITH RISING DOTS", 10796>>,
    <<"PLUS SIGN IN LEFT HALF CIRCLE", 10797>>, <<"PLUS SIGN IN RIGHT HALF CIRCLE", 10798>>,
    <<"VECTOR OR CROSS PRODUCT", 10799>>, <<"MULTIPLICATION SIGN WITH DOT ABOVE", 10800>>,
    <<"MULTIPLICATION SIGN WITH UNDERBAR", 10801>>, <<"SEMIDIRECT PRODUCT WITH BOTTOM CLOSED", 10802>>,
    <<"SMASH PRODUCT", 10803>>, <<"MULTIPLICATION SIGN IN LEFT HALF CIRCLE", 10804>>,
    <<"MULTIPLICATION SIGN IN RIGHT HALF CIRCLE", 10805>>,
    <<"CIRCLED MULTIPLICATION SIGN WITH CIRCUMFLEX ACCENT", 10806>>,
    <<"MULTIPLICATION SIGN IN DOUBLE CIRCLE", 10807>>, <<"CIRCLED DIVISION SIGN", 10808>>,
    <<"PLUS SIGN IN TRIANGLE", 10809>>, <<"MINUS SIGN IN TRIANGLE", 10810>>,
    <<"MULTIPLICATION SIGN IN TRIANGLE", 10811>>, <<"INTERIOR PRODUCT", 10812>>,
    <<"RIGHTHAND INTERIOR PRODUCT", 10813>>, <<"Z NOTATION RELATIONAL COMPOSITION", 10814>>,
    <<"AMALGAMATION OR COPRODUCT", 10815>>, <<"INTERSECTION WITH DOT", 10816>>,
    <<"UNION WITH MINUS SIGN", 10817>>, <<"UNION WITH OVERBAR", 10818>>,
    <<"INTERSECTION WITH OVERBAR", 10819>>, <<"INTERSECTION WITH LOGICAL AND", 10820>>,
    <<"UNION WITH LOGICAL OR", 10821>>, <<"UNION ABOVE INTERSECTION", 10822>>,
    <<"INTERSECTION ABOVE UNION", 10823>>, <<"UNION ABOVE BAR ABOVE INTERSECTION", 10824>>,
    <<"INTERSECTION ABOVE BAR ABOVE UNION", 10825>>, <<"UNION BESIDE AND JOINED WITH UNION", 10826>>,
    <<"INTERSECTION BESIDE AND JOINED WITH INTERSECTION", 10827>>,
    <<"CLOSED UNION WITH SERIFS", 10828>>, <<"CLOSED INTERSECTION WITH SERIFS", 10829>>,
    <<"DOUBLE SQUARE INTERSECTION", 10830>>, <<"DOUBLE SQUARE UNION", 10831>>,
    <<"CLOSED UNION WITH SERIFS AND SMASH PRODUCT", 10832>>, <<"LOGICAL AND WITH DOT ABOVE", 10833>>,
    <<"LOGICAL OR WITH DOT ABOVE", 10834>>, <<"DOUBLE LOGICAL AND", 10835>>,
    <<"DOUBLE LOGICAL OR", 10836>>, <<"TWO INTERSECTING LOGICAL AND", 10837>>,
    <<"TWO INTERSECTING LOGICAL OR", 10838>>, <<"SLOPING LARGE OR", 10839>>,
    <<"SLOPING LARGE AND", 10840>>, <<"LOGICAL OR OVERLAPPING LOGICAL AND", 10841>>,
    <<"LOGICAL AND WITH MIDDLE STEM", 10842>>, <<"LOGICAL OR WITH MIDDLE STEM", 10843>>,
    <<"LOGICAL AND WITH HORIZONTAL DASH", 10844>>, <<"LOGICAL OR WITH HORIZONTAL DASH", 10845>>,
    <<"LOGICAL AND WITH DOUBLE OVERBAR", 10846>>, <<"LOGICAL AND WITH UNDERBAR", 10847>>,
    <<"LOGICAL AND WITH DOUBLE UNDERBAR", 10848>>, <<"SMALL VEE WITH UNDERBAR", 10849>>,
    <<"LOGICAL OR WITH DOUBLE OVERBAR", 10850>>, <<"LOGICAL OR WITH DOUBLE UNDERBAR", 10851>>,
    <<"Z NOTATION DOMAIN ANTIRESTRICTION", 10852>>, <<"Z NOTATION RANGE ANTIRESTRICTION", 10853>>,
    <<"EQUALS SIGN WITH DOT BELOW", 10854>>, <<"IDENTICAL WITH DOT ABOVE", 10855>>,
    <<"TRIPLE HORIZONTAL BAR WITH DOUBLE VERTICAL STROKE", 10856>>,
    <<"TRIPLE HORIZONTAL BAR WITH TRIPLE VERTICAL STROKE", 10857>>,
    <<"TILDE OPERATOR WITH DOT ABOVE", 10858>>, <<"TILDE OPERATOR WITH RISING DOTS", 10859>>,
    <<"SIMILAR MINUS SIMILAR", 10860>>, <<"CONGRUENT WITH DOT ABOVE", 10861>>,
    <<"EQUALS WITH ASTERISK", 10862>>, <<"ALMOST EQUAL TO WITH CIRCUMFLEX ACCENT", 10863>>,
    <<"APPROXIMATELY EQUAL OR EQUAL TO", 10864>>, <<"EQUALS SIGN ABOVE PLUS SIGN", 10865>>,
    <<"PLUS SIGN ABOVE EQUALS SIGN", 10866>>, <<"EQUALS SIGN ABOVE TILDE OPERATOR", 10867>>,
    <<"DOUBLE COLON EQUAL", 10868>>, <<"TWO CONSECUTIVE EQUALS SIGNS", 10869>>,
    <<"THREE CONSECUTIVE EQUALS SIGNS", 10870>>,
    <<"EQUALS SIGN WITH TWO DOTS ABOVE AND TWO DOTS BELOW", 10871>>,
    <<"EQUIVALENT WITH FOUR DOTS ABOVE", 10872>>, <<"LESS-THAN WITH CIRCLE INSIDE", 10873>>,
    <<"GREATER-THAN WITH CIRCLE INSIDE", 10874>>, <<"LESS-THAN WITH QUESTION MARK ABOVE", 10875>>,
    <<"GREATER-THAN WITH QUESTION MARK ABOVE", 10876>>, <<"LESS-THAN OR SLANTED EQUAL TO", 10877>>,
    <<"GREATER-THAN OR SLANTED EQUAL TO", 10878>>,
    <<"LESS-THAN OR SLANTED EQUAL TO WITH DOT INSIDE", 10879>>,
    <<"GREATER-THAN OR SLANTED EQUAL TO WITH DOT INSIDE", 10880>>,
    <<"LESS-THAN OR SLANTED EQUAL TO WITH DOT ABOVE", 10881>>,
    <<"GREATER-THAN OR SLANTED EQUAL TO WITH DOT ABOVE", 10882>>,
    <<"LESS-THAN OR SLANTED EQUAL TO WITH DOT ABOVE RIGHT", 10883>>,
    <<"GREATER-THAN OR SLANTED EQUAL TO WITH DOT ABOVE LEFT", 10884>>,
    <<"LESS-THAN OR APPROXIMATE", 10885>>, <<"GREATER-THAN OR APPROXIMATE", 10886>>,
    <<"LESS-THAN AND SINGLE-LINE NOT EQUAL TO", 10887>>,
    <<"GREATER-THAN AND SINGLE-LINE NOT EQUAL TO", 10888>>, <<"LESS-THAN AND NOT APPROXIMATE", 10889>>,
    <<"GREATER-THAN AND NOT APPROXIMATE", 10890>>,
    <<"LESS-THAN ABOVE DOUBLE-LINE EQUAL ABOVE GREATER-THAN", 10891>>,
    <<"GREATER-THAN ABOVE DOUBLE-LINE EQUAL ABOVE LESS-THAN", 10892>>,
    <<"LESS-THAN ABOVE SIMILAR OR EQUAL", 10893>>, <<"GREATER-THAN ABOVE SIMILAR OR EQUAL", 10894>>,
    <<"LESS-THAN ABOVE SIMILAR ABOVE GREATER-THAN", 10895>>,
    <<"GREATER-THAN ABOVE SIMILAR ABOVE LESS-THAN", 10896>>,
    <<"LESS-THAN ABOVE GREATER-THAN ABOVE DOUBLE-LINE EQUAL", 10897>>,
    <<"GREATER-THAN ABOVE LESS-THAN ABOVE DOUBLE-LINE EQUAL", 10898>>,
    <<"LESS-THAN ABOVE SLANTED EQUAL ABOVE GREATER-THAN ABOVE SLANTED EQUAL", 10899>>,
    <<"GREATER-THAN ABOVE SLANTED EQUAL ABOVE LESS-THAN ABOVE SLANTED EQUAL", 10900>>,
    <<"SLANTED EQUAL TO OR LESS-THAN", 10901>>, <<"SLANTED EQUAL TO OR GREATER-THAN", 10902>>,
    <<"SLANTED EQUAL TO OR LESS-THAN WITH DOT INSIDE", 10903>>,
    <<"SLANTED EQUAL TO OR GREATER-THAN WITH DOT INSIDE", 10904>>,
    <<"DOUBLE-LINE EQUAL TO OR LESS-THAN", 10905>>, <<"DOUBLE-LINE EQUAL TO OR GREATER-THAN", 10906>>,
    <<"DOUBLE-LINE SLANTED EQUAL TO OR LESS-THAN", 10907>>,
    <<"DOUBLE-LINE SLANTED EQUAL TO OR GREATER-THAN", 10908>>, <<"SIMILAR OR LESS-THAN", 10909>>,
    <<"SIMILAR OR GREATER-THAN", 10910>>, <<"SIMILAR ABOVE LESS-THAN ABOVE EQUALS SIGN", 10911>>,
    <<"SIMILAR ABOVE GREATER-THAN ABOVE EQUALS SIGN", 10912>>, <<"DOUBLE NESTED LESS-THAN", 10913>>,
    <<"DOUBLE NESTED GREATER-THAN", 10914>>, <<"DOUBLE NESTED LESS-THAN WITH UNDERBAR", 10915>>,
    <<"GREATER-THAN OVERLAPPING LESS-THAN", 10916>>, <<"GREATER-THAN BESIDE LESS-THAN", 10917>>,
    <<"LESS-THAN CLOSED BY CURVE", 10918>>, <<"GREATER-THAN CLOSED BY CURVE", 10919>>,
    <<"LESS-THAN CLOSED BY CURVE ABOVE SLANTED EQUAL", 10920>>,
    <<"GREATER-THAN CLOSED BY CURVE ABOVE SLANTED EQUAL", 10921>>, <<"SMALLER THAN", 10922>>,
    <<"LARGER THAN", 10923>>, <<"SMALLER THAN OR EQUAL TO", 10924>>,
    <<"LARGER THAN OR EQUAL TO", 10925>>, <<"EQUALS SIGN WITH BUMPY ABOVE", 10926>>,
    <<"PRECEDES ABOVE SINGLE-LINE EQUALS SIGN", 10927>>,
    <<"SUCCEEDS ABOVE SINGLE-LINE EQUALS SIGN", 10928>>,
    <<"PRECEDES ABOVE SINGLE-LINE NOT EQUAL TO", 10929>>,
    <<"SUCCEEDS ABOVE SINGLE-LINE NOT EQUAL TO", 10930>>, <<"PRECEDES ABOVE EQUALS SIGN", 10931>>,
    <<"SUCCEEDS ABOVE EQUALS SIGN", 10932>>, <<"PRECEDES ABOVE NOT EQUAL TO", 10933>>,
    <<"SUCCEEDS ABOVE NOT EQUAL TO", 10934>>, <<"PRECEDES ABOVE ALMOST EQUAL TO", 10935>>,
    <<"SUCCEEDS ABOVE ALMOST EQUAL TO", 10936>>, <<"PRECEDES ABOVE NOT ALMOST EQUAL TO", 10937>>,
    <<"SUCCEEDS ABOVE NOT ALMOST EQUAL TO", 10938>>, <<"DOUBLE PRECEDES", 10939>>,
    <<"DOUBLE SUCCEEDS", 10940>>, <<"SUBSET WITH DOT", 10941>>, <<"SUPERSET WITH DOT", 10942>>,
    <<"SUBSET WITH PLUS SIGN BELOW", 10943>>, <<"SUPERSET WITH PLUS SIGN BELOW", 10944>>,
    <<"SUBSET WITH MULTIPLICATION SIGN BELOW", 10945>>,
    <<"SUPERSET WITH MULTIPLICATION SIGN BELOW", 10946>>,
    <<"SUBSET OF OR EQUAL TO WITH DOT ABOVE", 10947>>,
    <<"SUPERSET OF OR EQUAL TO WITH DOT ABOVE", 10948>>, <<"SUBSET OF ABOVE EQUALS SIGN", 10949>>,
    <<"SUPERSET OF ABOVE EQUALS SIGN", 10950>>, <<"SUBSET OF ABOVE TILDE OPERATOR", 10951>>,
    <<"SUPERSET OF ABOVE TILDE OPERATOR", 10952>>, <<"SUBSET OF ABOVE ALMOST EQUAL TO", 10953>>,
    <<"SUPERSET OF ABOVE ALMOST EQUAL TO", 10954>>, <<"SUBSET OF ABOVE NOT EQUAL TO", 10955>>,
    <<"SUPERSET OF ABOVE NOT EQUAL TO", 10956>>, <<"SQUARE LEFT OPEN BOX OPERATOR", 10957>>,
    <<"SQUARE RIGHT OPEN BOX OPERATOR", 10958>>, <<"CLOSED SUBSET", 10959>>,
    <<"CLOSED SUPERSET", 10960>>, <<"CLOSED SUBSET OR EQUAL TO", 10961>>,
    <<"CLOSED SUPERSET OR EQUAL TO", 10962>>, <<"SUBSET ABOVE SUPERSET", 10963>>,
    <<"SUPERSET ABOVE SUBSET", 10964>>, <<"SUBSET ABOVE SUBSET", 10965>>,
    <<"SUPERSET ABOVE SUPERSET", 10966>>, <<"SUPERSET BESIDE SUBSET", 10967>>,
    <<"SUPERSET BESIDE AND JOINED BY DASH WITH SUBSET", 10968>>,
    <<"ELEMENT OF OPENING DOWNWARDS", 10969>>, <<"PITCHFORK WITH TEE TOP", 10970>>,
    <<"TRANSVERSAL INTERSECTION", 10971>>, <<"FORKING", 10972>>, <<"NONFORKING", 10973>>,
    <<"SHORT LEFT TACK", 10974>>, <<"SHORT DOWN TACK", 10975>>, <<"SHORT UP TACK", 10976>>,
    <<"PERPENDICULAR WITH S", 10977>>, <<"VERTICAL BAR TRIPLE RIGHT TURNSTILE", 10978>>,
    <<"DOUBLE VERTICAL BAR LEFT TURNSTILE", 10979>>, <<"VERTICAL BAR DOUBLE LEFT TURNSTILE", 10980>>,
    <<"DOUBLE VERTICAL BAR DOUBLE LEFT TURNSTILE", 10981>>,
    <<"LONG DASH FROM LEFT MEMBER OF DOUBLE VERTICAL", 10982>>,
    <<"SHORT DOWN TACK WITH OVERBAR", 10983>>, <<"SHORT UP TACK WITH UNDERBAR", 10984>>,
    <<"SHORT UP TACK ABOVE SHORT DOWN TACK", 10985>>, <<"DOUBLE DOWN TACK", 10986>>,
    <<"DOUBLE UP TACK", 10987>>, <<"DOUBLE STROKE NOT SIGN", 10988>>,
    <<"REVERSED DOUBLE STROKE NOT SIGN", 10989>>,
    <<"DOES NOT DIVIDE WITH REVERSED NEGATION SLASH", 10990>>,
    <<"VERTICAL LINE WITH CIRCLE ABOVE", 10991>>, <<"VERTICAL LINE WITH CIRCLE BELOW", 10992>>,
    <<"DOWN TACK WITH CIRCLE BELOW", 10993>>, <<"PARALLEL WITH HORIZONTAL STROKE", 10994>>,
    <<"PARALLEL WITH TILDE OPERATOR", 10995>>, <<"TRIPLE VERTICAL BAR BINARY RELATION", 10996>>,
    <<"TRIPLE VERTICAL BAR WITH HORIZONTAL STROKE", 10997>>, <<"TRIPLE COLON OPERATOR", 10998>>,
    <<"TRIPLE NESTED LESS-THAN", 10999>>, <<"TRIPLE NESTED GREATER-THAN", 11000>>,
    <<"DOUBLE-LINE SLANTED LESS-THAN OR EQUAL TO", 11001>>,
    <<"DOUBLE-LINE SLANTED GREATER-THAN OR EQUAL TO", 11002>>,
    <<"TRIPLE SOLIDUS BINARY RELATION", 11003>>, <<"LARGE TRIPLE VERTICAL BAR OPERATOR", 11004>>,
    <<"DOUBLE SOLIDUS OPERATOR", 11005>>, <<"WHITE VERTICAL BAR", 11006>>,
    <<"N-ARY WHITE VERTICAL BAR", 11007>>, <<"NORTH EAST WHITE ARROW", 11008>>,
    <<"NORTH WEST WHITE ARROW", 11009>>, <<"SOUTH EAST WHITE ARROW", 11010>>,
    <<"SOUTH WEST WHITE ARROW", 11011>>, <<"LEFT RIGHT WHITE ARROW", 11012>>,
    <<"LEFTWARDS BLACK ARROW", 11013>>, <<"UPWARDS BLACK ARROW", 11014>>,
    <<"DOWNWARDS BLACK ARROW", 11015>>, <<"NORTH EAST BLACK ARROW", 11016>>,
    <<"NORTH WEST BLACK ARROW", 11017>>, <<"SOUTH EAST BLACK ARROW", 11018>>,
    <<"SOUTH WEST BLACK ARROW", 11019>>, <<"LEFT RIGHT BLACK ARROW", 11020>>,
    <<"UP DOWN BLACK ARROW", 11021>>, <<"RIGHTWARDS ARROW WITH TIP DOWNWARDS", 11022>>,
    <<"RIGHTWARDS ARROW WITH TIP UPWARDS", 11023>>, <<"LEFTWARDS ARROW WITH TIP DOWNWARDS", 11024>>,
    <<"LEFTWARDS ARROW WITH TIP UPWARDS", 11025>>, <<"SQUARE WITH TOP HALF BLACK", 11026>>,
    <<"SQUARE WITH BOTTOM HALF BLACK", 11027>>,
    <<"SQUARE WITH UPPER RIGHT DIAGONAL HALF BLACK", 11028>>,
    <<"SQUARE WITH LOWER LEFT DIAGONAL HALF BLACK", 11029>>, <<"DIAMOND WITH LEFT HALF BLACK", 11030>>,
    <<"DIAMOND WITH RIGHT HALF BLACK", 11031>>, <<"DIAMOND WITH TOP HALF BLACK", 11032>>,
    <<"DIAMOND WITH BOTTOM HALF BLACK", 11033>>, <<"DOTTED SQUARE", 11034>>,
    <<"BLACK LARGE SQUARE", 11035>>, <<"WHITE LARGE SQUARE", 11036>>,
    <<"BLACK VERY SMALL SQUARE", 11037>>, <<"WHITE VERY SMALL SQUARE", 11038>>,
    <<"BLACK PENTAGON", 11039>>, <<"WHITE PENTAGON", 11040>>, <<"WHITE HEXAGON", 11041>>,
    <<"BLACK HEXAGON", 11042>>, <<"HORIZONTAL BLACK HEXAGON", 11043>>, <<"BLACK LARGE CIRCLE", 11044>>,
    <<"BLACK MEDIUM DIAMOND", 11045>>, <<"WHITE MEDIUM DIAMOND", 11046>>,
    <<"BLACK MEDIUM LOZENGE", 11047>>, <<"WHITE MEDIUM LOZENGE", 11048>>,
    <<"BLACK SMALL DIAMOND", 11049>>, <<"BLACK SMALL LOZENGE", 11050>>,
    <<"WHITE SMALL LOZENGE", 11051>>, <<"BLACK HORIZONTAL ELLIPSE", 11052>>,
    <<"WHITE HORIZONTAL ELLIPSE", 11053>>, <<"BLACK VERTICAL ELLIPSE", 11054>>,
    <<"WHITE VERTICAL ELLIPSE", 11055>>, <<"LEFT ARROW WITH SMALL CIRCLE", 11056>>,
    <<"THREE LEFTWARDS ARROWS", 11057>>, <<"LEFT ARROW WITH CIRCLED PLUS", 11058>>,
    <<"LONG LEFTWARDS SQUIGGLE ARROW", 11059>>,
    <<"LEFTWARDS TWO-HEADED ARROW WITH VERTICAL STROKE", 11060>>,
    <<"LEFTWARDS TWO-HEADED ARROW WITH DOUBLE VERTICAL STROKE", 11061>>,
    <<"LEFTWARDS TWO-HEADED ARROW FROM BAR", 11062>>,
    <<"LEFTWARDS TWO-HEADED TRIPLE DASH ARROW", 11063>>, <<"LEFTWARDS ARROW WITH DOTTED STEM", 11064>>,
    <<"LEFTWARDS ARROW WITH TAIL WITH VERTICAL STROKE", 11065>>,
    <<"LEFTWARDS ARROW WITH TAIL WITH DOUBLE VERTICAL STROKE", 11066>>,
    <<"LEFTWARDS TWO-HEADED ARROW WITH TAIL", 11067>>,
    <<"LEFTWARDS TWO-HEADED ARROW WITH TAIL WITH VERTICAL STROKE", 11068>>,
    <<"LEFTWARDS TWO-HEADED ARROW WITH TAIL WITH DOUBLE VERTICAL STROKE", 11069>>,
    <<"LEFTWARDS ARROW THROUGH X", 11070>>, <<"WAVE ARROW POINTING DIRECTLY LEFT", 11071>>,
    <<"EQUALS SIGN ABOVE LEFTWARDS ARROW", 11072>>,
    <<"REVERSE TILDE OPERATOR ABOVE LEFTWARDS ARROW", 11073>>,
    <<"LEFTWARDS ARROW ABOVE REVERSE ALMOST EQUAL TO", 11074>>,
    <<"RIGHTWARDS ARROW THROUGH GREATER-THAN", 11075>>, <<"RIGHTWARDS ARROW THROUGH SUPERSET", 11076>>,
    <<"LEFTWARDS QUADRUPLE ARROW", 11077>>, <<"RIGHTWARDS QUADRUPLE ARROW", 11078>>,
    <<"REVERSE TILDE OPERATOR ABOVE RIGHTWARDS ARROW", 11079>>,
    <<"RIGHTWARDS ARROW ABOVE REVERSE ALMOST EQUAL TO", 11080>>,
    <<"TILDE OPERATOR ABOVE LEFTWARDS ARROW", 11081>>,
    <<"LEFTWARDS ARROW ABOVE ALMOST EQUAL TO", 11082>>,
    <<"LEFTWARDS ARROW ABOVE REVERSE TILDE OPERATOR", 11083>>,
    <<"RIGHTWARDS ARROW ABOVE REVERSE TILDE OPERATOR", 11084>>,
    <<"DOWNWARDS TRIANGLE-HEADED ZIGZAG ARROW", 11085>>, <<"SHORT SLANTED NORTH ARROW", 11086>>,
    <<"SHORT BACKSLANTED SOUTH ARROW", 11087>>, <<"WHITE MEDIUM STAR", 11088>>,
    <<"BLACK SMALL STAR", 11089>>, <<"WHITE SMALL STAR", 11090>>,
    <<"BLACK RIGHT-POINTING PENTAGON", 11091>>, <<"WHITE RIGHT-POINTING PENTAGON", 11092>>,
    <<"HEAVY LARGE CIRCLE", 11093>>, <<"HEAVY OVAL WITH OVAL INSIDE", 11094>>,
    <<"HEAVY CIRCLE WITH CIRCLE INSIDE", 11095>>, <<"HEAVY CIRCLE", 11096>>,
    <<"HEAVY CIRCLED SALTIRE", 11097>>, <<"SLANTED NORTH ARROW WITH HOOKED HEAD", 11098>>,
    <<"BACKSLANTED SOUTH ARROW WITH HOOKED TAIL", 11099>>,
    <<"SLANTED NORTH ARROW WITH HORIZONTAL TAIL", 11100>>,
    <<"BACKSLANTED SOUTH ARROW WITH HORIZONTAL TAIL", 11101>>,
    <<"BENT ARROW POINTING DOWNWARDS THEN NORTH EAST", 11102>>,
    <<"SHORT BENT ARROW POINTING DOWNWARDS THEN NORTH EAST", 11103>>,
    <<"LEFTWARDS TRIANGLE-HEADED ARROW", 11104>>, <<"UPWARDS TRIANGLE-HEADED ARROW", 11105>>,
    <<"RIGHTWARDS TRIANGLE-HEADED ARROW", 11106>>, <<"DOWNWARDS TRIANGLE-HEADED ARROW", 11107>>,
    <<"LEFT RIGHT TRIANGLE-HEADED ARROW", 11108>>, <<"UP DOWN TRIANGLE-HEADED ARROW", 11109>>,
    <<"NORTH WEST TRIANGLE-HEADED ARROW", 11110>>, <<"NORTH EAST TRIANGLE-HEADED ARROW", 11111>>,
    <<"SOUTH EAST TRIANGLE-HEADED ARROW", 11112>>, <<"SOUTH WEST TRIANGLE-HEADED ARROW", 11113>>,
    <<"LEFTWARDS TRIANGLE-HEADED DASHED ARROW", 11114>>,
    <<"UPWARDS TRIANGLE-HEADED DASHED ARROW", 11115>>,
    <<"RIGHTWARDS TRIANGLE-HEADED DASHED ARROW", 11116>>,
    <<"DOWNWARDS TRIANGLE-HEADED DASHED ARROW", 11117>>,
    <<"CLOCKWISE TRIANGLE-HEADED OPEN CIRCLE ARROW", 11118>>,
    <<"ANTICLOCKWISE TRIANGLE-HEADED OPEN CIRCLE ARROW", 11119>>,
    <<"LEFTWARDS TRIANGLE-HEADED ARROW TO BAR", 11120>>,
    <<"UPWARDS TRIANGLE-HEADED ARROW TO BAR", 11121>>,
    <<"RIGHTWARDS TRIANGLE-HEADED ARROW TO BAR", 11122>>,
    <<"DOWNWARDS TRIANGLE-HEADED ARROW TO BAR", 11123>>,
    <<"NORTH WEST TRIANGLE-HEADED ARROW TO BAR", 11126>>,
    <<"NORTH EAST TRIANGLE-HEADED ARROW TO BAR", 11127>>,
    <<"SOUTH EAST TRIANGLE-HEADED ARROW TO BAR", 11128>>,
    <<"SOUTH WEST TRIANGLE-HEADED ARROW TO BAR", 11129>>,
    <<"LEFTWARDS TRIANGLE-HEADED ARROW WITH DOUBLE HORIZONTAL STROKE", 11130>>,
    <<"LEFTWARDS TRIANGLE-HEADED ARROW WITH DOUBLE VERTICAL STROKE", 11130>>,
    <<"UPWARDS TRIANGLE-HEADED ARROW WITH DOUBLE HORIZONTAL STROKE", 11131>>,
    <<"RIGHTWARDS TRIANGLE-HEADED ARROW WITH DOUBLE HORIZONTAL STROKE", 11132>>,
    <<"RIGHTWARDS TRIANGLE-HEADED ARROW WITH DOUBLE VERTICAL STROKE", 11132>>,
    <<"DOWNWARDS TRIANGLE-HEADED ARROW WITH DOUBLE HORIZONTAL STROKE", 11133>>,
    <<"HORIZONTAL TAB KEY", 11134>>, <<"VERTICAL TAB KEY", 11135>>,
    <<"LEFTWARDS TRIANGLE-HEADED ARROW OVER RIGHTWARDS TRIANGLE-HEADED ARROW", 11136>>,
    <<"UPWARDS TRIANGLE-HEADED ARROW LEFTWARDS OF DOWNWARDS TRIANGLE-HEADED ARROW", 11137>>,
    <<"RIGHTWARDS TRIANGLE-HEADED ARROW OVER LEFTWARDS TRIANGLE-HEADED ARROW", 11138>>,
    <<"DOWNWARDS TRIANGLE-HEADED ARROW LEFTWARDS OF UPWARDS TRIANGLE-HEADED ARROW", 11139>>,
    <<"LEFTWARDS TRIANGLE-HEADED PAIRED ARROWS", 11140>>,
    <<"UPWARDS TRIANGLE-HEADED PAIRED ARROWS", 11141>>,
    <<"RIGHTWARDS TRIANGLE-HEADED PAIRED ARROWS", 11142>>,
    <<"DOWNWARDS TRIANGLE-HEADED PAIRED ARROWS", 11143>>,
    <<"LEFTWARDS BLACK CIRCLED WHITE ARROW", 11144>>, <<"UPWARDS BLACK CIRCLED WHITE ARROW", 11145>>,
    <<"RIGHTWARDS BLACK CIRCLED WHITE ARROW", 11146>>,
    <<"DOWNWARDS BLACK CIRCLED WHITE ARROW", 11147>>,
    <<"ANTICLOCKWISE TRIANGLE-HEADED RIGHT U-SHAPED ARROW", 11148>>,
    <<"ANTICLOCKWISE TRIANGLE-HEADED BOTTOM U-SHAPED ARROW", 11149>>,
    <<"ANTICLOCKWISE TRIANGLE-HEADED LEFT U-SHAPED ARROW", 11150>>,
    <<"ANTICLOCKWISE TRIANGLE-HEADED TOP U-SHAPED ARROW", 11151>>, <<"RETURN LEFT", 11152>>,
    <<"RETURN RIGHT", 11153>>, <<"NEWLINE LEFT", 11154>>, <<"NEWLINE RIGHT", 11155>>,
    <<"FOUR CORNER ARROWS CIRCLING ANTICLOCKWISE", 11156>>, <<"RIGHTWARDS BLACK ARROW", 11157>>,
    <<"SYMBOL FOR TYPE A ELECTRONICS", 11159>>,
    <<"THREE-D TOP-LIGHTED LEFTWARDS EQUILATERAL ARROWHEAD", 11160>>,
    <<"THREE-D RIGHT-LIGHTED UPWARDS EQUILATERAL ARROWHEAD", 11161>>,
    <<"THREE-D TOP-LIGHTED RIGHTWARDS EQUILATERAL ARROWHEAD", 11162>>,
    <<"THREE-D LEFT-LIGHTED DOWNWARDS EQUILATERAL ARROWHEAD", 11163>>,
    <<"BLACK LEFTWARDS EQUILATERAL ARROWHEAD", 11164>>,
    <<"BLACK UPWARDS EQUILATERAL ARROWHEAD", 11165>>,
    <<"BLACK RIGHTWARDS EQUILATERAL ARROWHEAD", 11166>>,
    <<"BLACK DOWNWARDS EQUILATERAL ARROWHEAD", 11167>>,
    <<"DOWNWARDS TRIANGLE-HEADED ARROW WITH LONG TIP LEFTWARDS", 11168>>,
    <<"DOWNWARDS TRIANGLE-HEADED ARROW WITH LONG TIP RIGHTWARDS", 11169>>,
    <<"UPWARDS TRIANGLE-HEADED ARROW WITH LONG TIP LEFTWARDS", 11170>>,
    <<"UPWARDS TRIANGLE-HEADED ARROW WITH LONG TIP RIGHTWARDS", 11171>>,
    <<"LEFTWARDS TRIANGLE-HEADED ARROW WITH LONG TIP UPWARDS", 11172>>,
    <<"RIGHTWARDS TRIANGLE-HEADED ARROW WITH LONG TIP UPWARDS", 11173>>,
    <<"LEFTWARDS TRIANGLE-HEADED ARROW WITH LONG TIP DOWNWARDS", 11174>>,
    <<"RIGHTWARDS TRIANGLE-HEADED ARROW WITH LONG TIP DOWNWARDS", 11175>>,
    <<"BLACK CURVED DOWNWARDS AND LEFTWARDS ARROW", 11176>>,
    <<"BLACK CURVED DOWNWARDS AND RIGHTWARDS ARROW", 11177>>,
    <<"BLACK CURVED UPWARDS AND LEFTWARDS ARROW", 11178>>,
    <<"BLACK CURVED UPWARDS AND RIGHTWARDS ARROW", 11179>>,
    <<"BLACK CURVED LEFTWARDS AND UPWARDS ARROW", 11180>>,
    <<"BLACK CURVED RIGHTWARDS AND UPWARDS ARROW", 11181>>,
    <<"BLACK CURVED LEFTWARDS AND DOWNWARDS ARROW", 11182>>,
    <<"BLACK CURVED RIGHTWARDS AND DOWNWARDS ARROW", 11183>>, <<"RIBBON ARROW DOWN LEFT", 11184>>,
    <<"RIBBON ARROW DOWN RIGHT", 11185>>, <<"RIBBON ARROW UP LEFT", 11186>>,
    <<"RIBBON ARROW UP RIGHT", 11187>>, <<"RIBBON ARROW LEFT UP", 11188>>,
    <<"RIBBON ARROW RIGHT UP", 11189>>, <<"RIBBON ARROW LEFT DOWN", 11190>>,
    <<"RIBBON ARROW RIGHT DOWN", 11191>>,
    <<"UPWARDS WHITE ARROW FROM BAR WITH HORIZONTAL BAR", 11192>>,
    <<"UP ARROWHEAD IN A RECTANGLE BOX", 11193>>, <<"OVERLAPPING WHITE SQUARES", 11194>>,
    <<"OVERLAPPING WHITE AND BLACK SQUARES", 11195>>, <<"OVERLAPPING BLACK SQUARES", 11196>>,
    <<"BALLOT BOX WITH LIGHT X", 11197>>, <<"CIRCLED X", 11198>>, <<"CIRCLED BOLD X", 11199>>,
    <<"BLACK SQUARE CENTRED", 11200>>, <<"BLACK DIAMOND CENTRED", 11201>>,
    <<"TURNED BLACK PENTAGON", 11202>>, <<"HORIZONTAL BLACK OCTAGON", 11203>>,
    <<"BLACK OCTAGON", 11204>>, <<"BLACK MEDIUM UP-POINTING TRIANGLE CENTRED", 11205>>,
    <<"BLACK MEDIUM DOWN-POINTING TRIANGLE CENTRED", 11206>>,
    <<"BLACK MEDIUM LEFT-POINTING TRIANGLE CENTRED", 11207>>,
    <<"BLACK MEDIUM RIGHT-POINTING TRIANGLE CENTRED", 11208>>, <<"NEPTUNE FORM TWO", 11209>>,
    <<"TOP HALF BLACK CIRCLE", 11210>>, <<"BOTTOM HALF BLACK CIRCLE", 11211>>,
    <<"LIGHT FOUR POINTED BLACK CUSP", 11212>>, <<"ROTATED LIGHT FOUR POINTED BLACK CUSP", 11213>>,
    <<"WHITE FOUR POINTED CUSP", 11214>>, <<"ROTATED WHITE FOUR POINTED CUSP", 11215>>,
    <<"SQUARE POSITION INDICATOR", 11216>>, <<"UNCERTAINTY SIGN", 11217>>, <<"GROUP MARK", 11218>>,
    <<"PLUTO FORM TWO", 11219>>, <<"PLUTO FORM THREE", 11220>>, <<"PLUTO FORM FOUR", 11221>>,
    <<"PLUTO FORM FIVE", 11222>>, <<"TRANSPLUTO", 11223>>, <<"PROSERPINA", 11224>>,
    <<"ASTRAEA", 11225>>, <<"HYGIEA", 11226>>, <<"PHOLUS", 11227>>, <<"NESSUS", 11228>>,
    <<"WHITE MOON SELENA", 11229>>, <<"BLACK DIAMOND ON CROSS", 11230>>,
    <<"TRUE LIGHT MOON ARTA", 11231>>, <<"CUPIDO", 11232>>, <<"HADES", 11233>>, <<"ZEUS", 11234>>,
    <<"KRONOS", 11235>>, <<"APOLLON", 11236>>, <<"ADMETOS", 11237>>, <<"VULCANUS", 11238>>,
    <<"POSEIDON", 11239>>, <<"LEFT HALF BLACK STAR", 11240>>, <<"RIGHT HALF BLACK STAR", 11241>>,
    <<"STAR WITH LEFT HALF BLACK", 11242>>, <<"STAR WITH RIGHT HALF BLACK", 11243>>,
    <<"LEFTWARDS TWO-HEADED ARROW WITH TRIANGLE ARROWHEADS", 11244>>,
    <<"UPWARDS TWO-HEADED ARROW WITH TRIANGLE ARROWHEADS", 11245>>,
    <<"RIGHTWARDS TWO-HEADED ARROW WITH TRIANGLE ARROWHEADS", 11246>>,
    <<"DOWNWARDS TWO-HEADED ARROW WITH TRIANGLE ARROWHEADS", 11247>>, <<"ERIS FORM ONE", 11248>>,
    <<"ERIS FORM TWO", 11249>>, <<"SEDNA", 11250>>, <<"RUSSIAN ASTROLOGICAL SYMBOL VIGINTILE", 11251>>,
    <<"RUSSIAN ASTROLOGICAL SYMBOL NOVILE", 11252>>, <<"RUSSIAN ASTROLOGICAL SYMBOL QUINTILE", 11253>>,
    <<"RUSSIAN ASTROLOGICAL SYMBOL BINOVILE", 11254>>,
    <<"RUSSIAN ASTROLOGICAL SYMBOL SENTAGON", 11255>>,
    <<"RUSSIAN ASTROLOGICAL SYMBOL TREDECILE", 11256>>, <<"EQUALS SIGN WITH INFINITY BELOW", 11257>>,
    <<"UNITED SYMBOL", 11258>>, <<"SEPARATED SYMBOL", 11259>>, <<"DOUBLED SYMBOL", 11260>>,
    <<"PASSED SYMBOL", 11261>>, <<"REVERSED RIGHT ANGLE", 11262>>,
    <<"HELLSCHREIBER PAUSE SYMBOL", 11263>>, <<"GLAGOLITIC CAPITAL LETTER AZU", 11264>>,
    <<"GLAGOLITIC CAPITAL LETTER BUKY", 11265>>, <<"GLAGOLITIC CAPITAL LETTER VEDE", 11266>>,
    <<"GLAGOLITIC CAPITAL LETTER GLAGOLI", 11267>>, <<"GLAGOLITIC CAPITAL LETTER DOBRO", 11268>>,
    <<"GLAGOLITIC CAPITAL LETTER YESTU", 11269>>, <<"GLAGOLITIC CAPITAL LETTER ZHIVETE", 11270>>,
    <<"GLAGOLITIC CAPITAL LETTER DZELO", 11271>>, <<"GLAGOLITIC CAPITAL LETTER ZEMLJA", 11272>>,
    <<"GLAGOLITIC CAPITAL LETTER IZHE", 11273>>, <<"GLAGOLITIC CAPITAL LETTER INITIAL IZHE", 11274>>,
    <<"GLAGOLITIC CAPITAL LETTER I", 11275>>, <<"GLAGOLITIC CAPITAL LETTER DJERVI", 11276>>,
    <<"GLAGOLITIC CAPITAL LETTER KAKO", 11277>>, <<"GLAGOLITIC CAPITAL LETTER LJUDIJE", 11278>>,
    <<"GLAGOLITIC CAPITAL LETTER MYSLITE", 11279>>, <<"GLAGOLITIC CAPITAL LETTER NASHI", 11280>>,
    <<"GLAGOLITIC CAPITAL LETTER ONU", 11281>>, <<"GLAGOLITIC CAPITAL LETTER POKOJI", 11282>>,
    <<"GLAGOLITIC CAPITAL LETTER RITSI", 11283>>, <<"GLAGOLITIC CAPITAL LETTER SLOVO", 11284>>,
    <<"GLAGOLITIC CAPITAL LETTER TVRIDO", 11285>>, <<"GLAGOLITIC CAPITAL LETTER UKU", 11286>>,
    <<"GLAGOLITIC CAPITAL LETTER FRITU", 11287>>, <<"GLAGOLITIC CAPITAL LETTER HERU", 11288>>,
    <<"GLAGOLITIC CAPITAL LETTER OTU", 11289>>, <<"GLAGOLITIC CAPITAL LETTER PE", 11290>>,
    <<"GLAGOLITIC CAPITAL LETTER SHTA", 11291>>, <<"GLAGOLITIC CAPITAL LETTER TSI", 11292>>,
    <<"GLAGOLITIC CAPITAL LETTER CHRIVI", 11293>>, <<"GLAGOLITIC CAPITAL LETTER SHA", 11294>>,
    <<"GLAGOLITIC CAPITAL LETTER YERU", 11295>>, <<"GLAGOLITIC CAPITAL LETTER YERI", 11296>>,
    <<"GLAGOLITIC CAPITAL LETTER YATI", 11297>>, <<"GLAGOLITIC CAPITAL LETTER SPIDERY HA", 11298>>,
    <<"GLAGOLITIC CAPITAL LETTER YU", 11299>>, <<"GLAGOLITIC CAPITAL LETTER SMALL YUS", 11300>>,
    <<"GLAGOLITIC CAPITAL LETTER SMALL YUS WITH TAIL", 11301>>,
    <<"GLAGOLITIC CAPITAL LETTER YO", 11302>>,
    <<"GLAGOLITIC CAPITAL LETTER IOTATED SMALL YUS", 11303>>,
    <<"GLAGOLITIC CAPITAL LETTER BIG YUS", 11304>>,
    <<"GLAGOLITIC CAPITAL LETTER IOTATED BIG YUS", 11305>>,
    <<"GLAGOLITIC CAPITAL LETTER FITA", 11306>>, <<"GLAGOLITIC CAPITAL LETTER IZHITSA", 11307>>,
    <<"GLAGOLITIC CAPITAL LETTER SHTAPIC", 11308>>,
    <<"GLAGOLITIC CAPITAL LETTER TROKUTASTI A", 11309>>,
    <<"GLAGOLITIC CAPITAL LETTER LATINATE MYSLITE", 11310>>,
    <<"GLAGOLITIC CAPITAL LETTER CAUDATE CHRIVI", 11311>>, <<"GLAGOLITIC SMALL LETTER AZU", 11312>>,
    <<"GLAGOLITIC SMALL LETTER BUKY", 11313>>, <<"GLAGOLITIC SMALL LETTER VEDE", 11314>>,
    <<"GLAGOLITIC SMALL LETTER GLAGOLI", 11315>>, <<"GLAGOLITIC SMALL LETTER DOBRO", 11316>>,
    <<"GLAGOLITIC SMALL LETTER YESTU", 11317>>, <<"GLAGOLITIC SMALL LETTER ZHIVETE", 11318>>,
    <<"GLAGOLITIC SMALL LETTER DZELO", 11319>>, <<"GLAGOLITIC SMALL LETTER ZEMLJA", 11320>>,
    <<"GLAGOLITIC SMALL LETTER IZHE", 11321>>, <<"GLAGOLITIC SMALL LETTER INITIAL IZHE", 11322>>,
    <<"GLAGOLITIC SMALL LETTER I", 11323>>, <<"GLAGOLITIC SMALL LETTER DJERVI", 11324>>,
    <<"GLAGOLITIC SMALL LETTER KAKO", 11325>>, <<"GLAGOLITIC SMALL LETTER LJUDIJE", 11326>>,
    <<"GLAGOLITIC SMALL LETTER MYSLITE", 11327>>, <<"GLAGOLITIC SMALL LETTER NASHI", 11328>>,
    <<"GLAGOLITIC SMALL LETTER ONU", 11329>>, <<"GLAGOLITIC SMALL LETTER POKOJI", 11330>>,
    <<"GLAGOLITIC SMALL LETTER RITSI", 11331>>, <<"GLAGOLITIC SMALL LETTER SLOVO", 11332>>,
    <<"GLAGOLITIC SMALL LETTER TVRIDO", 11333>>, <<"GLAGOLITIC SMALL LETTER UKU", 11334>>,
    <<"GLAGOLITIC SMALL LETTER FRITU", 11335>>, <<"GLAGOLITIC SMALL LETTER HERU", 11336>>,
    <<"GLAGOLITIC SMALL LETTER OTU", 11337>>, <<"GLAGOLITIC SMALL LETTER PE", 11338>>,
    <<"GLAGOLITIC SMALL LETTER SHTA", 11339>>, <<"GLAGOLITIC SMALL LETTER TSI", 11340>>,
    <<"GLAGOLITIC SMALL LETTER CHRIVI", 11341>>, <<"GLAGOLITIC SMALL LETTER SHA", 11342>>,
    <<"GLAGOLITIC SMALL LETTER YERU", 11343>>, <<"GLAGOLITIC SMALL LETTER YERI", 11344>>,
    <<"GLAGOLITIC SMALL LETTER YATI", 11345>>, <<"GLAGOLITIC SMALL LETTER SPIDERY HA", 11346>>,
    <<"GLAGOLITIC SMALL LETTER YU", 11347>>, <<"GLAGOLITIC SMALL LETTER SMALL YUS", 11348>>,
    <<"GLAGOLITIC SMALL LETTER SMALL YUS WITH TAIL", 11349>>, <<"GLAGOLITIC SMALL LETTER YO", 11350>>,
    <<"GLAGOLITIC SMALL LETTER IOTATED SMALL YUS", 11351>>,
    <<"GLAGOLITIC SMALL LETTER BIG YUS", 11352>>, <<"GLAGOLITIC SMALL LETTER IOTATED BIG YUS", 11353>>,
    <<"GLAGOLITIC SMALL LETTER FITA", 11354>>, <<"GLAGOLITIC SMALL LETTER IZHITSA", 11355>>,
    <<"GLAGOLITIC SMALL LETTER SHTAPIC", 11356>>, <<"GLAGOLITIC SMALL LETTER TROKUTASTI A", 11357>>,
    <<"GLAGOLITIC SMALL LETTER LATINATE MYSLITE", 11358>>,
    <<"GLAGOLITIC SMALL LETTER CAUDATE CHRIVI", 11359>>,
    <<"LATIN CAPITAL LETTER L WITH DOUBLE BAR", 11360>>,
    <<"LATIN SMALL LETTER L WITH DOUBLE BAR", 11361>>,
    <<"LATIN CAPITAL LETTER L WITH MIDDLE TILDE", 11362>>,
    <<"LATIN CAPITAL LETTER P WITH STROKE", 11363>>, <<"LATIN CAPITAL LETTER R WITH TAIL", 11364>>,
    <<"LATIN SMALL LETTER A WITH STROKE", 11365>>,
    <<"LATIN SMALL LETTER T WITH DIAGONAL STROKE", 11366>>,
    <<"LATIN CAPITAL LETTER H WITH DESCENDER", 11367>>,
    <<"LATIN SMALL LETTER H WITH DESCENDER", 11368>>,
    <<"LATIN CAPITAL LETTER K WITH DESCENDER", 11369>>,
    <<"LATIN SMALL LETTER K WITH DESCENDER", 11370>>,
    <<"LATIN CAPITAL LETTER Z WITH DESCENDER", 11371>>,
    <<"LATIN SMALL LETTER Z WITH DESCENDER", 11372>>, <<"LATIN CAPITAL LETTER ALPHA", 11373>>,
    <<"LATIN CAPITAL LETTER M WITH HOOK", 11374>>, <<"LATIN CAPITAL LETTER TURNED A", 11375>>,
    <<"LATIN CAPITAL LETTER TURNED ALPHA", 11376>>, <<"LATIN SMALL LETTER V WITH RIGHT HOOK", 11377>>,
    <<"LATIN CAPITAL LETTER W WITH HOOK", 11378>>, <<"LATIN SMALL LETTER W WITH HOOK", 11379>>,
    <<"LATIN SMALL LETTER V WITH CURL", 11380>>, <<"LATIN CAPITAL LETTER HALF H", 11381>>,
    <<"LATIN SMALL LETTER HALF H", 11382>>, <<"LATIN SMALL LETTER TAILLESS PHI", 11383>>,
    <<"LATIN SMALL LETTER E WITH NOTCH", 11384>>, <<"LATIN SMALL LETTER TURNED R WITH TAIL", 11385>>,
    <<"LATIN SMALL LETTER O WITH LOW RING INSIDE", 11386>>,
    <<"LATIN LETTER SMALL CAPITAL TURNED E", 11387>>, <<"LATIN SUBSCRIPT SMALL LETTER J", 11388>>,
    <<"MODIFIER LETTER CAPITAL V", 11389>>, <<"LATIN CAPITAL LETTER S WITH SWASH TAIL", 11390>>,
    <<"LATIN CAPITAL LETTER Z WITH SWASH TAIL", 11391>>, <<"COPTIC CAPITAL LETTER ALFA", 11392>>,
    <<"COPTIC SMALL LETTER ALFA", 11393>>, <<"COPTIC CAPITAL LETTER VIDA", 11394>>,
    <<"COPTIC SMALL LETTER VIDA", 11395>>, <<"COPTIC CAPITAL LETTER GAMMA", 11396>>,
    <<"COPTIC SMALL LETTER GAMMA", 11397>>, <<"COPTIC CAPITAL LETTER DALDA", 11398>>,
    <<"COPTIC SMALL LETTER DALDA", 11399>>, <<"COPTIC CAPITAL LETTER EIE", 11400>>,
    <<"COPTIC SMALL LETTER EIE", 11401>>, <<"COPTIC CAPITAL LETTER SOU", 11402>>,
    <<"COPTIC SMALL LETTER SOU", 11403>>, <<"COPTIC CAPITAL LETTER ZATA", 11404>>,
    <<"COPTIC SMALL LETTER ZATA", 11405>>, <<"COPTIC CAPITAL LETTER HATE", 11406>>,
    <<"COPTIC SMALL LETTER HATE", 11407>>, <<"COPTIC CAPITAL LETTER THETHE", 11408>>,
    <<"COPTIC SMALL LETTER THETHE", 11409>>, <<"COPTIC CAPITAL LETTER IAUDA", 11410>>,
    <<"COPTIC SMALL LETTER IAUDA", 11411>>, <<"COPTIC CAPITAL LETTER KAPA", 11412>>,
    <<"COPTIC SMALL LETTER KAPA", 11413>>, <<"COPTIC CAPITAL LETTER LAULA", 11414>>,
    <<"COPTIC SMALL LETTER LAULA", 11415>>, <<"COPTIC CAPITAL LETTER MI", 11416>>,
    <<"COPTIC SMALL LETTER MI", 11417>>, <<"COPTIC CAPITAL LETTER NI", 11418>>,
    <<"COPTIC SMALL LETTER NI", 11419>>, <<"COPTIC CAPITAL LETTER KSI", 11420>>,
    <<"COPTIC SMALL LETTER KSI", 11421>>, <<"COPTIC CAPITAL LETTER O", 11422>>,
    <<"COPTIC SMALL LETTER O", 11423>>, <<"COPTIC CAPITAL LETTER PI", 11424>>,
    <<"COPTIC SMALL LETTER PI", 11425>>, <<"COPTIC CAPITAL LETTER RO", 11426>>,
    <<"COPTIC SMALL LETTER RO", 11427>>, <<"COPTIC CAPITAL LETTER SIMA", 11428>>,
    <<"COPTIC SMALL LETTER SIMA", 11429>>, <<"COPTIC CAPITAL LETTER TAU", 11430>>,
    <<"COPTIC SMALL LETTER TAU", 11431>>, <<"COPTIC CAPITAL LETTER UA", 11432>>,
    <<"COPTIC SMALL LETTER UA", 11433>>, <<"COPTIC CAPITAL LETTER FI", 11434>>,
    <<"COPTIC SMALL LETTER FI", 11435>>, <<"COPTIC CAPITAL LETTER KHI", 11436>>,
    <<"COPTIC SMALL LETTER KHI", 11437>>, <<"COPTIC CAPITAL LETTER PSI", 11438>>,
    <<"COPTIC SMALL LETTER PSI", 11439>>, <<"COPTIC CAPITAL LETTER OOU", 11440>>,
    <<"COPTIC SMALL LETTER OOU", 11441>>, <<"COPTIC CAPITAL LETTER DIALECT-P ALEF", 11442>>,
    <<"COPTIC SMALL LETTER DIALECT-P ALEF", 11443>>, <<"COPTIC CAPITAL LETTER OLD COPTIC AIN", 11444>>,
    <<"COPTIC SMALL LETTER OLD COPTIC AIN", 11445>>,
    <<"COPTIC CAPITAL LETTER CRYPTOGRAMMIC EIE", 11446>>,
    <<"COPTIC SMALL LETTER CRYPTOGRAMMIC EIE", 11447>>,
    <<"COPTIC CAPITAL LETTER DIALECT-P KAPA", 11448>>, <<"COPTIC SMALL LETTER DIALECT-P KAPA", 11449>>,
    <<"COPTIC CAPITAL LETTER DIALECT-P NI", 11450>>, <<"COPTIC SMALL LETTER DIALECT-P NI", 11451>>,
    <<"COPTIC CAPITAL LETTER CRYPTOGRAMMIC NI", 11452>>,
    <<"COPTIC SMALL LETTER CRYPTOGRAMMIC NI", 11453>>,
    <<"COPTIC CAPITAL LETTER OLD COPTIC OOU", 11454>>, <<"COPTIC SMALL LETTER OLD COPTIC OOU", 11455>>,
    <<"COPTIC CAPITAL LETTER SAMPI", 11456>>, <<"COPTIC SMALL LETTER SAMPI", 11457>>,
    <<"COPTIC CAPITAL LETTER CROSSED SHEI", 11458>>, <<"COPTIC SMALL LETTER CROSSED SHEI", 11459>>,
    <<"COPTIC CAPITAL LETTER OLD COPTIC SHEI", 11460>>,
    <<"COPTIC SMALL LETTER OLD COPTIC SHEI", 11461>>,
    <<"COPTIC CAPITAL LETTER OLD COPTIC ESH", 11462>>, <<"COPTIC SMALL LETTER OLD COPTIC ESH", 11463>>,
    <<"COPTIC CAPITAL LETTER AKHMIMIC KHEI", 11464>>, <<"COPTIC SMALL LETTER AKHMIMIC KHEI", 11465>>,
    <<"COPTIC CAPITAL LETTER DIALECT-P HORI", 11466>>, <<"COPTIC SMALL LETTER DIALECT-P HORI", 11467>>,
    <<"COPTIC CAPITAL LETTER OLD COPTIC HORI", 11468>>,
    <<"COPTIC SMALL LETTER OLD COPTIC HORI", 11469>>, <<"COPTIC CAPITAL LETTER OLD COPTIC HA", 11470>>,
    <<"COPTIC SMALL LETTER OLD COPTIC HA", 11471>>, <<"COPTIC CAPITAL LETTER L-SHAPED HA", 11472>>,
    <<"COPTIC SMALL LETTER L-SHAPED HA", 11473>>, <<"COPTIC CAPITAL LETTER OLD COPTIC HEI", 11474>>,
    <<"COPTIC SMALL LETTER OLD COPTIC HEI", 11475>>, <<"COPTIC CAPITAL LETTER OLD COPTIC HAT", 11476>>,
    <<"COPTIC SMALL LETTER OLD COPTIC HAT", 11477>>,
    <<"COPTIC CAPITAL LETTER OLD COPTIC GANGIA", 11478>>,
    <<"COPTIC SMALL LETTER OLD COPTIC GANGIA", 11479>>,
    <<"COPTIC CAPITAL LETTER OLD COPTIC DJA", 11480>>, <<"COPTIC SMALL LETTER OLD COPTIC DJA", 11481>>,
    <<"COPTIC CAPITAL LETTER OLD COPTIC SHIMA", 11482>>,
    <<"COPTIC SMALL LETTER OLD COPTIC SHIMA", 11483>>,
    <<"COPTIC CAPITAL LETTER OLD NUBIAN SHIMA", 11484>>,
    <<"COPTIC SMALL LETTER OLD NUBIAN SHIMA", 11485>>,
    <<"COPTIC CAPITAL LETTER OLD NUBIAN NGI", 11486>>, <<"COPTIC SMALL LETTER OLD NUBIAN NGI", 11487>>,
    <<"COPTIC CAPITAL LETTER OLD NUBIAN NYI", 11488>>, <<"COPTIC SMALL LETTER OLD NUBIAN NYI", 11489>>,
    <<"COPTIC CAPITAL LETTER OLD NUBIAN WAU", 11490>>, <<"COPTIC SMALL LETTER OLD NUBIAN WAU", 11491>>,
    <<"COPTIC SYMBOL KAI", 11492>>, <<"COPTIC SYMBOL MI RO", 11493>>, <<"COPTIC SYMBOL PI RO", 11494>>,
    <<"COPTIC SYMBOL STAUROS", 11495>>, <<"COPTIC SYMBOL TAU RO", 11496>>,
    <<"COPTIC SYMBOL KHI RO", 11497>>, <<"COPTIC SYMBOL SHIMA SIMA", 11498>>,
    <<"COPTIC CAPITAL LETTER CRYPTOGRAMMIC SHEI", 11499>>,
    <<"COPTIC SMALL LETTER CRYPTOGRAMMIC SHEI", 11500>>,
    <<"COPTIC CAPITAL LETTER CRYPTOGRAMMIC GANGIA", 11501>>,
    <<"COPTIC SMALL LETTER CRYPTOGRAMMIC GANGIA", 11502>>, <<"COPTIC COMBINING NI ABOVE", 11503>>,
    <<"COPTIC COMBINING SPIRITUS ASPER", 11504>>, <<"COPTIC COMBINING SPIRITUS LENIS", 11505>>,
    <<"COPTIC CAPITAL LETTER BOHAIRIC KHEI", 11506>>, <<"COPTIC SMALL LETTER BOHAIRIC KHEI", 11507>>,
    <<"COPTIC OLD NUBIAN FULL STOP", 11513>>, <<"COPTIC OLD NUBIAN DIRECT QUESTION MARK", 11514>>,
    <<"COPTIC OLD NUBIAN INDIRECT QUESTION MARK", 11515>>,
    <<"COPTIC OLD NUBIAN VERSE DIVIDER", 11516>>, <<"COPTIC FRACTION ONE HALF", 11517>>,
    <<"COPTIC FULL STOP", 11518>>, <<"COPTIC MORPHOLOGICAL DIVIDER", 11519>>,
    <<"GEORGIAN SMALL LETTER AN", 11520>>, <<"GEORGIAN SMALL LETTER BAN", 11521>>,
    <<"GEORGIAN SMALL LETTER GAN", 11522>>, <<"GEORGIAN SMALL LETTER DON", 11523>>,
    <<"GEORGIAN SMALL LETTER EN", 11524>>, <<"GEORGIAN SMALL LETTER VIN", 11525>>,
    <<"GEORGIAN SMALL LETTER ZEN", 11526>>, <<"GEORGIAN SMALL LETTER TAN", 11527>>,
    <<"GEORGIAN SMALL LETTER IN", 11528>>, <<"GEORGIAN SMALL LETTER KAN", 11529>>,
    <<"GEORGIAN SMALL LETTER LAS", 11530>>, <<"GEORGIAN SMALL LETTER MAN", 11531>>,
    <<"GEORGIAN SMALL LETTER NAR", 11532>>, <<"GEORGIAN SMALL LETTER ON", 11533>>,
    <<"GEORGIAN SMALL LETTER PAR", 11534>>, <<"GEORGIAN SMALL LETTER ZHAR", 11535>>,
    <<"GEORGIAN SMALL LETTER RAE", 11536>>, <<"GEORGIAN SMALL LETTER SAN", 11537>>,
    <<"GEORGIAN SMALL LETTER TAR", 11538>>, <<"GEORGIAN SMALL LETTER UN", 11539>>,
    <<"GEORGIAN SMALL LETTER PHAR", 11540>>, <<"GEORGIAN SMALL LETTER KHAR", 11541>>,
    <<"GEORGIAN SMALL LETTER GHAN", 11542>>, <<"GEORGIAN SMALL LETTER QAR", 11543>>,
    <<"GEORGIAN SMALL LETTER SHIN", 11544>>, <<"GEORGIAN SMALL LETTER CHIN", 11545>>,
    <<"GEORGIAN SMALL LETTER CAN", 11546>>, <<"GEORGIAN SMALL LETTER JIL", 11547>>,
    <<"GEORGIAN SMALL LETTER CIL", 11548>>, <<"GEORGIAN SMALL LETTER CHAR", 11549>>,
    <<"GEORGIAN SMALL LETTER XAN", 11550>>, <<"GEORGIAN SMALL LETTER JHAN", 11551>>,
    <<"GEORGIAN SMALL LETTER HAE", 11552>>, <<"GEORGIAN SMALL LETTER HE", 11553>>,
    <<"GEORGIAN SMALL LETTER HIE", 11554>>, <<"GEORGIAN SMALL LETTER WE", 11555>>,
    <<"GEORGIAN SMALL LETTER HAR", 11556>>, <<"GEORGIAN SMALL LETTER HOE", 11557>>,
    <<"GEORGIAN SMALL LETTER YN", 11559>>, <<"GEORGIAN SMALL LETTER AEN", 11565>>,
    <<"TIFINAGH LETTER YA", 11568>>, <<"TIFINAGH LETTER YAB", 11569>>,
    <<"TIFINAGH LETTER YABH", 11570>>, <<"TIFINAGH LETTER YAG", 11571>>,
    <<"TIFINAGH LETTER YAGHH", 11572>>, <<"TIFINAGH LETTER BERBER ACADEMY YAJ", 11573>>,
    <<"TIFINAGH LETTER YAJ", 11574>>, <<"TIFINAGH LETTER YAD", 11575>>,
    <<"TIFINAGH LETTER YADH", 11576>>, <<"TIFINAGH LETTER YADD", 11577>>,
    <<"TIFINAGH LETTER YADDH", 11578>>, <<"TIFINAGH LETTER YEY", 11579>>,
    <<"TIFINAGH LETTER YAF", 11580>>, <<"TIFINAGH LETTER YAK", 11581>>,
    <<"TIFINAGH LETTER TUAREG YAK", 11582>>, <<"TIFINAGH LETTER YAKHH", 11583>>,
    <<"TIFINAGH LETTER YAH", 11584>>, <<"TIFINAGH LETTER BERBER ACADEMY YAH", 11585>>,
    <<"TIFINAGH LETTER TUAREG YAH", 11586>>, <<"TIFINAGH LETTER YAHH", 11587>>,
    <<"TIFINAGH LETTER YAA", 11588>>, <<"TIFINAGH LETTER YAKH", 11589>>,
    <<"TIFINAGH LETTER TUAREG YAKH", 11590>>, <<"TIFINAGH LETTER YAQ", 11591>>,
    <<"TIFINAGH LETTER TUAREG YAQ", 11592>>, <<"TIFINAGH LETTER YI", 11593>>,
    <<"TIFINAGH LETTER YAZH", 11594>>, <<"TIFINAGH LETTER AHAGGAR YAZH", 11595>>,
    <<"TIFINAGH LETTER TUAREG YAZH", 11596>>, <<"TIFINAGH LETTER YAL", 11597>>,
    <<"TIFINAGH LETTER YAM", 11598>>, <<"TIFINAGH LETTER YAN", 11599>>,
    <<"TIFINAGH LETTER TUAREG YAGN", 11600>>, <<"TIFINAGH LETTER TUAREG YANG", 11601>>,
    <<"TIFINAGH LETTER YAP", 11602>>, <<"TIFINAGH LETTER YU", 11603>>,
    <<"TIFINAGH LETTER YAR", 11604>>, <<"TIFINAGH LETTER YARR", 11605>>,
    <<"TIFINAGH LETTER YAGH", 11606>>, <<"TIFINAGH LETTER TUAREG YAGH", 11607>>,
    <<"TIFINAGH LETTER AYER YAGH", 11608>>, <<"TIFINAGH LETTER YAS", 11609>>,
    <<"TIFINAGH LETTER YASS", 11610>>, <<"TIFINAGH LETTER YASH", 11611>>,
    <<"TIFINAGH LETTER YAT", 11612>>, <<"TIFINAGH LETTER YATH", 11613>>,
    <<"TIFINAGH LETTER YACH", 11614>>, <<"TIFINAGH LETTER YATT", 11615>>,
    <<"TIFINAGH LETTER YAV", 11616>>, <<"TIFINAGH LETTER YAW", 11617>>,
    <<"TIFINAGH LETTER YAY", 11618>>, <<"TIFINAGH LETTER YAZ", 11619>>,
    <<"TIFINAGH LETTER TAWELLEMET YAZ", 11620>>, <<"TIFINAGH LETTER YAZZ", 11621>>,
    <<"TIFINAGH LETTER YE", 11622>>, <<"TIFINAGH LETTER YO", 11623>>,
    <<"TIFINAGH MODIFIER LETTER LABIALIZATION MARK", 11631>>, <<"TIFINAGH SEPARATOR MARK", 11632>>,
    <<"TIFINAGH CONSONANT JOINER", 11647>>, <<"ETHIOPIC SYLLABLE LOA", 11648>>,
    <<"ETHIOPIC SYLLABLE MOA", 11649>>, <<"ETHIOPIC SYLLABLE ROA", 11650>>,
    <<"ETHIOPIC SYLLABLE SOA", 11651>>, <<"ETHIOPIC SYLLABLE SHOA", 11652>>,
    <<"ETHIOPIC SYLLABLE BOA", 11653>>, <<"ETHIOPIC SYLLABLE TOA", 11654>>,
    <<"ETHIOPIC SYLLABLE COA", 11655>>, <<"ETHIOPIC SYLLABLE NOA", 11656>>,
    <<"ETHIOPIC SYLLABLE NYOA", 11657>>, <<"ETHIOPIC SYLLABLE GLOTTAL OA", 11658>>,
    <<"ETHIOPIC SYLLABLE ZOA", 11659>>, <<"ETHIOPIC SYLLABLE DOA", 11660>>,
    <<"ETHIOPIC SYLLABLE DDOA", 11661>>, <<"ETHIOPIC SYLLABLE JOA", 11662>>,
    <<"ETHIOPIC SYLLABLE THOA", 11663>>, <<"ETHIOPIC SYLLABLE CHOA", 11664>>,
    <<"ETHIOPIC SYLLABLE PHOA", 11665>>, <<"ETHIOPIC SYLLABLE POA", 11666>>,
    <<"ETHIOPIC SYLLABLE GGWA", 11667>>, <<"ETHIOPIC SYLLABLE GGWI", 11668>>,
    <<"ETHIOPIC SYLLABLE GGWEE", 11669>>, <<"ETHIOPIC SYLLABLE GGWE", 11670>>,
    <<"ETHIOPIC SYLLABLE SSA", 11680>>, <<"ETHIOPIC SYLLABLE SSU", 11681>>,
    <<"ETHIOPIC SYLLABLE SSI", 11682>>, <<"ETHIOPIC SYLLABLE SSAA", 11683>>,
    <<"ETHIOPIC SYLLABLE SSEE", 11684>>, <<"ETHIOPIC SYLLABLE SSE", 11685>>,
    <<"ETHIOPIC SYLLABLE SSO", 11686>>, <<"ETHIOPIC SYLLABLE CCA", 11688>>,
    <<"ETHIOPIC SYLLABLE CCU", 11689>>, <<"ETHIOPIC SYLLABLE CCI", 11690>>,
    <<"ETHIOPIC SYLLABLE CCAA", 11691>>, <<"ETHIOPIC SYLLABLE CCEE", 11692>>,
    <<"ETHIOPIC SYLLABLE CCE", 11693>>, <<"ETHIOPIC SYLLABLE CCO", 11694>>,
    <<"ETHIOPIC SYLLABLE ZZA", 11696>>, <<"ETHIOPIC SYLLABLE ZZU", 11697>>,
    <<"ETHIOPIC SYLLABLE ZZI", 11698>>, <<"ETHIOPIC SYLLABLE ZZAA", 11699>>,
    <<"ETHIOPIC SYLLABLE ZZEE", 11700>>, <<"ETHIOPIC SYLLABLE ZZE", 11701>>,
    <<"ETHIOPIC SYLLABLE ZZO", 11702>>, <<"ETHIOPIC SYLLABLE CCHA", 11704>>,
    <<"ETHIOPIC SYLLABLE CCHU", 11705>>, <<"ETHIOPIC SYLLABLE CCHI", 11706>>,
    <<"ETHIOPIC SYLLABLE CCHAA", 11707>>, <<"ETHIOPIC SYLLABLE CCHEE", 11708>>,
    <<"ETHIOPIC SYLLABLE CCHE", 11709>>, <<"ETHIOPIC SYLLABLE CCHO", 11710>>,
    <<"ETHIOPIC SYLLABLE QYA", 11712>>, <<"ETHIOPIC SYLLABLE QYU", 11713>>,
    <<"ETHIOPIC SYLLABLE QYI", 11714>>, <<"ETHIOPIC SYLLABLE QYAA", 11715>>,
    <<"ETHIOPIC SYLLABLE QYEE", 11716>>, <<"ETHIOPIC SYLLABLE QYE", 11717>>,
    <<"ETHIOPIC SYLLABLE QYO", 11718>>, <<"ETHIOPIC SYLLABLE KYA", 11720>>,
    <<"ETHIOPIC SYLLABLE KYU", 11721>>, <<"ETHIOPIC SYLLABLE KYI", 11722>>,
    <<"ETHIOPIC SYLLABLE KYAA", 11723>>, <<"ETHIOPIC SYLLABLE KYEE", 11724>>,
    <<"ETHIOPIC SYLLABLE KYE", 11725>>, <<"ETHIOPIC SYLLABLE KYO", 11726>>,
    <<"ETHIOPIC SYLLABLE XYA", 11728>>, <<"ETHIOPIC SYLLABLE XYU", 11729>>,
    <<"ETHIOPIC SYLLABLE XYI", 11730>>, <<"ETHIOPIC SYLLABLE XYAA", 11731>>,
    <<"ETHIOPIC SYLLABLE XYEE", 11732>>, <<"ETHIOPIC SYLLABLE XYE", 11733>>,
    <<"ETHIOPIC SYLLABLE XYO", 11734>>, <<"ETHIOPIC SYLLABLE GYA", 11736>>,
    <<"ETHIOPIC SYLLABLE GYU", 11737>>, <<"ETHIOPIC SYLLABLE GYI", 11738>>,
    <<"ETHIOPIC SYLLABLE GYAA", 11739>>, <<"ETHIOPIC SYLLABLE GYEE", 11740>>,
    <<"ETHIOPIC SYLLABLE GYE", 11741>>, <<"ETHIOPIC SYLLABLE GYO", 11742>>,
    <<"COMBINING CYRILLIC LETTER BE", 11744>>, <<"COMBINING CYRILLIC LETTER VE", 11745>>,
    <<"COMBINING CYRILLIC LETTER GHE", 11746>>, <<"COMBINING CYRILLIC LETTER DE", 11747>>,
    <<"COMBINING CYRILLIC LETTER ZHE", 11748>>, <<"COMBINING CYRILLIC LETTER ZE", 11749>>,
    <<"COMBINING CYRILLIC LETTER KA", 11750>>, <<"COMBINING CYRILLIC LETTER EL", 11751>>,
    <<"COMBINING CYRILLIC LETTER EM", 11752>>, <<"COMBINING CYRILLIC LETTER EN", 11753>>,
    <<"COMBINING CYRILLIC LETTER O", 11754>>, <<"COMBINING CYRILLIC LETTER PE", 11755>>,
    <<"COMBINING CYRILLIC LETTER ER", 11756>>, <<"COMBINING CYRILLIC LETTER ES", 11757>>,
    <<"COMBINING CYRILLIC LETTER TE", 11758>>, <<"COMBINING CYRILLIC LETTER HA", 11759>>,
    <<"COMBINING CYRILLIC LETTER TSE", 11760>>, <<"COMBINING CYRILLIC LETTER CHE", 11761>>,
    <<"COMBINING CYRILLIC LETTER SHA", 11762>>, <<"COMBINING CYRILLIC LETTER SHCHA", 11763>>,
    <<"COMBINING CYRILLIC LETTER FITA", 11764>>, <<"COMBINING CYRILLIC LETTER ES-TE", 11765>>,
    <<"COMBINING CYRILLIC LETTER A", 11766>>, <<"COMBINING CYRILLIC LETTER IE", 11767>>,
    <<"COMBINING CYRILLIC LETTER DJERV", 11768>>, <<"COMBINING CYRILLIC LETTER MONOGRAPH UK", 11769>>,
    <<"COMBINING CYRILLIC LETTER YAT", 11770>>, <<"COMBINING CYRILLIC LETTER YU", 11771>>,
    <<"COMBINING CYRILLIC LETTER IOTIFIED A", 11772>>,
    <<"COMBINING CYRILLIC LETTER LITTLE YUS", 11773>>, <<"COMBINING CYRILLIC LETTER BIG YUS", 11774>>,
    <<"COMBINING CYRILLIC LETTER IOTIFIED BIG YUS", 11775>>,
    <<"RIGHT ANGLE SUBSTITUTION MARKER", 11776>>, <<"RIGHT ANGLE DOTTED SUBSTITUTION MARKER", 11777>>,
    <<"LEFT SUBSTITUTION BRACKET", 11778>>, <<"RIGHT SUBSTITUTION BRACKET", 11779>>,
    <<"LEFT DOTTED SUBSTITUTION BRACKET", 11780>>, <<"RIGHT DOTTED SUBSTITUTION BRACKET", 11781>>,
    <<"RAISED INTERPOLATION MARKER", 11782>>, <<"RAISED DOTTED INTERPOLATION MARKER", 11783>>,
    <<"DOTTED TRANSPOSITION MARKER", 11784>>, <<"LEFT TRANSPOSITION BRACKET", 11785>>,
    <<"RIGHT TRANSPOSITION BRACKET", 11786>>, <<"RAISED SQUARE", 11787>>,
    <<"LEFT RAISED OMISSION BRACKET", 11788>>, <<"RIGHT RAISED OMISSION BRACKET", 11789>>,
    <<"EDITORIAL CORONIS", 11790>>, <<"PARAGRAPHOS", 11791>>, <<"FORKED PARAGRAPHOS", 11792>>,
    <<"REVERSED FORKED PARAGRAPHOS", 11793>>, <<"HYPODIASTOLE", 11794>>, <<"DOTTED OBELOS", 11795>>,
    <<"DOWNWARDS ANCORA", 11796>>, <<"UPWARDS ANCORA", 11797>>,
    <<"DOTTED RIGHT-POINTING ANGLE", 11798>>, <<"DOUBLE OBLIQUE HYPHEN", 11799>>,
    <<"INVERTED INTERROBANG", 11800>>, <<"PALM BRANCH", 11801>>, <<"HYPHEN WITH DIAERESIS", 11802>>,
    <<"TILDE WITH RING ABOVE", 11803>>, <<"LEFT LOW PARAPHRASE BRACKET", 11804>>,
    <<"RIGHT LOW PARAPHRASE BRACKET", 11805>>, <<"TILDE WITH DOT ABOVE", 11806>>,
    <<"TILDE WITH DOT BELOW", 11807>>, <<"LEFT VERTICAL BAR WITH QUILL", 11808>>,
    <<"RIGHT VERTICAL BAR WITH QUILL", 11809>>, <<"TOP LEFT HALF BRACKET", 11810>>,
    <<"TOP RIGHT HALF BRACKET", 11811>>, <<"BOTTOM LEFT HALF BRACKET", 11812>>,
    <<"BOTTOM RIGHT HALF BRACKET", 11813>>, <<"LEFT SIDEWAYS U BRACKET", 11814>>,
    <<"RIGHT SIDEWAYS U BRACKET", 11815>>, <<"LEFT DOUBLE PARENTHESIS", 11816>>,
    <<"RIGHT DOUBLE PARENTHESIS", 11817>>, <<"TWO DOTS OVER ONE DOT PUNCTUATION", 11818>>,
    <<"ONE DOT OVER TWO DOTS PUNCTUATION", 11819>>, <<"SQUARED FOUR DOT PUNCTUATION", 11820>>,
    <<"FIVE DOT MARK", 11821>>, <<"REVERSED QUESTION MARK", 11822>>, <<"VERTICAL TILDE", 11823>>,
    <<"RING POINT", 11824>>, <<"WORD SEPARATOR MIDDLE DOT", 11825>>, <<"TURNED COMMA", 11826>>,
    <<"RAISED DOT", 11827>>, <<"RAISED COMMA", 11828>>, <<"TURNED SEMICOLON", 11829>>,
    <<"DAGGER WITH LEFT GUARD", 11830>>, <<"DAGGER WITH RIGHT GUARD", 11831>>,
    <<"TURNED DAGGER", 11832>>, <<"TOP HALF SECTION SIGN", 11833>>, <<"TWO-EM DASH", 11834>>,
    <<"THREE-EM DASH", 11835>>, <<"STENOGRAPHIC FULL STOP", 11836>>, <<"VERTICAL SIX DOTS", 11837>>,
    <<"WIGGLY VERTICAL LINE", 11838>>, <<"CAPITULUM", 11839>>, <<"DOUBLE HYPHEN", 11840>>,
    <<"REVERSED COMMA", 11841>>, <<"DOUBLE LOW-REVERSED-9 QUOTATION MARK", 11842>>,
    <<"DASH WITH LEFT UPTURN", 11843>>, <<"DOUBLE SUSPENSION MARK", 11844>>,
    <<"INVERTED LOW KAVYKA", 11845>>, <<"INVERTED LOW KAVYKA WITH KAVYKA ABOVE", 11846>>,
    <<"LOW KAVYKA", 11847>>, <<"LOW KAVYKA WITH DOT", 11848>>, <<"DOUBLE STACKED COMMA", 11849>>,
    <<"DOTTED SOLIDUS", 11850>>, <<"TRIPLE DAGGER", 11851>>, <<"MEDIEVAL COMMA", 11852>>,
    <<"PARAGRAPHUS MARK", 11853>>, <<"PUNCTUS ELEVATUS MARK", 11854>>,
    <<"CORNISH VERSE DIVIDER", 11855>>, <<"CROSS PATTY WITH RIGHT CROSSBAR", 11856>>,
    <<"CROSS PATTY WITH LEFT CROSSBAR", 11857>>, <<"TIRONIAN SIGN CAPITAL ET", 11858>>,
    <<"MEDIEVAL EXCLAMATION MARK", 11859>>, <<"MEDIEVAL QUESTION MARK", 11860>>,
    <<"LEFT SQUARE BRACKET WITH STROKE", 11861>>, <<"RIGHT SQUARE BRACKET WITH STROKE", 11862>>,
    <<"LEFT SQUARE BRACKET WITH DOUBLE STROKE", 11863>>,
    <<"RIGHT SQUARE BRACKET WITH DOUBLE STROKE", 11864>>, <<"TOP HALF LEFT PARENTHESIS", 11865>>,
    <<"TOP HALF RIGHT PARENTHESIS", 11866>>, <<"BOTTOM HALF LEFT PARENTHESIS", 11867>>,
    <<"BOTTOM HALF RIGHT PARENTHESIS", 11868>>, <<"OBLIQUE HYPHEN", 11869>>,
    <<"CJK RADICAL REPEAT", 11904>>, <<"CJK RADICAL CLIFF", 11905>>,
    <<"CJK RADICAL SECOND ONE", 11906>>, <<"CJK RADICAL SECOND TWO", 11907>>,
    <<"CJK RADICAL SECOND THREE", 11908>>, <<"CJK RADICAL PERSON", 11909>>,
    <<"CJK RADICAL BOX", 11910>>, <<"CJK RADICAL TABLE", 11911>>, <<"CJK RADICAL KNIFE ONE", 11912>>,
    <<"CJK RADICAL KNIFE TWO", 11913>>, <<"CJK RADICAL DIVINATION", 11914>>,
    <<"CJK RADICAL SEAL", 11915>>, <<"CJK RADICAL SMALL ONE", 11916>>,
    <<"CJK RADICAL SMALL TWO", 11917>>, <<"CJK RADICAL LAME ONE", 11918>>,
    <<"CJK RADICAL LAME TWO", 11919>>, <<"CJK RADICAL LAME THREE", 11920>>,
    <<"CJK RADICAL LAME FOUR", 11921>>, <<"CJK RADICAL SNAKE", 11922>>,
    <<"CJK RADICAL THREAD", 11923>>, <<"CJK RADICAL SNOUT ONE", 11924>>,
    <<"CJK RADICAL SNOUT TWO", 11925>>, <<"CJK RADICAL HEART ONE", 11926>>,
    <<"CJK RADICAL HEART TWO", 11927>>, <<"CJK RADICAL HAND", 11928>>, <<"CJK RADICAL RAP", 11929>>,
    <<"CJK RADICAL CHOKE", 11931>>, <<"CJK RADICAL SUN", 11932>>, <<"CJK RADICAL MOON", 11933>>,
    <<"CJK RADICAL DEATH", 11934>>, <<"CJK RADICAL MOTHER", 11935>>, <<"CJK RADICAL CIVILIAN", 11936>>,
    <<"CJK RADICAL WATER ONE", 11937>>, <<"CJK RADICAL WATER TWO", 11938>>,
    <<"CJK RADICAL FIRE", 11939>>, <<"CJK RADICAL PAW ONE", 11940>>, <<"CJK RADICAL PAW TWO", 11941>>,
    <<"CJK RADICAL SIMPLIFIED HALF TREE TRUNK", 11942>>, <<"CJK RADICAL COW", 11943>>,
    <<"CJK RADICAL DOG", 11944>>, <<"CJK RADICAL JADE", 11945>>,
    <<"CJK RADICAL BOLT OF CLOTH", 11946>>, <<"CJK RADICAL EYE", 11947>>,
    <<"CJK RADICAL SPIRIT ONE", 11948>>, <<"CJK RADICAL SPIRIT TWO", 11949>>,
    <<"CJK RADICAL BAMBOO", 11950>>, <<"CJK RADICAL SILK", 11951>>,
    <<"CJK RADICAL C-SIMPLIFIED SILK", 11952>>, <<"CJK RADICAL NET ONE", 11953>>,
    <<"CJK RADICAL NET TWO", 11954>>, <<"CJK RADICAL NET THREE", 11955>>,
    <<"CJK RADICAL NET FOUR", 11956>>, <<"CJK RADICAL MESH", 11957>>, <<"CJK RADICAL SHEEP", 11958>>,
    <<"CJK RADICAL RAM", 11959>>, <<"CJK RADICAL EWE", 11960>>, <<"CJK RADICAL OLD", 11961>>,
    <<"CJK RADICAL BRUSH ONE", 11962>>, <<"CJK RADICAL BRUSH TWO", 11963>>,
    <<"CJK RADICAL MEAT", 11964>>, <<"CJK RADICAL MORTAR", 11965>>, <<"CJK RADICAL GRASS ONE", 11966>>,
    <<"CJK RADICAL GRASS TWO", 11967>>, <<"CJK RADICAL GRASS THREE", 11968>>,
    <<"CJK RADICAL TIGER", 11969>>, <<"CJK RADICAL CLOTHES", 11970>>,
    <<"CJK RADICAL WEST ONE", 11971>>, <<"CJK RADICAL WEST TWO", 11972>>,
    <<"CJK RADICAL C-SIMPLIFIED SEE", 11973>>, <<"CJK RADICAL SIMPLIFIED HORN", 11974>>,
    <<"CJK RADICAL HORN", 11975>>, <<"CJK RADICAL C-SIMPLIFIED SPEECH", 11976>>,
    <<"CJK RADICAL C-SIMPLIFIED SHELL", 11977>>, <<"CJK RADICAL FOOT", 11978>>,
    <<"CJK RADICAL C-SIMPLIFIED CART", 11979>>, <<"CJK RADICAL SIMPLIFIED WALK", 11980>>,
    <<"CJK RADICAL WALK ONE", 11981>>, <<"CJK RADICAL WALK TWO", 11982>>,
    <<"CJK RADICAL CITY", 11983>>, <<"CJK RADICAL C-SIMPLIFIED GOLD", 11984>>,
    <<"CJK RADICAL LONG ONE", 11985>>, <<"CJK RADICAL LONG TWO", 11986>>,
    <<"CJK RADICAL C-SIMPLIFIED LONG", 11987>>, <<"CJK RADICAL C-SIMPLIFIED GATE", 11988>>,
    <<"CJK RADICAL MOUND ONE", 11989>>, <<"CJK RADICAL MOUND TWO", 11990>>,
    <<"CJK RADICAL RAIN", 11991>>, <<"CJK RADICAL BLUE", 11992>>,
    <<"CJK RADICAL C-SIMPLIFIED TANNED LEATHER", 11993>>, <<"CJK RADICAL C-SIMPLIFIED LEAF", 11994>>,
    <<"CJK RADICAL C-SIMPLIFIED WIND", 11995>>, <<"CJK RADICAL C-SIMPLIFIED FLY", 11996>>,
    <<"CJK RADICAL EAT ONE", 11997>>, <<"CJK RADICAL EAT TWO", 11998>>,
    <<"CJK RADICAL EAT THREE", 11999>>, <<"CJK RADICAL C-SIMPLIFIED EAT", 12000>>,
    <<"CJK RADICAL HEAD", 12001>>, <<"CJK RADICAL C-SIMPLIFIED HORSE", 12002>>,
    <<"CJK RADICAL BONE", 12003>>, <<"CJK RADICAL GHOST", 12004>>,
    <<"CJK RADICAL C-SIMPLIFIED FISH", 12005>>, <<"CJK RADICAL C-SIMPLIFIED BIRD", 12006>>,
    <<"CJK RADICAL C-SIMPLIFIED SALT", 12007>>, <<"CJK RADICAL SIMPLIFIED WHEAT", 12008>>,
    <<"CJK RADICAL SIMPLIFIED YELLOW", 12009>>, <<"CJK RADICAL C-SIMPLIFIED FROG", 12010>>,
    <<"CJK RADICAL J-SIMPLIFIED EVEN", 12011>>, <<"CJK RADICAL C-SIMPLIFIED EVEN", 12012>>,
    <<"CJK RADICAL J-SIMPLIFIED TOOTH", 12013>>, <<"CJK RADICAL C-SIMPLIFIED TOOTH", 12014>>,
    <<"CJK RADICAL J-SIMPLIFIED DRAGON", 12015>>, <<"CJK RADICAL C-SIMPLIFIED DRAGON", 12016>>,
    <<"CJK RADICAL TURTLE", 12017>>, <<"CJK RADICAL J-SIMPLIFIED TURTLE", 12018>>,
    <<"CJK RADICAL C-SIMPLIFIED TURTLE", 12019>>, <<"KANGXI RADICAL ONE", 12032>>,
    <<"KANGXI RADICAL LINE", 12033>>, <<"KANGXI RADICAL DOT", 12034>>,
    <<"KANGXI RADICAL SLASH", 12035>>, <<"KANGXI RADICAL SECOND", 12036>>,
    <<"KANGXI RADICAL HOOK", 12037>>, <<"KANGXI RADICAL TWO", 12038>>, <<"KANGXI RADICAL LID", 12039>>,
    <<"KANGXI RADICAL MAN", 12040>>, <<"KANGXI RADICAL LEGS", 12041>>,
    <<"KANGXI RADICAL ENTER", 12042>>, <<"KANGXI RADICAL EIGHT", 12043>>,
    <<"KANGXI RADICAL DOWN BOX", 12044>>, <<"KANGXI RADICAL COVER", 12045>>,
    <<"KANGXI RADICAL ICE", 12046>>, <<"KANGXI RADICAL TABLE", 12047>>,
    <<"KANGXI RADICAL OPEN BOX", 12048>>, <<"KANGXI RADICAL KNIFE", 12049>>,
    <<"KANGXI RADICAL POWER", 12050>>, <<"KANGXI RADICAL WRAP", 12051>>,
    <<"KANGXI RADICAL SPOON", 12052>>, <<"KANGXI RADICAL RIGHT OPEN BOX", 12053>>,
    <<"KANGXI RADICAL HIDING ENCLOSURE", 12054>>, <<"KANGXI RADICAL TEN", 12055>>,
    <<"KANGXI RADICAL DIVINATION", 12056>>, <<"KANGXI RADICAL SEAL", 12057>>,
    <<"KANGXI RADICAL CLIFF", 12058>>, <<"KANGXI RADICAL PRIVATE", 12059>>,
    <<"KANGXI RADICAL AGAIN", 12060>>, <<"KANGXI RADICAL MOUTH", 12061>>,
    <<"KANGXI RADICAL ENCLOSURE", 12062>>, <<"KANGXI RADICAL EARTH", 12063>>,
    <<"KANGXI RADICAL SCHOLAR", 12064>>, <<"KANGXI RADICAL GO", 12065>>,
    <<"KANGXI RADICAL GO SLOWLY", 12066>>, <<"KANGXI RADICAL EVENING", 12067>>,
    <<"KANGXI RADICAL BIG", 12068>>, <<"KANGXI RADICAL WOMAN", 12069>>,
    <<"KANGXI RADICAL CHILD", 12070>>, <<"KANGXI RADICAL ROOF", 12071>>,
    <<"KANGXI RADICAL INCH", 12072>>, <<"KANGXI RADICAL SMALL", 12073>>,
    <<"KANGXI RADICAL LAME", 12074>>, <<"KANGXI RADICAL CORPSE", 12075>>,
    <<"KANGXI RADICAL SPROUT", 12076>>, <<"KANGXI RADICAL MOUNTAIN", 12077>>,
    <<"KANGXI RADICAL RIVER", 12078>>, <<"KANGXI RADICAL WORK", 12079>>,
    <<"KANGXI RADICAL ONESELF", 12080>>, <<"KANGXI RADICAL TURBAN", 12081>>,
    <<"KANGXI RADICAL DRY", 12082>>, <<"KANGXI RADICAL SHORT THREAD", 12083>>,
    <<"KANGXI RADICAL DOTTED CLIFF", 12084>>, <<"KANGXI RADICAL LONG STRIDE", 12085>>,
    <<"KANGXI RADICAL TWO HANDS", 12086>>, <<"KANGXI RADICAL SHOOT", 12087>>,
    <<"KANGXI RADICAL BOW", 12088>>, <<"KANGXI RADICAL SNOUT", 12089>>,
    <<"KANGXI RADICAL BRISTLE", 12090>>, <<"KANGXI RADICAL STEP", 12091>>,
    <<"KANGXI RADICAL HEART", 12092>>, <<"KANGXI RADICAL HALBERD", 12093>>,
    <<"KANGXI RADICAL DOOR", 12094>>, <<"KANGXI RADICAL HAND", 12095>>,
    <<"KANGXI RADICAL BRANCH", 12096>>, <<"KANGXI RADICAL RAP", 12097>>,
    <<"KANGXI RADICAL SCRIPT", 12098>>, <<"KANGXI RADICAL DIPPER", 12099>>,
    <<"KANGXI RADICAL AXE", 12100>>, <<"KANGXI RADICAL SQUARE", 12101>>,
    <<"KANGXI RADICAL NOT", 12102>>, <<"KANGXI RADICAL SUN", 12103>>, <<"KANGXI RADICAL SAY", 12104>>,
    <<"KANGXI RADICAL MOON", 12105>>, <<"KANGXI RADICAL TREE", 12106>>,
    <<"KANGXI RADICAL LACK", 12107>>, <<"KANGXI RADICAL STOP", 12108>>,
    <<"KANGXI RADICAL DEATH", 12109>>, <<"KANGXI RADICAL WEAPON", 12110>>,
    <<"KANGXI RADICAL DO NOT", 12111>>, <<"KANGXI RADICAL COMPARE", 12112>>,
    <<"KANGXI RADICAL FUR", 12113>>, <<"KANGXI RADICAL CLAN", 12114>>,
    <<"KANGXI RADICAL STEAM", 12115>>, <<"KANGXI RADICAL WATER", 12116>>,
    <<"KANGXI RADICAL FIRE", 12117>>, <<"KANGXI RADICAL CLAW", 12118>>,
    <<"KANGXI RADICAL FATHER", 12119>>, <<"KANGXI RADICAL DOUBLE X", 12120>>,
    <<"KANGXI RADICAL HALF TREE TRUNK", 12121>>, <<"KANGXI RADICAL SLICE", 12122>>,
    <<"KANGXI RADICAL FANG", 12123>>, <<"KANGXI RADICAL COW", 12124>>, <<"KANGXI RADICAL DOG", 12125>>,
    <<"KANGXI RADICAL PROFOUND", 12126>>, <<"KANGXI RADICAL JADE", 12127>>,
    <<"KANGXI RADICAL MELON", 12128>>, <<"KANGXI RADICAL TILE", 12129>>,
    <<"KANGXI RADICAL SWEET", 12130>>, <<"KANGXI RADICAL LIFE", 12131>>,
    <<"KANGXI RADICAL USE", 12132>>, <<"KANGXI RADICAL FIELD", 12133>>,
    <<"KANGXI RADICAL BOLT OF CLOTH", 12134>>, <<"KANGXI RADICAL SICKNESS", 12135>>,
    <<"KANGXI RADICAL DOTTED TENT", 12136>>, <<"KANGXI RADICAL WHITE", 12137>>,
    <<"KANGXI RADICAL SKIN", 12138>>, <<"KANGXI RADICAL DISH", 12139>>,
    <<"KANGXI RADICAL EYE", 12140>>, <<"KANGXI RADICAL SPEAR", 12141>>,
    <<"KANGXI RADICAL ARROW", 12142>>, <<"KANGXI RADICAL STONE", 12143>>,
    <<"KANGXI RADICAL SPIRIT", 12144>>, <<"KANGXI RADICAL TRACK", 12145>>,
    <<"KANGXI RADICAL GRAIN", 12146>>, <<"KANGXI RADICAL CAVE", 12147>>,
    <<"KANGXI RADICAL STAND", 12148>>, <<"KANGXI RADICAL BAMBOO", 12149>>,
    <<"KANGXI RADICAL RICE", 12150>>, <<"KANGXI RADICAL SILK", 12151>>,
    <<"KANGXI RADICAL JAR", 12152>>, <<"KANGXI RADICAL NET", 12153>>,
    <<"KANGXI RADICAL SHEEP", 12154>>, <<"KANGXI RADICAL FEATHER", 12155>>,
    <<"KANGXI RADICAL OLD", 12156>>, <<"KANGXI RADICAL AND", 12157>>, <<"KANGXI RADICAL PLOW", 12158>>,
    <<"KANGXI RADICAL EAR", 12159>>, <<"KANGXI RADICAL BRUSH", 12160>>,
    <<"KANGXI RADICAL MEAT", 12161>>, <<"KANGXI RADICAL MINISTER", 12162>>,
    <<"KANGXI RADICAL SELF", 12163>>, <<"KANGXI RADICAL ARRIVE", 12164>>,
    <<"KANGXI RADICAL MORTAR", 12165>>, <<"KANGXI RADICAL TONGUE", 12166>>,
    <<"KANGXI RADICAL OPPOSE", 12167>>, <<"KANGXI RADICAL BOAT", 12168>>,
    <<"KANGXI RADICAL STOPPING", 12169>>, <<"KANGXI RADICAL COLOR", 12170>>,
    <<"KANGXI RADICAL GRASS", 12171>>, <<"KANGXI RADICAL TIGER", 12172>>,
    <<"KANGXI RADICAL INSECT", 12173>>, <<"KANGXI RADICAL BLOOD", 12174>>,
    <<"KANGXI RADICAL WALK ENCLOSURE", 12175>>, <<"KANGXI RADICAL CLOTHES", 12176>>,
    <<"KANGXI RADICAL WEST", 12177>>, <<"KANGXI RADICAL SEE", 12178>>,
    <<"KANGXI RADICAL HORN", 12179>>, <<"KANGXI RADICAL SPEECH", 12180>>,
    <<"KANGXI RADICAL VALLEY", 12181>>, <<"KANGXI RADICAL BEAN", 12182>>,
    <<"KANGXI RADICAL PIG", 12183>>, <<"KANGXI RADICAL BADGER", 12184>>,
    <<"KANGXI RADICAL SHELL", 12185>>, <<"KANGXI RADICAL RED", 12186>>,
    <<"KANGXI RADICAL RUN", 12187>>, <<"KANGXI RADICAL FOOT", 12188>>,
    <<"KANGXI RADICAL BODY", 12189>>, <<"KANGXI RADICAL CART", 12190>>,
    <<"KANGXI RADICAL BITTER", 12191>>, <<"KANGXI RADICAL MORNING", 12192>>,
    <<"KANGXI RADICAL WALK", 12193>>, <<"KANGXI RADICAL CITY", 12194>>,
    <<"KANGXI RADICAL WINE", 12195>>, <<"KANGXI RADICAL DISTINGUISH", 12196>>,
    <<"KANGXI RADICAL VILLAGE", 12197>>, <<"KANGXI RADICAL GOLD", 12198>>,
    <<"KANGXI RADICAL LONG", 12199>>, <<"KANGXI RADICAL GATE", 12200>>,
    <<"KANGXI RADICAL MOUND", 12201>>, <<"KANGXI RADICAL SLAVE", 12202>>,
    <<"KANGXI RADICAL SHORT TAILED BIRD", 12203>>, <<"KANGXI RADICAL RAIN", 12204>>,
    <<"KANGXI RADICAL BLUE", 12205>>, <<"KANGXI RADICAL WRONG", 12206>>,
    <<"KANGXI RADICAL FACE", 12207>>, <<"KANGXI RADICAL LEATHER", 12208>>,
    <<"KANGXI RADICAL TANNED LEATHER", 12209>>, <<"KANGXI RADICAL LEEK", 12210>>,
    <<"KANGXI RADICAL SOUND", 12211>>, <<"KANGXI RADICAL LEAF", 12212>>,
    <<"KANGXI RADICAL WIND", 12213>>, <<"KANGXI RADICAL FLY", 12214>>, <<"KANGXI RADICAL EAT", 12215>>,
    <<"KANGXI RADICAL HEAD", 12216>>, <<"KANGXI RADICAL FRAGRANT", 12217>>,
    <<"KANGXI RADICAL HORSE", 12218>>, <<"KANGXI RADICAL BONE", 12219>>,
    <<"KANGXI RADICAL TALL", 12220>>, <<"KANGXI RADICAL HAIR", 12221>>,
    <<"KANGXI RADICAL FIGHT", 12222>>, <<"KANGXI RADICAL SACRIFICIAL WINE", 12223>>,
    <<"KANGXI RADICAL CAULDRON", 12224>>, <<"KANGXI RADICAL GHOST", 12225>>,
    <<"KANGXI RADICAL FISH", 12226>>, <<"KANGXI RADICAL BIRD", 12227>>,
    <<"KANGXI RADICAL SALT", 12228>>, <<"KANGXI RADICAL DEER", 12229>>,
    <<"KANGXI RADICAL WHEAT", 12230>>, <<"KANGXI RADICAL HEMP", 12231>>,
    <<"KANGXI RADICAL YELLOW", 12232>>, <<"KANGXI RADICAL MILLET", 12233>>,
    <<"KANGXI RADICAL BLACK", 12234>>, <<"KANGXI RADICAL EMBROIDERY", 12235>>,
    <<"KANGXI RADICAL FROG", 12236>>, <<"KANGXI RADICAL TRIPOD", 12237>>,
    <<"KANGXI RADICAL DRUM", 12238>>, <<"KANGXI RADICAL RAT", 12239>>,
    <<"KANGXI RADICAL NOSE", 12240>>, <<"KANGXI RADICAL EVEN", 12241>>,
    <<"KANGXI RADICAL TOOTH", 12242>>, <<"KANGXI RADICAL DRAGON", 12243>>,
    <<"KANGXI RADICAL TURTLE", 12244>>, <<"KANGXI RADICAL FLUTE", 12245>>,
    <<"IDEOGRAPHIC DESCRIPTION CHARACTER LEFT TO RIGHT", 12272>>,
    <<"IDEOGRAPHIC DESCRIPTION CHARACTER ABOVE TO BELOW", 12273>>,
    <<"IDEOGRAPHIC DESCRIPTION CHARACTER LEFT TO MIDDLE AND RIGHT", 12274>>,
    <<"IDEOGRAPHIC DESCRIPTION CHARACTER ABOVE TO MIDDLE AND BELOW", 12275>>,
    <<"IDEOGRAPHIC DESCRIPTION CHARACTER FULL SURROUND", 12276>>,
    <<"IDEOGRAPHIC DESCRIPTION CHARACTER SURROUND FROM ABOVE", 12277>>,
    <<"IDEOGRAPHIC DESCRIPTION CHARACTER SURROUND FROM BELOW", 12278>>,
    <<"IDEOGRAPHIC DESCRIPTION CHARACTER SURROUND FROM LEFT", 12279>>,
    <<"IDEOGRAPHIC DESCRIPTION CHARACTER SURROUND FROM UPPER LEFT", 12280>>,
    <<"IDEOGRAPHIC DESCRIPTION CHARACTER SURROUND FROM UPPER RIGHT", 12281>>,
    <<"IDEOGRAPHIC DESCRIPTION CHARACTER SURROUND FROM LOWER LEFT", 12282>>,
    <<"IDEOGRAPHIC DESCRIPTION CHARACTER OVERLAID", 12283>>, <<"IDEOGRAPHIC SPACE", 12288>>,
    <<"IDEOGRAPHIC COMMA", 12289>>, <<"IDEOGRAPHIC FULL STOP", 12290>>, <<"DITTO MARK", 12291>>,
    <<"JAPANESE INDUSTRIAL STANDARD SYMBOL", 12292>>, <<"IDEOGRAPHIC ITERATION MARK", 12293>>,
    <<"IDEOGRAPHIC CLOSING MARK", 12294>>, <<"IDEOGRAPHIC NUMBER ZERO", 12295>>,
    <<"LEFT ANGLE BRACKET", 12296>>, <<"RIGHT ANGLE BRACKET", 12297>>,
    <<"LEFT DOUBLE ANGLE BRACKET", 12298>>, <<"RIGHT DOUBLE ANGLE BRACKET", 12299>>,
    <<"LEFT CORNER BRACKET", 12300>>, <<"RIGHT CORNER BRACKET", 12301>>,
    <<"LEFT WHITE CORNER BRACKET", 12302>>, <<"RIGHT WHITE CORNER BRACKET", 12303>>,
    <<"LEFT BLACK LENTICULAR BRACKET", 12304>>, <<"RIGHT BLACK LENTICULAR BRACKET", 12305>>,
    <<"POSTAL MARK", 12306>>, <<"GETA MARK", 12307>>, <<"LEFT TORTOISE SHELL BRACKET", 12308>>,
    <<"RIGHT TORTOISE SHELL BRACKET", 12309>>, <<"LEFT WHITE LENTICULAR BRACKET", 12310>>,
    <<"RIGHT WHITE LENTICULAR BRACKET", 12311>>, <<"LEFT WHITE TORTOISE SHELL BRACKET", 12312>>,
    <<"RIGHT WHITE TORTOISE SHELL BRACKET", 12313>>, <<"LEFT WHITE SQUARE BRACKET", 12314>>,
    <<"RIGHT WHITE SQUARE BRACKET", 12315>>, <<"WAVE DASH", 12316>>,
    <<"REVERSED DOUBLE PRIME QUOTATION MARK", 12317>>, <<"DOUBLE PRIME QUOTATION MARK", 12318>>,
    <<"LOW DOUBLE PRIME QUOTATION MARK", 12319>>, <<"POSTAL MARK FACE", 12320>>,
    <<"HANGZHOU NUMERAL ONE", 12321>>, <<"HANGZHOU NUMERAL TWO", 12322>>,
    <<"HANGZHOU NUMERAL THREE", 12323>>, <<"HANGZHOU NUMERAL FOUR", 12324>>,
    <<"HANGZHOU NUMERAL FIVE", 12325>>, <<"HANGZHOU NUMERAL SIX", 12326>>,
    <<"HANGZHOU NUMERAL SEVEN", 12327>>, <<"HANGZHOU NUMERAL EIGHT", 12328>>,
    <<"HANGZHOU NUMERAL NINE", 12329>>, <<"IDEOGRAPHIC LEVEL TONE MARK", 12330>>,
    <<"IDEOGRAPHIC RISING TONE MARK", 12331>>, <<"IDEOGRAPHIC DEPARTING TONE MARK", 12332>>,
    <<"IDEOGRAPHIC ENTERING TONE MARK", 12333>>, <<"HANGUL SINGLE DOT TONE MARK", 12334>>,
    <<"HANGUL DOUBLE DOT TONE MARK", 12335>>, <<"WAVY DASH", 12336>>,
    <<"VERTICAL KANA REPEAT MARK", 12337>>, <<"VERTICAL KANA REPEAT WITH VOICED SOUND MARK", 12338>>,
    <<"VERTICAL KANA REPEAT MARK UPPER HALF", 12339>>,
    <<"VERTICAL KANA REPEAT WITH VOICED SOUND MARK UPPER HALF", 12340>>,
    <<"VERTICAL KANA REPEAT MARK LOWER HALF", 12341>>, <<"CIRCLED POSTAL MARK", 12342>>,
    <<"IDEOGRAPHIC TELEGRAPH LINE FEED SEPARATOR SYMBOL", 12343>>, <<"HANGZHOU NUMERAL TEN", 12344>>,
    <<"HANGZHOU NUMERAL TWENTY", 12345>>, <<"HANGZHOU NUMERAL THIRTY", 12346>>,
    <<"VERTICAL IDEOGRAPHIC ITERATION MARK", 12347>>, <<"MASU MARK", 12348>>,
    <<"PART ALTERNATION MARK", 12349>>, <<"IDEOGRAPHIC VARIATION INDICATOR", 12350>>,
    <<"IDEOGRAPHIC HALF FILL SPACE", 12351>>, <<"HIRAGANA LETTER SMALL A", 12353>>,
    <<"HIRAGANA LETTER A", 12354>>, <<"HIRAGANA LETTER SMALL I", 12355>>,
    <<"HIRAGANA LETTER I", 12356>>, <<"HIRAGANA LETTER SMALL U", 12357>>,
    <<"HIRAGANA LETTER U", 12358>>, <<"HIRAGANA LETTER SMALL E", 12359>>,
    <<"HIRAGANA LETTER E", 12360>>, <<"HIRAGANA LETTER SMALL O", 12361>>,
    <<"HIRAGANA LETTER O", 12362>>, <<"HIRAGANA LETTER KA", 12363>>, <<"HIRAGANA LETTER GA", 12364>>,
    <<"HIRAGANA LETTER KI", 12365>>, <<"HIRAGANA LETTER GI", 12366>>, <<"HIRAGANA LETTER KU", 12367>>,
    <<"HIRAGANA LETTER GU", 12368>>, <<"HIRAGANA LETTER KE", 12369>>, <<"HIRAGANA LETTER GE", 12370>>,
    <<"HIRAGANA LETTER KO", 12371>>, <<"HIRAGANA LETTER GO", 12372>>, <<"HIRAGANA LETTER SA", 12373>>,
    <<"HIRAGANA LETTER ZA", 12374>>, <<"HIRAGANA LETTER SI", 12375>>, <<"HIRAGANA LETTER ZI", 12376>>,
    <<"HIRAGANA LETTER SU", 12377>>, <<"HIRAGANA LETTER ZU", 12378>>, <<"HIRAGANA LETTER SE", 12379>>,
    <<"HIRAGANA LETTER ZE", 12380>>, <<"HIRAGANA LETTER SO", 12381>>, <<"HIRAGANA LETTER ZO", 12382>>,
    <<"HIRAGANA LETTER TA", 12383>>, <<"HIRAGANA LETTER DA", 12384>>, <<"HIRAGANA LETTER TI", 12385>>,
    <<"HIRAGANA LETTER DI", 12386>>, <<"HIRAGANA LETTER SMALL TU", 12387>>,
    <<"HIRAGANA LETTER TU", 12388>>, <<"HIRAGANA LETTER DU", 12389>>, <<"HIRAGANA LETTER TE", 12390>>,
    <<"HIRAGANA LETTER DE", 12391>>, <<"HIRAGANA LETTER TO", 12392>>, <<"HIRAGANA LETTER DO", 12393>>,
    <<"HIRAGANA LETTER NA", 12394>>, <<"HIRAGANA LETTER NI", 12395>>, <<"HIRAGANA LETTER NU", 12396>>,
    <<"HIRAGANA LETTER NE", 12397>>, <<"HIRAGANA LETTER NO", 12398>>, <<"HIRAGANA LETTER HA", 12399>>,
    <<"HIRAGANA LETTER BA", 12400>>, <<"HIRAGANA LETTER PA", 12401>>, <<"HIRAGANA LETTER HI", 12402>>,
    <<"HIRAGANA LETTER BI", 12403>>, <<"HIRAGANA LETTER PI", 12404>>, <<"HIRAGANA LETTER HU", 12405>>,
    <<"HIRAGANA LETTER BU", 12406>>, <<"HIRAGANA LETTER PU", 12407>>, <<"HIRAGANA LETTER HE", 12408>>,
    <<"HIRAGANA LETTER BE", 12409>>, <<"HIRAGANA LETTER PE", 12410>>, <<"HIRAGANA LETTER HO", 12411>>,
    <<"HIRAGANA LETTER BO", 12412>>, <<"HIRAGANA LETTER PO", 12413>>, <<"HIRAGANA LETTER MA", 12414>>,
    <<"HIRAGANA LETTER MI", 12415>>, <<"HIRAGANA LETTER MU", 12416>>, <<"HIRAGANA LETTER ME", 12417>>,
    <<"HIRAGANA LETTER MO", 12418>>, <<"HIRAGANA LETTER SMALL YA", 12419>>,
    <<"HIRAGANA LETTER YA", 12420>>, <<"HIRAGANA LETTER SMALL YU", 12421>>,
    <<"HIRAGANA LETTER YU", 12422>>, <<"HIRAGANA LETTER SMALL YO", 12423>>,
    <<"HIRAGANA LETTER YO", 12424>>, <<"HIRAGANA LETTER RA", 12425>>, <<"HIRAGANA LETTER RI", 12426>>,
    <<"HIRAGANA LETTER RU", 12427>>, <<"HIRAGANA LETTER RE", 12428>>, <<"HIRAGANA LETTER RO", 12429>>,
    <<"HIRAGANA LETTER SMALL WA", 12430>>, <<"HIRAGANA LETTER WA", 12431>>,
    <<"HIRAGANA LETTER WI", 12432>>, <<"HIRAGANA LETTER WE", 12433>>, <<"HIRAGANA LETTER WO", 12434>>,
    <<"HIRAGANA LETTER N", 12435>>, <<"HIRAGANA LETTER VU", 12436>>,
    <<"HIRAGANA LETTER SMALL KA", 12437>>, <<"HIRAGANA LETTER SMALL KE", 12438>>,
    <<"COMBINING KATAKANA-HIRAGANA VOICED SOUND MARK", 12441>>,
    <<"COMBINING KATAKANA-HIRAGANA SEMI-VOICED SOUND MARK", 12442>>,
    <<"KATAKANA-HIRAGANA VOICED SOUND MARK", 12443>>,
    <<"KATAKANA-HIRAGANA SEMI-VOICED SOUND MARK", 12444>>, <<"HIRAGANA ITERATION MARK", 12445>>,
    <<"HIRAGANA VOICED ITERATION MARK", 12446>>, <<"HIRAGANA DIGRAPH YORI", 12447>>,
    <<"KATAKANA-HIRAGANA DOUBLE HYPHEN", 12448>>, <<"KATAKANA LETTER SMALL A", 12449>>,
    <<"KATAKANA LETTER A", 12450>>, <<"KATAKANA LETTER SMALL I", 12451>>,
    <<"KATAKANA LETTER I", 12452>>, <<"KATAKANA LETTER SMALL U", 12453>>,
    <<"KATAKANA LETTER U", 12454>>, <<"KATAKANA LETTER SMALL E", 12455>>,
    <<"KATAKANA LETTER E", 12456>>, <<"KATAKANA LETTER SMALL O", 12457>>,
    <<"KATAKANA LETTER O", 12458>>, <<"KATAKANA LETTER KA", 12459>>, <<"KATAKANA LETTER GA", 12460>>,
    <<"KATAKANA LETTER KI", 12461>>, <<"KATAKANA LETTER GI", 12462>>, <<"KATAKANA LETTER KU", 12463>>,
    <<"KATAKANA LETTER GU", 12464>>, <<"KATAKANA LETTER KE", 12465>>, <<"KATAKANA LETTER GE", 12466>>,
    <<"KATAKANA LETTER KO", 12467>>, <<"KATAKANA LETTER GO", 12468>>, <<"KATAKANA LETTER SA", 12469>>,
    <<"KATAKANA LETTER ZA", 12470>>, <<"KATAKANA LETTER SI", 12471>>, <<"KATAKANA LETTER ZI", 12472>>,
    <<"KATAKANA LETTER SU", 12473>>, <<"KATAKANA LETTER ZU", 12474>>, <<"KATAKANA LETTER SE", 12475>>,
    <<"KATAKANA LETTER ZE", 12476>>, <<"KATAKANA LETTER SO", 12477>>, <<"KATAKANA LETTER ZO", 12478>>,
    <<"KATAKANA LETTER TA", 12479>>, <<"KATAKANA LETTER DA", 12480>>, <<"KATAKANA LETTER TI", 12481>>,
    <<"KATAKANA LETTER DI", 12482>>, <<"KATAKANA LETTER SMALL TU", 12483>>,
    <<"KATAKANA LETTER TU", 12484>>, <<"KATAKANA LETTER DU", 12485>>, <<"KATAKANA LETTER TE", 12486>>,
    <<"KATAKANA LETTER DE", 12487>>, <<"KATAKANA LETTER TO", 12488>>, <<"KATAKANA LETTER DO", 12489>>,
    <<"KATAKANA LETTER NA", 12490>>, <<"KATAKANA LETTER NI", 12491>>, <<"KATAKANA LETTER NU", 12492>>,
    <<"KATAKANA LETTER NE", 12493>>, <<"KATAKANA LETTER NO", 12494>>, <<"KATAKANA LETTER HA", 12495>>,
    <<"KATAKANA LETTER BA", 12496>>, <<"KATAKANA LETTER PA", 12497>>, <<"KATAKANA LETTER HI", 12498>>,
    <<"KATAKANA LETTER BI", 12499>>, <<"KATAKANA LETTER PI", 12500>>, <<"KATAKANA LETTER HU", 12501>>,
    <<"KATAKANA LETTER BU", 12502>>, <<"KATAKANA LETTER PU", 12503>>, <<"KATAKANA LETTER HE", 12504>>,
    <<"KATAKANA LETTER BE", 12505>>, <<"KATAKANA LETTER PE", 12506>>, <<"KATAKANA LETTER HO", 12507>>,
    <<"KATAKANA LETTER BO", 12508>>, <<"KATAKANA LETTER PO", 12509>>, <<"KATAKANA LETTER MA", 12510>>,
    <<"KATAKANA LETTER MI", 12511>>, <<"KATAKANA LETTER MU", 12512>>, <<"KATAKANA LETTER ME", 12513>>,
    <<"KATAKANA LETTER MO", 12514>>, <<"KATAKANA LETTER SMALL YA", 12515>>,
    <<"KATAKANA LETTER YA", 12516>>, <<"KATAKANA LETTER SMALL YU", 12517>>,
    <<"KATAKANA LETTER YU", 12518>>, <<"KATAKANA LETTER SMALL YO", 12519>>,
    <<"KATAKANA LETTER YO", 12520>>, <<"KATAKANA LETTER RA", 12521>>, <<"KATAKANA LETTER RI", 12522>>,
    <<"KATAKANA LETTER RU", 12523>>, <<"KATAKANA LETTER RE", 12524>>, <<"KATAKANA LETTER RO", 12525>>,
    <<"KATAKANA LETTER SMALL WA", 12526>>, <<"KATAKANA LETTER WA", 12527>>,
    <<"KATAKANA LETTER WI", 12528>>, <<"KATAKANA LETTER WE", 12529>>, <<"KATAKANA LETTER WO", 12530>>,
    <<"KATAKANA LETTER N", 12531>>, <<"KATAKANA LETTER VU", 12532>>,
    <<"KATAKANA LETTER SMALL KA", 12533>>, <<"KATAKANA LETTER SMALL KE", 12534>>,
    <<"KATAKANA LETTER VA", 12535>>, <<"KATAKANA LETTER VI", 12536>>, <<"KATAKANA LETTER VE", 12537>>,
    <<"KATAKANA LETTER VO", 12538>>, <<"KATAKANA MIDDLE DOT", 12539>>,
    <<"KATAKANA-HIRAGANA PROLONGED SOUND MARK", 12540>>, <<"KATAKANA ITERATION MARK", 12541>>,
    <<"KATAKANA VOICED ITERATION MARK", 12542>>, <<"KATAKANA DIGRAPH KOTO", 12543>>,
    <<"BOPOMOFO LETTER B", 12549>>, <<"BOPOMOFO LETTER P", 12550>>, <<"BOPOMOFO LETTER M", 12551>>,
    <<"BOPOMOFO LETTER F", 12552>>, <<"BOPOMOFO LETTER D", 12553>>, <<"BOPOMOFO LETTER T", 12554>>,
    <<"BOPOMOFO LETTER N", 12555>>, <<"BOPOMOFO LETTER L", 12556>>, <<"BOPOMOFO LETTER G", 12557>>,
    <<"BOPOMOFO LETTER K", 12558>>, <<"BOPOMOFO LETTER H", 12559>>, <<"BOPOMOFO LETTER J", 12560>>,
    <<"BOPOMOFO LETTER Q", 12561>>, <<"BOPOMOFO LETTER X", 12562>>, <<"BOPOMOFO LETTER ZH", 12563>>,
    <<"BOPOMOFO LETTER CH", 12564>>, <<"BOPOMOFO LETTER SH", 12565>>, <<"BOPOMOFO LETTER R", 12566>>,
    <<"BOPOMOFO LETTER Z", 12567>>, <<"BOPOMOFO LETTER C", 12568>>, <<"BOPOMOFO LETTER S", 12569>>,
    <<"BOPOMOFO LETTER A", 12570>>, <<"BOPOMOFO LETTER O", 12571>>, <<"BOPOMOFO LETTER E", 12572>>,
    <<"BOPOMOFO LETTER EH", 12573>>, <<"BOPOMOFO LETTER AI", 12574>>, <<"BOPOMOFO LETTER EI", 12575>>,
    <<"BOPOMOFO LETTER AU", 12576>>, <<"BOPOMOFO LETTER OU", 12577>>, <<"BOPOMOFO LETTER AN", 12578>>,
    <<"BOPOMOFO LETTER EN", 12579>>, <<"BOPOMOFO LETTER ANG", 12580>>,
    <<"BOPOMOFO LETTER ENG", 12581>>, <<"BOPOMOFO LETTER ER", 12582>>, <<"BOPOMOFO LETTER I", 12583>>,
    <<"BOPOMOFO LETTER U", 12584>>, <<"BOPOMOFO LETTER IU", 12585>>, <<"BOPOMOFO LETTER V", 12586>>,
    <<"BOPOMOFO LETTER NG", 12587>>, <<"BOPOMOFO LETTER GN", 12588>>, <<"BOPOMOFO LETTER IH", 12589>>,
    <<"BOPOMOFO LETTER O WITH DOT ABOVE", 12590>>, <<"BOPOMOFO LETTER NN", 12591>>,
    <<"HANGUL LETTER KIYEOK", 12593>>, <<"HANGUL LETTER SSANGKIYEOK", 12594>>,
    <<"HANGUL LETTER KIYEOK-SIOS", 12595>>, <<"HANGUL LETTER NIEUN", 12596>>,
    <<"HANGUL LETTER NIEUN-CIEUC", 12597>>, <<"HANGUL LETTER NIEUN-HIEUH", 12598>>,
    <<"HANGUL LETTER TIKEUT", 12599>>, <<"HANGUL LETTER SSANGTIKEUT", 12600>>,
    <<"HANGUL LETTER RIEUL", 12601>>, <<"HANGUL LETTER RIEUL-KIYEOK", 12602>>,
    <<"HANGUL LETTER RIEUL-MIEUM", 12603>>, <<"HANGUL LETTER RIEUL-PIEUP", 12604>>,
    <<"HANGUL LETTER RIEUL-SIOS", 12605>>, <<"HANGUL LETTER RIEUL-THIEUTH", 12606>>,
    <<"HANGUL LETTER RIEUL-PHIEUPH", 12607>>, <<"HANGUL LETTER RIEUL-HIEUH", 12608>>,
    <<"HANGUL LETTER MIEUM", 12609>>, <<"HANGUL LETTER PIEUP", 12610>>,
    <<"HANGUL LETTER SSANGPIEUP", 12611>>, <<"HANGUL LETTER PIEUP-SIOS", 12612>>,
    <<"HANGUL LETTER SIOS", 12613>>, <<"HANGUL LETTER SSANGSIOS", 12614>>,
    <<"HANGUL LETTER IEUNG", 12615>>, <<"HANGUL LETTER CIEUC", 12616>>,
    <<"HANGUL LETTER SSANGCIEUC", 12617>>, <<"HANGUL LETTER CHIEUCH", 12618>>,
    <<"HANGUL LETTER KHIEUKH", 12619>>, <<"HANGUL LETTER THIEUTH", 12620>>,
    <<"HANGUL LETTER PHIEUPH", 12621>>, <<"HANGUL LETTER HIEUH", 12622>>, <<"HANGUL LETTER A", 12623>>,
    <<"HANGUL LETTER AE", 12624>>, <<"HANGUL LETTER YA", 12625>>, <<"HANGUL LETTER YAE", 12626>>,
    <<"HANGUL LETTER EO", 12627>>, <<"HANGUL LETTER E", 12628>>, <<"HANGUL LETTER YEO", 12629>>,
    <<"HANGUL LETTER YE", 12630>>, <<"HANGUL LETTER O", 12631>>, <<"HANGUL LETTER WA", 12632>>,
    <<"HANGUL LETTER WAE", 12633>>, <<"HANGUL LETTER OE", 12634>>, <<"HANGUL LETTER YO", 12635>>,
    <<"HANGUL LETTER U", 12636>>, <<"HANGUL LETTER WEO", 12637>>, <<"HANGUL LETTER WE", 12638>>,
    <<"HANGUL LETTER WI", 12639>>, <<"HANGUL LETTER YU", 12640>>, <<"HANGUL LETTER EU", 12641>>,
    <<"HANGUL LETTER YI", 12642>>, <<"HANGUL LETTER I", 12643>>, <<"HANGUL FILLER", 12644>>,
    <<"HANGUL LETTER SSANGNIEUN", 12645>>, <<"HANGUL LETTER NIEUN-TIKEUT", 12646>>,
    <<"HANGUL LETTER NIEUN-SIOS", 12647>>, <<"HANGUL LETTER NIEUN-PANSIOS", 12648>>,
    <<"HANGUL LETTER RIEUL-KIYEOK-SIOS", 12649>>, <<"HANGUL LETTER RIEUL-TIKEUT", 12650>>,
    <<"HANGUL LETTER RIEUL-PIEUP-SIOS", 12651>>, <<"HANGUL LETTER RIEUL-PANSIOS", 12652>>,
    <<"HANGUL LETTER RIEUL-YEORINHIEUH", 12653>>, <<"HANGUL LETTER MIEUM-PIEUP", 12654>>,
    <<"HANGUL LETTER MIEUM-SIOS", 12655>>, <<"HANGUL LETTER MIEUM-PANSIOS", 12656>>,
    <<"HANGUL LETTER KAPYEOUNMIEUM", 12657>>, <<"HANGUL LETTER PIEUP-KIYEOK", 12658>>,
    <<"HANGUL LETTER PIEUP-TIKEUT", 12659>>, <<"HANGUL LETTER PIEUP-SIOS-KIYEOK", 12660>>,
    <<"HANGUL LETTER PIEUP-SIOS-TIKEUT", 12661>>, <<"HANGUL LETTER PIEUP-CIEUC", 12662>>,
    <<"HANGUL LETTER PIEUP-THIEUTH", 12663>>, <<"HANGUL LETTER KAPYEOUNPIEUP", 12664>>,
    <<"HANGUL LETTER KAPYEOUNSSANGPIEUP", 12665>>, <<"HANGUL LETTER SIOS-KIYEOK", 12666>>,
    <<"HANGUL LETTER SIOS-NIEUN", 12667>>, <<"HANGUL LETTER SIOS-TIKEUT", 12668>>,
    <<"HANGUL LETTER SIOS-PIEUP", 12669>>, <<"HANGUL LETTER SIOS-CIEUC", 12670>>,
    <<"HANGUL LETTER PANSIOS", 12671>>, <<"HANGUL LETTER SSANGIEUNG", 12672>>,
    <<"HANGUL LETTER YESIEUNG", 12673>>, <<"HANGUL LETTER YESIEUNG-SIOS", 12674>>,
    <<"HANGUL LETTER YESIEUNG-PANSIOS", 12675>>, <<"HANGUL LETTER KAPYEOUNPHIEUPH", 12676>>,
    <<"HANGUL LETTER SSANGHIEUH", 12677>>, <<"HANGUL LETTER YEORINHIEUH", 12678>>,
    <<"HANGUL LETTER YO-YA", 12679>>, <<"HANGUL LETTER YO-YAE", 12680>>,
    <<"HANGUL LETTER YO-I", 12681>>, <<"HANGUL LETTER YU-YEO", 12682>>,
    <<"HANGUL LETTER YU-YE", 12683>>, <<"HANGUL LETTER YU-I", 12684>>,
    <<"HANGUL LETTER ARAEA", 12685>>, <<"HANGUL LETTER ARAEAE", 12686>>,
    <<"IDEOGRAPHIC ANNOTATION LINKING MARK", 12688>>, <<"IDEOGRAPHIC ANNOTATION REVERSE MARK", 12689>>,
    <<"IDEOGRAPHIC ANNOTATION ONE MARK", 12690>>, <<"IDEOGRAPHIC ANNOTATION TWO MARK", 12691>>,
    <<"IDEOGRAPHIC ANNOTATION THREE MARK", 12692>>, <<"IDEOGRAPHIC ANNOTATION FOUR MARK", 12693>>,
    <<"IDEOGRAPHIC ANNOTATION TOP MARK", 12694>>, <<"IDEOGRAPHIC ANNOTATION MIDDLE MARK", 12695>>,
    <<"IDEOGRAPHIC ANNOTATION BOTTOM MARK", 12696>>, <<"IDEOGRAPHIC ANNOTATION FIRST MARK", 12697>>,
    <<"IDEOGRAPHIC ANNOTATION SECOND MARK", 12698>>, <<"IDEOGRAPHIC ANNOTATION THIRD MARK", 12699>>,
    <<"IDEOGRAPHIC ANNOTATION FOURTH MARK", 12700>>, <<"IDEOGRAPHIC ANNOTATION HEAVEN MARK", 12701>>,
    <<"IDEOGRAPHIC ANNOTATION EARTH MARK", 12702>>, <<"IDEOGRAPHIC ANNOTATION MAN MARK", 12703>>,
    <<"BOPOMOFO LETTER BU", 12704>>, <<"BOPOMOFO LETTER ZI", 12705>>, <<"BOPOMOFO LETTER JI", 12706>>,
    <<"BOPOMOFO LETTER GU", 12707>>, <<"BOPOMOFO LETTER EE", 12708>>, <<"BOPOMOFO LETTER ENN", 12709>>,
    <<"BOPOMOFO LETTER OO", 12710>>, <<"BOPOMOFO LETTER ONN", 12711>>, <<"BOPOMOFO LETTER IR", 12712>>,
    <<"BOPOMOFO LETTER ANN", 12713>>, <<"BOPOMOFO LETTER INN", 12714>>,
    <<"BOPOMOFO LETTER UNN", 12715>>, <<"BOPOMOFO LETTER IM", 12716>>,
    <<"BOPOMOFO LETTER NGG", 12717>>, <<"BOPOMOFO LETTER AINN", 12718>>,
    <<"BOPOMOFO LETTER AUNN", 12719>>, <<"BOPOMOFO LETTER AM", 12720>>,
    <<"BOPOMOFO LETTER OM", 12721>>, <<"BOPOMOFO LETTER ONG", 12722>>,
    <<"BOPOMOFO LETTER INNN", 12723>>, <<"BOPOMOFO FINAL LETTER P", 12724>>,
    <<"BOPOMOFO FINAL LETTER T", 12725>>, <<"BOPOMOFO FINAL LETTER K", 12726>>,
    <<"BOPOMOFO FINAL LETTER H", 12727>>, <<"BOPOMOFO LETTER GH", 12728>>,
    <<"BOPOMOFO LETTER LH", 12729>>, <<"BOPOMOFO LETTER ZY", 12730>>,
    <<"BOPOMOFO FINAL LETTER G", 12731>>, <<"BOPOMOFO LETTER GW", 12732>>,
    <<"BOPOMOFO LETTER KW", 12733>>, <<"BOPOMOFO LETTER OE", 12734>>, <<"BOPOMOFO LETTER AH", 12735>>,
    <<"CJK STROKE T", 12736>>, <<"CJK STROKE WG", 12737>>, <<"CJK STROKE XG", 12738>>,
    <<"CJK STROKE BXG", 12739>>, <<"CJK STROKE SW", 12740>>, <<"CJK STROKE HZZ", 12741>>,
    <<"CJK STROKE HZG", 12742>>, <<"CJK STROKE HP", 12743>>, <<"CJK STROKE HZWG", 12744>>,
    <<"CJK STROKE SZWG", 12745>>, <<"CJK STROKE HZT", 12746>>, <<"CJK STROKE HZZP", 12747>>,
    <<"CJK STROKE HPWG", 12748>>, <<"CJK STROKE HZW", 12749>>, <<"CJK STROKE HZZZ", 12750>>,
    <<"CJK STROKE N", 12751>>, <<"CJK STROKE H", 12752>>, <<"CJK STROKE S", 12753>>,
    <<"CJK STROKE P", 12754>>, <<"CJK STROKE SP", 12755>>, <<"CJK STROKE D", 12756>>,
    <<"CJK STROKE HZ", 12757>>, <<"CJK STROKE HG", 12758>>, <<"CJK STROKE SZ", 12759>>,
    <<"CJK STROKE SWZ", 12760>>, <<"CJK STROKE ST", 12761>>, <<"CJK STROKE SG", 12762>>,
    <<"CJK STROKE PD", 12763>>, <<"CJK STROKE PZ", 12764>>, <<"CJK STROKE TN", 12765>>,
    <<"CJK STROKE SZZ", 12766>>, <<"CJK STROKE SWG", 12767>>, <<"CJK STROKE HXWG", 12768>>,
    <<"CJK STROKE HZZZG", 12769>>, <<"CJK STROKE PG", 12770>>, <<"CJK STROKE Q", 12771>>,
    <<"KATAKANA LETTER SMALL KU", 12784>>, <<"KATAKANA LETTER SMALL SI", 12785>>,
    <<"KATAKANA LETTER SMALL SU", 12786>>, <<"KATAKANA LETTER SMALL TO", 12787>>,
    <<"KATAKANA LETTER SMALL NU", 12788>>, <<"KATAKANA LETTER SMALL HA", 12789>>,
    <<"KATAKANA LETTER SMALL HI", 12790>>, <<"KATAKANA LETTER SMALL HU", 12791>>,
    <<"KATAKANA LETTER SMALL HE", 12792>>, <<"KATAKANA LETTER SMALL HO", 12793>>,
    <<"KATAKANA LETTER SMALL MU", 12794>>, <<"KATAKANA LETTER SMALL RA", 12795>>,
    <<"KATAKANA LETTER SMALL RI", 12796>>, <<"KATAKANA LETTER SMALL RU", 12797>>,
    <<"KATAKANA LETTER SMALL RE", 12798>>, <<"KATAKANA LETTER SMALL RO", 12799>>,
    <<"PARENTHESIZED HANGUL KIYEOK", 12800>>, <<"PARENTHESIZED HANGUL NIEUN", 12801>>,
    <<"PARENTHESIZED HANGUL TIKEUT", 12802>>, <<"PARENTHESIZED HANGUL RIEUL", 12803>>,
    <<"PARENTHESIZED HANGUL MIEUM", 12804>>, <<"PARENTHESIZED HANGUL PIEUP", 12805>>,
    <<"PARENTHESIZED HANGUL SIOS", 12806>>, <<"PARENTHESIZED HANGUL IEUNG", 12807>>,
    <<"PARENTHESIZED HANGUL CIEUC", 12808>>, <<"PARENTHESIZED HANGUL CHIEUCH", 12809>>,
    <<"PARENTHESIZED HANGUL KHIEUKH", 12810>>, <<"PARENTHESIZED HANGUL THIEUTH", 12811>>,
    <<"PARENTHESIZED HANGUL PHIEUPH", 12812>>, <<"PARENTHESIZED HANGUL HIEUH", 12813>>,
    <<"PARENTHESIZED HANGUL KIYEOK A", 12814>>, <<"PARENTHESIZED HANGUL NIEUN A", 12815>>,
    <<"PARENTHESIZED HANGUL TIKEUT A", 12816>>, <<"PARENTHESIZED HANGUL RIEUL A", 12817>>,
    <<"PARENTHESIZED HANGUL MIEUM A", 12818>>, <<"PARENTHESIZED HANGUL PIEUP A", 12819>>,
    <<"PARENTHESIZED HANGUL SIOS A", 12820>>, <<"PARENTHESIZED HANGUL IEUNG A", 12821>>,
    <<"PARENTHESIZED HANGUL CIEUC A", 12822>>, <<"PARENTHESIZED HANGUL CHIEUCH A", 12823>>,
    <<"PARENTHESIZED HANGUL KHIEUKH A", 12824>>, <<"PARENTHESIZED HANGUL THIEUTH A", 12825>>,
    <<"PARENTHESIZED HANGUL PHIEUPH A", 12826>>, <<"PARENTHESIZED HANGUL HIEUH A", 12827>>,
    <<"PARENTHESIZED HANGUL CIEUC U", 12828>>, <<"PARENTHESIZED KOREAN CHARACTER OJEON", 12829>>,
    <<"PARENTHESIZED KOREAN CHARACTER O HU", 12830>>, <<"PARENTHESIZED IDEOGRAPH ONE", 12832>>,
    <<"PARENTHESIZED IDEOGRAPH TWO", 12833>>, <<"PARENTHESIZED IDEOGRAPH THREE", 12834>>,
    <<"PARENTHESIZED IDEOGRAPH FOUR", 12835>>, <<"PARENTHESIZED IDEOGRAPH FIVE", 12836>>,
    <<"PARENTHESIZED IDEOGRAPH SIX", 12837>>, <<"PARENTHESIZED IDEOGRAPH SEVEN", 12838>>,
    <<"PARENTHESIZED IDEOGRAPH EIGHT", 12839>>, <<"PARENTHESIZED IDEOGRAPH NINE", 12840>>,
    <<"PARENTHESIZED IDEOGRAPH TEN", 12841>>, <<"PARENTHESIZED IDEOGRAPH MOON", 12842>>,
    <<"PARENTHESIZED IDEOGRAPH FIRE", 12843>>, <<"PARENTHESIZED IDEOGRAPH WATER", 12844>>,
    <<"PARENTHESIZED IDEOGRAPH WOOD", 12845>>, <<"PARENTHESIZED IDEOGRAPH METAL", 12846>>,
    <<"PARENTHESIZED IDEOGRAPH EARTH", 12847>>, <<"PARENTHESIZED IDEOGRAPH SUN", 12848>>,
    <<"PARENTHESIZED IDEOGRAPH STOCK", 12849>>, <<"PARENTHESIZED IDEOGRAPH HAVE", 12850>>,
    <<"PARENTHESIZED IDEOGRAPH SOCIETY", 12851>>, <<"PARENTHESIZED IDEOGRAPH NAME", 12852>>,
    <<"PARENTHESIZED IDEOGRAPH SPECIAL", 12853>>, <<"PARENTHESIZED IDEOGRAPH FINANCIAL", 12854>>,
    <<"PARENTHESIZED IDEOGRAPH CONGRATULATION", 12855>>, <<"PARENTHESIZED IDEOGRAPH LABOR", 12856>>,
    <<"PARENTHESIZED IDEOGRAPH REPRESENT", 12857>>, <<"PARENTHESIZED IDEOGRAPH CALL", 12858>>,
    <<"PARENTHESIZED IDEOGRAPH STUDY", 12859>>, <<"PARENTHESIZED IDEOGRAPH SUPERVISE", 12860>>,
    <<"PARENTHESIZED IDEOGRAPH ENTERPRISE", 12861>>, <<"PARENTHESIZED IDEOGRAPH RESOURCE", 12862>>,
    <<"PARENTHESIZED IDEOGRAPH ALLIANCE", 12863>>, <<"PARENTHESIZED IDEOGRAPH FESTIVAL", 12864>>,
    <<"PARENTHESIZED IDEOGRAPH REST", 12865>>, <<"PARENTHESIZED IDEOGRAPH SELF", 12866>>,
    <<"PARENTHESIZED IDEOGRAPH REACH", 12867>>, <<"CIRCLED IDEOGRAPH QUESTION", 12868>>,
    <<"CIRCLED IDEOGRAPH KINDERGARTEN", 12869>>, <<"CIRCLED IDEOGRAPH SCHOOL", 12870>>,
    <<"CIRCLED IDEOGRAPH KOTO", 12871>>, <<"CIRCLED NUMBER TEN ON BLACK SQUARE", 12872>>,
    <<"CIRCLED NUMBER TWENTY ON BLACK SQUARE", 12873>>,
    <<"CIRCLED NUMBER THIRTY ON BLACK SQUARE", 12874>>,
    <<"CIRCLED NUMBER FORTY ON BLACK SQUARE", 12875>>,
    <<"CIRCLED NUMBER FIFTY ON BLACK SQUARE", 12876>>,
    <<"CIRCLED NUMBER SIXTY ON BLACK SQUARE", 12877>>,
    <<"CIRCLED NUMBER SEVENTY ON BLACK SQUARE", 12878>>,
    <<"CIRCLED NUMBER EIGHTY ON BLACK SQUARE", 12879>>, <<"PARTNERSHIP SIGN", 12880>>,
    <<"CIRCLED NUMBER TWENTY ONE", 12881>>, <<"CIRCLED NUMBER TWENTY TWO", 12882>>,
    <<"CIRCLED NUMBER TWENTY THREE", 12883>>, <<"CIRCLED NUMBER TWENTY FOUR", 12884>>,
    <<"CIRCLED NUMBER TWENTY FIVE", 12885>>, <<"CIRCLED NUMBER TWENTY SIX", 12886>>,
    <<"CIRCLED NUMBER TWENTY SEVEN", 12887>>, <<"CIRCLED NUMBER TWENTY EIGHT", 12888>>,
    <<"CIRCLED NUMBER TWENTY NINE", 12889>>, <<"CIRCLED NUMBER THIRTY", 12890>>,
    <<"CIRCLED NUMBER THIRTY ONE", 12891>>, <<"CIRCLED NUMBER THIRTY TWO", 12892>>,
    <<"CIRCLED NUMBER THIRTY THREE", 12893>>, <<"CIRCLED NUMBER THIRTY FOUR", 12894>>,
    <<"CIRCLED NUMBER THIRTY FIVE", 12895>>, <<"CIRCLED HANGUL KIYEOK", 12896>>,
    <<"CIRCLED HANGUL NIEUN", 12897>>, <<"CIRCLED HANGUL TIKEUT", 12898>>,
    <<"CIRCLED HANGUL RIEUL", 12899>>, <<"CIRCLED HANGUL MIEUM", 12900>>,
    <<"CIRCLED HANGUL PIEUP", 12901>>, <<"CIRCLED HANGUL SIOS", 12902>>,
    <<"CIRCLED HANGUL IEUNG", 12903>>, <<"CIRCLED HANGUL CIEUC", 12904>>,
    <<"CIRCLED HANGUL CHIEUCH", 12905>>, <<"CIRCLED HANGUL KHIEUKH", 12906>>,
    <<"CIRCLED HANGUL THIEUTH", 12907>>, <<"CIRCLED HANGUL PHIEUPH", 12908>>,
    <<"CIRCLED HANGUL HIEUH", 12909>>, <<"CIRCLED HANGUL KIYEOK A", 12910>>,
    <<"CIRCLED HANGUL NIEUN A", 12911>>, <<"CIRCLED HANGUL TIKEUT A", 12912>>,
    <<"CIRCLED HANGUL RIEUL A", 12913>>, <<"CIRCLED HANGUL MIEUM A", 12914>>,
    <<"CIRCLED HANGUL PIEUP A", 12915>>, <<"CIRCLED HANGUL SIOS A", 12916>>,
    <<"CIRCLED HANGUL IEUNG A", 12917>>, <<"CIRCLED HANGUL CIEUC A", 12918>>,
    <<"CIRCLED HANGUL CHIEUCH A", 12919>>, <<"CIRCLED HANGUL KHIEUKH A", 12920>>,
    <<"CIRCLED HANGUL THIEUTH A", 12921>>, <<"CIRCLED HANGUL PHIEUPH A", 12922>>,
    <<"CIRCLED HANGUL HIEUH A", 12923>>, <<"CIRCLED KOREAN CHARACTER CHAMKO", 12924>>,
    <<"CIRCLED KOREAN CHARACTER JUEUI", 12925>>, <<"CIRCLED HANGUL IEUNG U", 12926>>,
    <<"KOREAN STANDARD SYMBOL", 12927>>, <<"CIRCLED IDEOGRAPH ONE", 12928>>,
    <<"CIRCLED IDEOGRAPH TWO", 12929>>, <<"CIRCLED IDEOGRAPH THREE", 12930>>,
    <<"CIRCLED IDEOGRAPH FOUR", 12931>>, <<"CIRCLED IDEOGRAPH FIVE", 12932>>,
    <<"CIRCLED IDEOGRAPH SIX", 12933>>, <<"CIRCLED IDEOGRAPH SEVEN", 12934>>,
    <<"CIRCLED IDEOGRAPH EIGHT", 12935>>, <<"CIRCLED IDEOGRAPH NINE", 12936>>,
    <<"CIRCLED IDEOGRAPH TEN", 12937>>, <<"CIRCLED IDEOGRAPH MOON", 12938>>,
    <<"CIRCLED IDEOGRAPH FIRE", 12939>>, <<"CIRCLED IDEOGRAPH WATER", 12940>>,
    <<"CIRCLED IDEOGRAPH WOOD", 12941>>, <<"CIRCLED IDEOGRAPH METAL", 12942>>,
    <<"CIRCLED IDEOGRAPH EARTH", 12943>>, <<"CIRCLED IDEOGRAPH SUN", 12944>>,
    <<"CIRCLED IDEOGRAPH STOCK", 12945>>, <<"CIRCLED IDEOGRAPH HAVE", 12946>>,
    <<"CIRCLED IDEOGRAPH SOCIETY", 12947>>, <<"CIRCLED IDEOGRAPH NAME", 12948>>,
    <<"CIRCLED IDEOGRAPH SPECIAL", 12949>>, <<"CIRCLED IDEOGRAPH FINANCIAL", 12950>>,
    <<"CIRCLED IDEOGRAPH CONGRATULATION", 12951>>, <<"CIRCLED IDEOGRAPH LABOR", 12952>>,
    <<"CIRCLED IDEOGRAPH SECRET", 12953>>, <<"CIRCLED IDEOGRAPH MALE", 12954>>,
    <<"CIRCLED IDEOGRAPH FEMALE", 12955>>, <<"CIRCLED IDEOGRAPH SUITABLE", 12956>>,
    <<"CIRCLED IDEOGRAPH EXCELLENT", 12957>>, <<"CIRCLED IDEOGRAPH PRINT", 12958>>,
    <<"CIRCLED IDEOGRAPH ATTENTION", 12959>>, <<"CIRCLED IDEOGRAPH ITEM", 12960>>,
    <<"CIRCLED IDEOGRAPH REST", 12961>>, <<"CIRCLED IDEOGRAPH COPY", 12962>>,
    <<"CIRCLED IDEOGRAPH CORRECT", 12963>>, <<"CIRCLED IDEOGRAPH HIGH", 12964>>,
    <<"CIRCLED IDEOGRAPH CENTRE", 12965>>, <<"CIRCLED IDEOGRAPH LOW", 12966>>,
    <<"CIRCLED IDEOGRAPH LEFT", 12967>>, <<"CIRCLED IDEOGRAPH RIGHT", 12968>>,
    <<"CIRCLED IDEOGRAPH MEDICINE", 12969>>, <<"CIRCLED IDEOGRAPH RELIGION", 12970>>,
    <<"CIRCLED IDEOGRAPH STUDY", 12971>>, <<"CIRCLED IDEOGRAPH SUPERVISE", 12972>>,
    <<"CIRCLED IDEOGRAPH ENTERPRISE", 12973>>, <<"CIRCLED IDEOGRAPH RESOURCE", 12974>>,
    <<"CIRCLED IDEOGRAPH ALLIANCE", 12975>>, <<"CIRCLED IDEOGRAPH NIGHT", 12976>>,
    <<"CIRCLED NUMBER THIRTY SIX", 12977>>, <<"CIRCLED NUMBER THIRTY SEVEN", 12978>>,
    <<"CIRCLED NUMBER THIRTY EIGHT", 12979>>, <<"CIRCLED NUMBER THIRTY NINE", 12980>>,
    <<"CIRCLED NUMBER FORTY", 12981>>, <<"CIRCLED NUMBER FORTY ONE", 12982>>,
    <<"CIRCLED NUMBER FORTY TWO", 12983>>, <<"CIRCLED NUMBER FORTY THREE", 12984>>,
    <<"CIRCLED NUMBER FORTY FOUR", 12985>>, <<"CIRCLED NUMBER FORTY FIVE", 12986>>,
    <<"CIRCLED NUMBER FORTY SIX", 12987>>, <<"CIRCLED NUMBER FORTY SEVEN", 12988>>,
    <<"CIRCLED NUMBER FORTY EIGHT", 12989>>, <<"CIRCLED NUMBER FORTY NINE", 12990>>,
    <<"CIRCLED NUMBER FIFTY", 12991>>, <<"IDEOGRAPHIC TELEGRAPH SYMBOL FOR JANUARY", 12992>>,
    <<"IDEOGRAPHIC TELEGRAPH SYMBOL FOR FEBRUARY", 12993>>,
    <<"IDEOGRAPHIC TELEGRAPH SYMBOL FOR MARCH", 12994>>,
    <<"IDEOGRAPHIC TELEGRAPH SYMBOL FOR APRIL", 12995>>,
    <<"IDEOGRAPHIC TELEGRAPH SYMBOL FOR MAY", 12996>>,
    <<"IDEOGRAPHIC TELEGRAPH SYMBOL FOR JUNE", 12997>>,
    <<"IDEOGRAPHIC TELEGRAPH SYMBOL FOR JULY", 12998>>,
    <<"IDEOGRAPHIC TELEGRAPH SYMBOL FOR AUGUST", 12999>>,
    <<"IDEOGRAPHIC TELEGRAPH SYMBOL FOR SEPTEMBER", 13000>>,
    <<"IDEOGRAPHIC TELEGRAPH SYMBOL FOR OCTOBER", 13001>>,
    <<"IDEOGRAPHIC TELEGRAPH SYMBOL FOR NOVEMBER", 13002>>,
    <<"IDEOGRAPHIC TELEGRAPH SYMBOL FOR DECEMBER", 13003>>, <<"SQUARE HG", 13004>>,
    <<"SQUARE ERG", 13005>>, <<"SQUARE EV", 13006>>, <<"LIMITED LIABILITY SIGN", 13007>>,
    <<"CIRCLED KATAKANA A", 13008>>, <<"CIRCLED KATAKANA I", 13009>>, <<"CIRCLED KATAKANA U", 13010>>,
    <<"CIRCLED KATAKANA E", 13011>>, <<"CIRCLED KATAKANA O", 13012>>, <<"CIRCLED KATAKANA KA", 13013>>,
    <<"CIRCLED KATAKANA KI", 13014>>, <<"CIRCLED KATAKANA KU", 13015>>,
    <<"CIRCLED KATAKANA KE", 13016>>, <<"CIRCLED KATAKANA KO", 13017>>,
    <<"CIRCLED KATAKANA SA", 13018>>, <<"CIRCLED KATAKANA SI", 13019>>,
    <<"CIRCLED KATAKANA SU", 13020>>, <<"CIRCLED KATAKANA SE", 13021>>,
    <<"CIRCLED KATAKANA SO", 13022>>, <<"CIRCLED KATAKANA TA", 13023>>,
    <<"CIRCLED KATAKANA TI", 13024>>, <<"CIRCLED KATAKANA TU", 13025>>,
    <<"CIRCLED KATAKANA TE", 13026>>, <<"CIRCLED KATAKANA TO", 13027>>,
    <<"CIRCLED KATAKANA NA", 13028>>, <<"CIRCLED KATAKANA NI", 13029>>,
    <<"CIRCLED KATAKANA NU", 13030>>, <<"CIRCLED KATAKANA NE", 13031>>,
    <<"CIRCLED KATAKANA NO", 13032>>, <<"CIRCLED KATAKANA HA", 13033>>,
    <<"CIRCLED KATAKANA HI", 13034>>, <<"CIRCLED KATAKANA HU", 13035>>,
    <<"CIRCLED KATAKANA HE", 13036>>, <<"CIRCLED KATAKANA HO", 13037>>,
    <<"CIRCLED KATAKANA MA", 13038>>, <<"CIRCLED KATAKANA MI", 13039>>,
    <<"CIRCLED KATAKANA MU", 13040>>, <<"CIRCLED KATAKANA ME", 13041>>,
    <<"CIRCLED KATAKANA MO", 13042>>, <<"CIRCLED KATAKANA YA", 13043>>,
    <<"CIRCLED KATAKANA YU", 13044>>, <<"CIRCLED KATAKANA YO", 13045>>,
    <<"CIRCLED KATAKANA RA", 13046>>, <<"CIRCLED KATAKANA RI", 13047>>,
    <<"CIRCLED KATAKANA RU", 13048>>, <<"CIRCLED KATAKANA RE", 13049>>,
    <<"CIRCLED KATAKANA RO", 13050>>, <<"CIRCLED KATAKANA WA", 13051>>,
    <<"CIRCLED KATAKANA WI", 13052>>, <<"CIRCLED KATAKANA WE", 13053>>,
    <<"CIRCLED KATAKANA WO", 13054>>, <<"SQUARE ERA NAME REIWA", 13055>>, <<"SQUARE APAATO", 13056>>,
    <<"SQUARE ARUHUA", 13057>>, <<"SQUARE ANPEA", 13058>>, <<"SQUARE AARU", 13059>>,
    <<"SQUARE ININGU", 13060>>, <<"SQUARE INTI", 13061>>, <<"SQUARE UON", 13062>>,
    <<"SQUARE ESUKUUDO", 13063>>, <<"SQUARE EEKAA", 13064>>, <<"SQUARE ONSU", 13065>>,
    <<"SQUARE OOMU", 13066>>, <<"SQUARE KAIRI", 13067>>, <<"SQUARE KARATTO", 13068>>,
    <<"SQUARE KARORII", 13069>>, <<"SQUARE GARON", 13070>>, <<"SQUARE GANMA", 13071>>,
    <<"SQUARE GIGA", 13072>>, <<"SQUARE GINII", 13073>>, <<"SQUARE KYURII", 13074>>,
    <<"SQUARE GIRUDAA", 13075>>, <<"SQUARE KIRO", 13076>>, <<"SQUARE KIROGURAMU", 13077>>,
    <<"SQUARE KIROMEETORU", 13078>>, <<"SQUARE KIROWATTO", 13079>>, <<"SQUARE GURAMU", 13080>>,
    <<"SQUARE GURAMUTON", 13081>>, <<"SQUARE KURUZEIRO", 13082>>, <<"SQUARE KUROONE", 13083>>,
    <<"SQUARE KEESU", 13084>>, <<"SQUARE KORUNA", 13085>>, <<"SQUARE KOOPO", 13086>>,
    <<"SQUARE SAIKURU", 13087>>, <<"SQUARE SANTIIMU", 13088>>, <<"SQUARE SIRINGU", 13089>>,
    <<"SQUARE SENTI", 13090>>, <<"SQUARE SENTO", 13091>>, <<"SQUARE DAASU", 13092>>,
    <<"SQUARE DESI", 13093>>, <<"SQUARE DORU", 13094>>, <<"SQUARE TON", 13095>>,
    <<"SQUARE NANO", 13096>>, <<"SQUARE NOTTO", 13097>>, <<"SQUARE HAITU", 13098>>,
    <<"SQUARE PAASENTO", 13099>>, <<"SQUARE PAATU", 13100>>, <<"SQUARE BAARERU", 13101>>,
    <<"SQUARE PIASUTORU", 13102>>, <<"SQUARE PIKURU", 13103>>, <<"SQUARE PIKO", 13104>>,
    <<"SQUARE BIRU", 13105>>, <<"SQUARE HUARADDO", 13106>>, <<"SQUARE HUIITO", 13107>>,
    <<"SQUARE BUSSYERU", 13108>>, <<"SQUARE HURAN", 13109>>, <<"SQUARE HEKUTAARU", 13110>>,
    <<"SQUARE PESO", 13111>>, <<"SQUARE PENIHI", 13112>>, <<"SQUARE HERUTU", 13113>>,
    <<"SQUARE PENSU", 13114>>, <<"SQUARE PEEZI", 13115>>, <<"SQUARE BEETA", 13116>>,
    <<"SQUARE POINTO", 13117>>, <<"SQUARE BORUTO", 13118>>, <<"SQUARE HON", 13119>>,
    <<"SQUARE PONDO", 13120>>, <<"SQUARE HOORU", 13121>>, <<"SQUARE HOON", 13122>>,
    <<"SQUARE MAIKURO", 13123>>, <<"SQUARE MAIRU", 13124>>, <<"SQUARE MAHHA", 13125>>,
    <<"SQUARE MARUKU", 13126>>, <<"SQUARE MANSYON", 13127>>, <<"SQUARE MIKURON", 13128>>,
    <<"SQUARE MIRI", 13129>>, <<"SQUARE MIRIBAARU", 13130>>, <<"SQUARE MEGA", 13131>>,
    <<"SQUARE MEGATON", 13132>>, <<"SQUARE MEETORU", 13133>>, <<"SQUARE YAADO", 13134>>,
    <<"SQUARE YAARU", 13135>>, <<"SQUARE YUAN", 13136>>, <<"SQUARE RITTORU", 13137>>,
    <<"SQUARE RIRA", 13138>>, <<"SQUARE RUPII", 13139>>, <<"SQUARE RUUBURU", 13140>>,
    <<"SQUARE REMU", 13141>>, <<"SQUARE RENTOGEN", 13142>>, <<"SQUARE WATTO", 13143>>,
    <<"IDEOGRAPHIC TELEGRAPH SYMBOL FOR HOUR ZERO", 13144>>,
    <<"IDEOGRAPHIC TELEGRAPH SYMBOL FOR HOUR ONE", 13145>>,
    <<"IDEOGRAPHIC TELEGRAPH SYMBOL FOR HOUR TWO", 13146>>,
    <<"IDEOGRAPHIC TELEGRAPH SYMBOL FOR HOUR THREE", 13147>>,
    <<"IDEOGRAPHIC TELEGRAPH SYMBOL FOR HOUR FOUR", 13148>>,
    <<"IDEOGRAPHIC TELEGRAPH SYMBOL FOR HOUR FIVE", 13149>>,
    <<"IDEOGRAPHIC TELEGRAPH SYMBOL FOR HOUR SIX", 13150>>,
    <<"IDEOGRAPHIC TELEGRAPH SYMBOL FOR HOUR SEVEN", 13151>>,
    <<"IDEOGRAPHIC TELEGRAPH SYMBOL FOR HOUR EIGHT", 13152>>,
    <<"IDEOGRAPHIC TELEGRAPH SYMBOL FOR HOUR NINE", 13153>>,
    <<"IDEOGRAPHIC TELEGRAPH SYMBOL FOR HOUR TEN", 13154>>,
    <<"IDEOGRAPHIC TELEGRAPH SYMBOL FOR HOUR ELEVEN", 13155>>,
    <<"IDEOGRAPHIC TELEGRAPH SYMBOL FOR HOUR TWELVE", 13156>>,
    <<"IDEOGRAPHIC TELEGRAPH SYMBOL FOR HOUR THIRTEEN", 13157>>,
    <<"IDEOGRAPHIC TELEGRAPH SYMBOL FOR HOUR FOURTEEN", 13158>>,
    <<"IDEOGRAPHIC TELEGRAPH SYMBOL FOR HOUR FIFTEEN", 13159>>,
    <<"IDEOGRAPHIC TELEGRAPH SYMBOL FOR HOUR SIXTEEN", 13160>>,
    <<"IDEOGRAPHIC TELEGRAPH SYMBOL FOR HOUR SEVENTEEN", 13161>>,
    <<"IDEOGRAPHIC TELEGRAPH SYMBOL FOR HOUR EIGHTEEN", 13162>>,
    <<"IDEOGRAPHIC TELEGRAPH SYMBOL FOR HOUR NINETEEN", 13163>>,
    <<"IDEOGRAPHIC TELEGRAPH SYMBOL FOR HOUR TWENTY", 13164>>,
    <<"IDEOGRAPHIC TELEGRAPH SYMBOL FOR HOUR TWENTY-ONE", 13165>>,
    <<"IDEOGRAPHIC TELEGRAPH SYMBOL FOR HOUR TWENTY-TWO", 13166>>,
    <<"IDEOGRAPHIC TELEGRAPH SYMBOL FOR HOUR TWENTY-THREE", 13167>>,
    <<"IDEOGRAPHIC TELEGRAPH SYMBOL FOR HOUR TWENTY-FOUR", 13168>>, <<"SQUARE HPA", 13169>>,
    <<"SQUARE DA", 13170>>, <<"SQUARE AU", 13171>>, <<"SQUARE BAR", 13172>>, <<"SQUARE OV", 13173>>,
    <<"SQUARE PC", 13174>>, <<"SQUARE DM", 13175>>, <<"SQUARE DM SQUARED", 13176>>,
    <<"SQUARE DM CUBED", 13177>>, <<"SQUARE IU", 13178>>, <<"SQUARE ERA NAME HEISEI", 13179>>,
    <<"SQUARE ERA NAME SYOUWA", 13180>>, <<"SQUARE ERA NAME TAISYOU", 13181>>,
    <<"SQUARE ERA NAME MEIZI", 13182>>, <<"SQUARE CORPORATION", 13183>>, <<"SQUARE PA AMPS", 13184>>,
    <<"SQUARE NA", 13185>>, <<"SQUARE MU A", 13186>>, <<"SQUARE MA", 13187>>, <<"SQUARE KA", 13188>>,
    <<"SQUARE KB", 13189>>, <<"SQUARE MB", 13190>>, <<"SQUARE GB", 13191>>, <<"SQUARE CAL", 13192>>,
    <<"SQUARE KCAL", 13193>>, <<"SQUARE PF", 13194>>, <<"SQUARE NF", 13195>>, <<"SQUARE MU F", 13196>>,
    <<"SQUARE MU G", 13197>>, <<"SQUARE MG", 13198>>, <<"SQUARE KG", 13199>>, <<"SQUARE HZ", 13200>>,
    <<"SQUARE KHZ", 13201>>, <<"SQUARE MHZ", 13202>>, <<"SQUARE GHZ", 13203>>, <<"SQUARE THZ", 13204>>,
    <<"SQUARE MU L", 13205>>, <<"SQUARE ML", 13206>>, <<"SQUARE DL", 13207>>, <<"SQUARE KL", 13208>>,
    <<"SQUARE FM", 13209>>, <<"SQUARE NM", 13210>>, <<"SQUARE MU M", 13211>>, <<"SQUARE MM", 13212>>,
    <<"SQUARE CM", 13213>>, <<"SQUARE KM", 13214>>, <<"SQUARE MM SQUARED", 13215>>,
    <<"SQUARE CM SQUARED", 13216>>, <<"SQUARE M SQUARED", 13217>>, <<"SQUARE KM SQUARED", 13218>>,
    <<"SQUARE MM CUBED", 13219>>, <<"SQUARE CM CUBED", 13220>>, <<"SQUARE M CUBED", 13221>>,
    <<"SQUARE KM CUBED", 13222>>, <<"SQUARE M OVER S", 13223>>, <<"SQUARE M OVER S SQUARED", 13224>>,
    <<"SQUARE PA", 13225>>, <<"SQUARE KPA", 13226>>, <<"SQUARE MPA", 13227>>, <<"SQUARE GPA", 13228>>,
    <<"SQUARE RAD", 13229>>, <<"SQUARE RAD OVER S", 13230>>, <<"SQUARE RAD OVER S SQUARED", 13231>>,
    <<"SQUARE PS", 13232>>, <<"SQUARE NS", 13233>>, <<"SQUARE MU S", 13234>>, <<"SQUARE MS", 13235>>,
    <<"SQUARE PV", 13236>>, <<"SQUARE NV", 13237>>, <<"SQUARE MU V", 13238>>, <<"SQUARE MV", 13239>>,
    <<"SQUARE KV", 13240>>, <<"SQUARE MV MEGA", 13241>>, <<"SQUARE PW", 13242>>,
    <<"SQUARE NW", 13243>>, <<"SQUARE MU W", 13244>>, <<"SQUARE MW", 13245>>, <<"SQUARE KW", 13246>>,
    <<"SQUARE MW MEGA", 13247>>, <<"SQUARE K OHM", 13248>>, <<"SQUARE M OHM", 13249>>,
    <<"SQUARE AM", 13250>>, <<"SQUARE BQ", 13251>>, <<"SQUARE CC", 13252>>, <<"SQUARE CD", 13253>>,
    <<"SQUARE C OVER KG", 13254>>, <<"SQUARE CO", 13255>>, <<"SQUARE DB", 13256>>,
    <<"SQUARE GY", 13257>>, <<"SQUARE HA", 13258>>, <<"SQUARE HP", 13259>>, <<"SQUARE IN", 13260>>,
    <<"SQUARE KK", 13261>>, <<"SQUARE KM CAPITAL", 13262>>, <<"SQUARE KT", 13263>>,
    <<"SQUARE LM", 13264>>, <<"SQUARE LN", 13265>>, <<"SQUARE LOG", 13266>>, <<"SQUARE LX", 13267>>,
    <<"SQUARE MB SMALL", 13268>>, <<"SQUARE MIL", 13269>>, <<"SQUARE MOL", 13270>>,
    <<"SQUARE PH", 13271>>, <<"SQUARE PM", 13272>>, <<"SQUARE PPM", 13273>>, <<"SQUARE PR", 13274>>,
    <<"SQUARE SR", 13275>>, <<"SQUARE SV", 13276>>, <<"SQUARE WB", 13277>>,
    <<"SQUARE V OVER M", 13278>>, <<"SQUARE A OVER M", 13279>>,
    <<"IDEOGRAPHIC TELEGRAPH SYMBOL FOR DAY ONE", 13280>>,
    <<"IDEOGRAPHIC TELEGRAPH SYMBOL FOR DAY TWO", 13281>>,
    <<"IDEOGRAPHIC TELEGRAPH SYMBOL FOR DAY THREE", 13282>>,
    <<"IDEOGRAPHIC TELEGRAPH SYMBOL FOR DAY FOUR", 13283>>,
    <<"IDEOGRAPHIC TELEGRAPH SYMBOL FOR DAY FIVE", 13284>>,
    <<"IDEOGRAPHIC TELEGRAPH SYMBOL FOR DAY SIX", 13285>>,
    <<"IDEOGRAPHIC TELEGRAPH SYMBOL FOR DAY SEVEN", 13286>>,
    <<"IDEOGRAPHIC TELEGRAPH SYMBOL FOR DAY EIGHT", 13287>>,
    <<"IDEOGRAPHIC TELEGRAPH SYMBOL FOR DAY NINE", 13288>>,
    <<"IDEOGRAPHIC TELEGRAPH SYMBOL FOR DAY TEN", 13289>>,
    <<"IDEOGRAPHIC TELEGRAPH SYMBOL FOR DAY ELEVEN", 13290>>,
    <<"IDEOGRAPHIC TELEGRAPH SYMBOL FOR DAY TWELVE", 13291>>,
    <<"IDEOGRAPHIC TELEGRAPH SYMBOL FOR DAY THIRTEEN", 13292>>,
    <<"IDEOGRAPHIC TELEGRAPH SYMBOL FOR DAY FOURTEEN", 13293>>,
    <<"IDEOGRAPHIC TELEGRAPH SYMBOL FOR DAY FIFTEEN", 13294>>,
    <<"IDEOGRAPHIC TELEGRAPH SYMBOL FOR DAY SIXTEEN", 13295>>,
    <<"IDEOGRAPHIC TELEGRAPH SYMBOL FOR DAY SEVENTEEN", 13296>>,
    <<"IDEOGRAPHIC TELEGRAPH SYMBOL FOR DAY EIGHTEEN", 13297>>,
    <<"IDEOGRAPHIC TELEGRAPH SYMBOL FOR DAY NINETEEN", 13298>>,
    <<"IDEOGRAPHIC TELEGRAPH SYMBOL FOR DAY TWENTY", 13299>>,
    <<"IDEOGRAPHIC TELEGRAPH SYMBOL FOR DAY TWENTY-ONE", 13300>>,
    <<"IDEOGRAPHIC TELEGRAPH SYMBOL FOR DAY TWENTY-TWO", 13301>>,
    <<"IDEOGRAPHIC TELEGRAPH SYMBOL FOR DAY TWENTY-THREE", 13302>>,
    <<"IDEOGRAPHIC TELEGRAPH SYMBOL FOR DAY TWENTY-FOUR", 13303>>,
    <<"IDEOGRAPHIC TELEGRAPH SYMBOL FOR DAY TWENTY-FIVE", 13304>>,
    <<"IDEOGRAPHIC TELEGRAPH SYMBOL FOR DAY TWENTY-SIX", 13305>>,
    <<"IDEOGRAPHIC TELEGRAPH SYMBOL FOR DAY TWENTY-SEVEN", 13306>>,
    <<"IDEOGRAPHIC TELEGRAPH SYMBOL FOR DAY TWENTY-EIGHT", 13307>>,
    <<"IDEOGRAPHIC TELEGRAPH SYMBOL FOR DAY TWENTY-NINE", 13308>>,
    <<"IDEOGRAPHIC TELEGRAPH SYMBOL FOR DAY THIRTY", 13309>>,
    <<"IDEOGRAPHIC TELEGRAPH SYMBOL FOR DAY THIRTY-ONE", 13310>>, <<"SQUARE GAL", 13311>>,
    <<"HEXAGRAM FOR THE CREATIVE HEAVEN", 19904>>, <<"HEXAGRAM FOR THE RECEPTIVE EARTH", 19905>>,
    <<"HEXAGRAM FOR DIFFICULTY AT THE BEGINNING", 19906>>, <<"HEXAGRAM FOR YOUTHFUL FOLLY", 19907>>,
    <<"HEXAGRAM FOR WAITING", 19908>>, <<"HEXAGRAM FOR CONFLICT", 19909>>,
    <<"HEXAGRAM FOR THE ARMY", 19910>>, <<"HEXAGRAM FOR HOLDING TOGETHER", 19911>>,
    <<"HEXAGRAM FOR SMALL TAMING", 19912>>, <<"HEXAGRAM FOR TREADING", 19913>>,
    <<"HEXAGRAM FOR PEACE", 19914>>, <<"HEXAGRAM FOR STANDSTILL", 19915>>,
    <<"HEXAGRAM FOR FELLOWSHIP", 19916>>, <<"HEXAGRAM FOR GREAT POSSESSION", 19917>>,
    <<"HEXAGRAM FOR MODESTY", 19918>>, <<"HEXAGRAM FOR ENTHUSIASM", 19919>>,
    <<"HEXAGRAM FOR FOLLOWING", 19920>>, <<"HEXAGRAM FOR WORK ON THE DECAYED", 19921>>,
    <<"HEXAGRAM FOR APPROACH", 19922>>, <<"HEXAGRAM FOR CONTEMPLATION", 19923>>,
    <<"HEXAGRAM FOR BITING THROUGH", 19924>>, <<"HEXAGRAM FOR GRACE", 19925>>,
    <<"HEXAGRAM FOR SPLITTING APART", 19926>>, <<"HEXAGRAM FOR RETURN", 19927>>,
    <<"HEXAGRAM FOR INNOCENCE", 19928>>, <<"HEXAGRAM FOR GREAT TAMING", 19929>>,
    <<"HEXAGRAM FOR MOUTH CORNERS", 19930>>, <<"HEXAGRAM FOR GREAT PREPONDERANCE", 19931>>,
    <<"HEXAGRAM FOR THE ABYSMAL WATER", 19932>>, <<"HEXAGRAM FOR THE CLINGING FIRE", 19933>>,
    <<"HEXAGRAM FOR INFLUENCE", 19934>>, <<"HEXAGRAM FOR DURATION", 19935>>,
    <<"HEXAGRAM FOR RETREAT", 19936>>, <<"HEXAGRAM FOR GREAT POWER", 19937>>,
    <<"HEXAGRAM FOR PROGRESS", 19938>>, <<"HEXAGRAM FOR DARKENING OF THE LIGHT", 19939>>,
    <<"HEXAGRAM FOR THE FAMILY", 19940>>, <<"HEXAGRAM FOR OPPOSITION", 19941>>,
    <<"HEXAGRAM FOR OBSTRUCTION", 19942>>, <<"HEXAGRAM FOR DELIVERANCE", 19943>>,
    <<"HEXAGRAM FOR DECREASE", 19944>>, <<"HEXAGRAM FOR INCREASE", 19945>>,
    <<"HEXAGRAM FOR BREAKTHROUGH", 19946>>, <<"HEXAGRAM FOR COMING TO MEET", 19947>>,
    <<"HEXAGRAM FOR GATHERING TOGETHER", 19948>>, <<"HEXAGRAM FOR PUSHING UPWARD", 19949>>,
    <<"HEXAGRAM FOR OPPRESSION", 19950>>, <<"HEXAGRAM FOR THE WELL", 19951>>,
    <<"HEXAGRAM FOR REVOLUTION", 19952>>, <<"HEXAGRAM FOR THE CAULDRON", 19953>>,
    <<"HEXAGRAM FOR THE AROUSING THUNDER", 19954>>,
    <<"HEXAGRAM FOR THE KEEPING STILL MOUNTAIN", 19955>>, <<"HEXAGRAM FOR DEVELOPMENT", 19956>>,
    <<"HEXAGRAM FOR THE MARRYING MAIDEN", 19957>>, <<"HEXAGRAM FOR ABUNDANCE", 19958>>,
    <<"HEXAGRAM FOR THE WANDERER", 19959>>, <<"HEXAGRAM FOR THE GENTLE WIND", 19960>>,
    <<"HEXAGRAM FOR THE JOYOUS LAKE", 19961>>, <<"HEXAGRAM FOR DISPERSION", 19962>>,
    <<"HEXAGRAM FOR LIMITATION", 19963>>, <<"HEXAGRAM FOR INNER TRUTH", 19964>>,
    <<"HEXAGRAM FOR SMALL PREPONDERANCE", 19965>>, <<"HEXAGRAM FOR AFTER COMPLETION", 19966>>,
    <<"HEXAGRAM FOR BEFORE COMPLETION", 19967>>, <<"YI SYLLABLE IT", 40960>>,
    <<"YI SYLLABLE IX", 40961>>, <<"YI SYLLABLE I", 40962>>, <<"YI SYLLABLE IP", 40963>>,
    <<"YI SYLLABLE IET", 40964>>, <<"YI SYLLABLE IEX", 40965>>, <<"YI SYLLABLE IE", 40966>>,
    <<"YI SYLLABLE IEP", 40967>>, <<"YI SYLLABLE AT", 40968>>, <<"YI SYLLABLE AX", 40969>>,
    <<"YI SYLLABLE A", 40970>>, <<"YI SYLLABLE AP", 40971>>, <<"YI SYLLABLE UOX", 40972>>,
    <<"YI SYLLABLE UO", 40973>>, <<"YI SYLLABLE UOP", 40974>>, <<"YI SYLLABLE OT", 40975>>,
    <<"YI SYLLABLE OX", 40976>>, <<"YI SYLLABLE O", 40977>>, <<"YI SYLLABLE OP", 40978>>,
    <<"YI SYLLABLE EX", 40979>>, <<"YI SYLLABLE E", 40980>>, <<"YI SYLLABLE ITERATION MARK", 40981>>,
    <<"YI SYLLABLE WU", 40981>>, <<"YI SYLLABLE BIT", 40982>>, <<"YI SYLLABLE BIX", 40983>>,
    <<"YI SYLLABLE BI", 40984>>, <<"YI SYLLABLE BIP", 40985>>, <<"YI SYLLABLE BIET", 40986>>,
    <<"YI SYLLABLE BIEX", 40987>>, <<"YI SYLLABLE BIE", 40988>>, <<"YI SYLLABLE BIEP", 40989>>,
    <<"YI SYLLABLE BAT", 40990>>, <<"YI SYLLABLE BAX", 40991>>, <<"YI SYLLABLE BA", 40992>>,
    <<"YI SYLLABLE BAP", 40993>>, <<"YI SYLLABLE BUOX", 40994>>, <<"YI SYLLABLE BUO", 40995>>,
    <<"YI SYLLABLE BUOP", 40996>>, <<"YI SYLLABLE BOT", 40997>>, <<"YI SYLLABLE BOX", 40998>>,
    <<"YI SYLLABLE BO", 40999>>, <<"YI SYLLABLE BOP", 41000>>, <<"YI SYLLABLE BEX", 41001>>,
    <<"YI SYLLABLE BE", 41002>>, <<"YI SYLLABLE BEP", 41003>>, <<"YI SYLLABLE BUT", 41004>>,
    <<"YI SYLLABLE BUX", 41005>>, <<"YI SYLLABLE BU", 41006>>, <<"YI SYLLABLE BUP", 41007>>,
    <<"YI SYLLABLE BURX", 41008>>, <<"YI SYLLABLE BUR", 41009>>, <<"YI SYLLABLE BYT", 41010>>,
    <<"YI SYLLABLE BYX", 41011>>, <<"YI SYLLABLE BY", 41012>>, <<"YI SYLLABLE BYP", 41013>>,
    <<"YI SYLLABLE BYRX", 41014>>, <<"YI SYLLABLE BYR", 41015>>, <<"YI SYLLABLE PIT", 41016>>,
    <<"YI SYLLABLE PIX", 41017>>, <<"YI SYLLABLE PI", 41018>>, <<"YI SYLLABLE PIP", 41019>>,
    <<"YI SYLLABLE PIEX", 41020>>, <<"YI SYLLABLE PIE", 41021>>, <<"YI SYLLABLE PIEP", 41022>>,
    <<"YI SYLLABLE PAT", 41023>>, <<"YI SYLLABLE PAX", 41024>>, <<"YI SYLLABLE PA", 41025>>,
    <<"YI SYLLABLE PAP", 41026>>, <<"YI SYLLABLE PUOX", 41027>>, <<"YI SYLLABLE PUO", 41028>>,
    <<"YI SYLLABLE PUOP", 41029>>, <<"YI SYLLABLE POT", 41030>>, <<"YI SYLLABLE POX", 41031>>,
    <<"YI SYLLABLE PO", 41032>>, <<"YI SYLLABLE POP", 41033>>, <<"YI SYLLABLE PUT", 41034>>,
    <<"YI SYLLABLE PUX", 41035>>, <<"YI SYLLABLE PU", 41036>>, <<"YI SYLLABLE PUP", 41037>>,
    <<"YI SYLLABLE PURX", 41038>>, <<"YI SYLLABLE PUR", 41039>>, <<"YI SYLLABLE PYT", 41040>>,
    <<"YI SYLLABLE PYX", 41041>>, <<"YI SYLLABLE PY", 41042>>, <<"YI SYLLABLE PYP", 41043>>,
    <<"YI SYLLABLE PYRX", 41044>>, <<"YI SYLLABLE PYR", 41045>>, <<"YI SYLLABLE BBIT", 41046>>,
    <<"YI SYLLABLE BBIX", 41047>>, <<"YI SYLLABLE BBI", 41048>>, <<"YI SYLLABLE BBIP", 41049>>,
    <<"YI SYLLABLE BBIET", 41050>>, <<"YI SYLLABLE BBIEX", 41051>>, <<"YI SYLLABLE BBIE", 41052>>,
    <<"YI SYLLABLE BBIEP", 41053>>, <<"YI SYLLABLE BBAT", 41054>>, <<"YI SYLLABLE BBAX", 41055>>,
    <<"YI SYLLABLE BBA", 41056>>, <<"YI SYLLABLE BBAP", 41057>>, <<"YI SYLLABLE BBUOX", 41058>>,
    <<"YI SYLLABLE BBUO", 41059>>, <<"YI SYLLABLE BBUOP", 41060>>, <<"YI SYLLABLE BBOT", 41061>>,
    <<"YI SYLLABLE BBOX", 41062>>, <<"YI SYLLABLE BBO", 41063>>, <<"YI SYLLABLE BBOP", 41064>>,
    <<"YI SYLLABLE BBEX", 41065>>, <<"YI SYLLABLE BBE", 41066>>, <<"YI SYLLABLE BBEP", 41067>>,
    <<"YI SYLLABLE BBUT", 41068>>, <<"YI SYLLABLE BBUX", 41069>>, <<"YI SYLLABLE BBU", 41070>>,
    <<"YI SYLLABLE BBUP", 41071>>, <<"YI SYLLABLE BBURX", 41072>>, <<"YI SYLLABLE BBUR", 41073>>,
    <<"YI SYLLABLE BBYT", 41074>>, <<"YI SYLLABLE BBYX", 41075>>, <<"YI SYLLABLE BBY", 41076>>,
    <<"YI SYLLABLE BBYP", 41077>>, <<"YI SYLLABLE NBIT", 41078>>, <<"YI SYLLABLE NBIX", 41079>>,
    <<"YI SYLLABLE NBI", 41080>>, <<"YI SYLLABLE NBIP", 41081>>, <<"YI SYLLABLE NBIEX", 41082>>,
    <<"YI SYLLABLE NBIE", 41083>>, <<"YI SYLLABLE NBIEP", 41084>>, <<"YI SYLLABLE NBAT", 41085>>,
    <<"YI SYLLABLE NBAX", 41086>>, <<"YI SYLLABLE NBA", 41087>>, <<"YI SYLLABLE NBAP", 41088>>,
    <<"YI SYLLABLE NBOT", 41089>>, <<"YI SYLLABLE NBOX", 41090>>, <<"YI SYLLABLE NBO", 41091>>,
    <<"YI SYLLABLE NBOP", 41092>>, <<"YI SYLLABLE NBUT", 41093>>, <<"YI SYLLABLE NBUX", 41094>>,
    <<"YI SYLLABLE NBU", 41095>>, <<"YI SYLLABLE NBUP", 41096>>, <<"YI SYLLABLE NBURX", 41097>>,
    <<"YI SYLLABLE NBUR", 41098>>, <<"YI SYLLABLE NBYT", 41099>>, <<"YI SYLLABLE NBYX", 41100>>,
    <<"YI SYLLABLE NBY", 41101>>, <<"YI SYLLABLE NBYP", 41102>>, <<"YI SYLLABLE NBYRX", 41103>>,
    <<"YI SYLLABLE NBYR", 41104>>, <<"YI SYLLABLE HMIT", 41105>>, <<"YI SYLLABLE HMIX", 41106>>,
    <<"YI SYLLABLE HMI", 41107>>, <<"YI SYLLABLE HMIP", 41108>>, <<"YI SYLLABLE HMIEX", 41109>>,
    <<"YI SYLLABLE HMIE", 41110>>, <<"YI SYLLABLE HMIEP", 41111>>, <<"YI SYLLABLE HMAT", 41112>>,
    <<"YI SYLLABLE HMAX", 41113>>, <<"YI SYLLABLE HMA", 41114>>, <<"YI SYLLABLE HMAP", 41115>>,
    <<"YI SYLLABLE HMUOX", 41116>>, <<"YI SYLLABLE HMUO", 41117>>, <<"YI SYLLABLE HMUOP", 41118>>,
    <<"YI SYLLABLE HMOT", 41119>>, <<"YI SYLLABLE HMOX", 41120>>, <<"YI SYLLABLE HMO", 41121>>,
    <<"YI SYLLABLE HMOP", 41122>>, <<"YI SYLLABLE HMUT", 41123>>, <<"YI SYLLABLE HMUX", 41124>>,
    <<"YI SYLLABLE HMU", 41125>>, <<"YI SYLLABLE HMUP", 41126>>, <<"YI SYLLABLE HMURX", 41127>>,
    <<"YI SYLLABLE HMUR", 41128>>, <<"YI SYLLABLE HMYX", 41129>>, <<"YI SYLLABLE HMY", 41130>>,
    <<"YI SYLLABLE HMYP", 41131>>, <<"YI SYLLABLE HMYRX", 41132>>, <<"YI SYLLABLE HMYR", 41133>>,
    <<"YI SYLLABLE MIT", 41134>>, <<"YI SYLLABLE MIX", 41135>>, <<"YI SYLLABLE MI", 41136>>,
    <<"YI SYLLABLE MIP", 41137>>, <<"YI SYLLABLE MIEX", 41138>>, <<"YI SYLLABLE MIE", 41139>>,
    <<"YI SYLLABLE MIEP", 41140>>, <<"YI SYLLABLE MAT", 41141>>, <<"YI SYLLABLE MAX", 41142>>,
    <<"YI SYLLABLE MA", 41143>>, <<"YI SYLLABLE MAP", 41144>>, <<"YI SYLLABLE MUOT", 41145>>,
    <<"YI SYLLABLE MUOX", 41146>>, <<"YI SYLLABLE MUO", 41147>>, <<"YI SYLLABLE MUOP", 41148>>,
    <<"YI SYLLABLE MOT", 41149>>, <<"YI SYLLABLE MOX", 41150>>, <<"YI SYLLABLE MO", 41151>>,
    <<"YI SYLLABLE MOP", 41152>>, <<"YI SYLLABLE MEX", 41153>>, <<"YI SYLLABLE ME", 41154>>,
    <<"YI SYLLABLE MUT", 41155>>, <<"YI SYLLABLE MUX", 41156>>, <<"YI SYLLABLE MU", 41157>>,
    <<"YI SYLLABLE MUP", 41158>>, <<"YI SYLLABLE MURX", 41159>>, <<"YI SYLLABLE MUR", 41160>>,
    <<"YI SYLLABLE MYT", 41161>>, <<"YI SYLLABLE MYX", 41162>>, <<"YI SYLLABLE MY", 41163>>,
    <<"YI SYLLABLE MYP", 41164>>, <<"YI SYLLABLE FIT", 41165>>, <<"YI SYLLABLE FIX", 41166>>,
    <<"YI SYLLABLE FI", 41167>>, <<"YI SYLLABLE FIP", 41168>>, <<"YI SYLLABLE FAT", 41169>>,
    <<"YI SYLLABLE FAX", 41170>>, <<"YI SYLLABLE FA", 41171>>, <<"YI SYLLABLE FAP", 41172>>,
    <<"YI SYLLABLE FOX", 41173>>, <<"YI SYLLABLE FO", 41174>>, <<"YI SYLLABLE FOP", 41175>>,
    <<"YI SYLLABLE FUT", 41176>>, <<"YI SYLLABLE FUX", 41177>>, <<"YI SYLLABLE FU", 41178>>,
    <<"YI SYLLABLE FUP", 41179>>, <<"YI SYLLABLE FURX", 41180>>, <<"YI SYLLABLE FUR", 41181>>,
    <<"YI SYLLABLE FYT", 41182>>, <<"YI SYLLABLE FYX", 41183>>, <<"YI SYLLABLE FY", 41184>>,
    <<"YI SYLLABLE FYP", 41185>>, <<"YI SYLLABLE VIT", 41186>>, <<"YI SYLLABLE VIX", 41187>>,
    <<"YI SYLLABLE VI", 41188>>, <<"YI SYLLABLE VIP", 41189>>, <<"YI SYLLABLE VIET", 41190>>,
    <<"YI SYLLABLE VIEX", 41191>>, <<"YI SYLLABLE VIE", 41192>>, <<"YI SYLLABLE VIEP", 41193>>,
    <<"YI SYLLABLE VAT", 41194>>, <<"YI SYLLABLE VAX", 41195>>, <<"YI SYLLABLE VA", 41196>>,
    <<"YI SYLLABLE VAP", 41197>>, <<"YI SYLLABLE VOT", 41198>>, <<"YI SYLLABLE VOX", 41199>>,
    <<"YI SYLLABLE VO", 41200>>, <<"YI SYLLABLE VOP", 41201>>, <<"YI SYLLABLE VEX", 41202>>,
    <<"YI SYLLABLE VEP", 41203>>, <<"YI SYLLABLE VUT", 41204>>, <<"YI SYLLABLE VUX", 41205>>,
    <<"YI SYLLABLE VU", 41206>>, <<"YI SYLLABLE VUP", 41207>>, <<"YI SYLLABLE VURX", 41208>>,
    <<"YI SYLLABLE VUR", 41209>>, <<"YI SYLLABLE VYT", 41210>>, <<"YI SYLLABLE VYX", 41211>>,
    <<"YI SYLLABLE VY", 41212>>, <<"YI SYLLABLE VYP", 41213>>, <<"YI SYLLABLE VYRX", 41214>>,
    <<"YI SYLLABLE VYR", 41215>>, <<"YI SYLLABLE DIT", 41216>>, <<"YI SYLLABLE DIX", 41217>>,
    <<"YI SYLLABLE DI", 41218>>, <<"YI SYLLABLE DIP", 41219>>, <<"YI SYLLABLE DIEX", 41220>>,
    <<"YI SYLLABLE DIE", 41221>>, <<"YI SYLLABLE DIEP", 41222>>, <<"YI SYLLABLE DAT", 41223>>,
    <<"YI SYLLABLE DAX", 41224>>, <<"YI SYLLABLE DA", 41225>>, <<"YI SYLLABLE DAP", 41226>>,
    <<"YI SYLLABLE DUOX", 41227>>, <<"YI SYLLABLE DUO", 41228>>, <<"YI SYLLABLE DOT", 41229>>,
    <<"YI SYLLABLE DOX", 41230>>, <<"YI SYLLABLE DO", 41231>>, <<"YI SYLLABLE DOP", 41232>>,
    <<"YI SYLLABLE DEX", 41233>>, <<"YI SYLLABLE DE", 41234>>, <<"YI SYLLABLE DEP", 41235>>,
    <<"YI SYLLABLE DUT", 41236>>, <<"YI SYLLABLE DUX", 41237>>, <<"YI SYLLABLE DU", 41238>>,
    <<"YI SYLLABLE DUP", 41239>>, <<"YI SYLLABLE DURX", 41240>>, <<"YI SYLLABLE DUR", 41241>>,
    <<"YI SYLLABLE TIT", 41242>>, <<"YI SYLLABLE TIX", 41243>>, <<"YI SYLLABLE TI", 41244>>,
    <<"YI SYLLABLE TIP", 41245>>, <<"YI SYLLABLE TIEX", 41246>>, <<"YI SYLLABLE TIE", 41247>>,
    <<"YI SYLLABLE TIEP", 41248>>, <<"YI SYLLABLE TAT", 41249>>, <<"YI SYLLABLE TAX", 41250>>,
    <<"YI SYLLABLE TA", 41251>>, <<"YI SYLLABLE TAP", 41252>>, <<"YI SYLLABLE TUOT", 41253>>,
    <<"YI SYLLABLE TUOX", 41254>>, <<"YI SYLLABLE TUO", 41255>>, <<"YI SYLLABLE TUOP", 41256>>,
    <<"YI SYLLABLE TOT", 41257>>, <<"YI SYLLABLE TOX", 41258>>, <<"YI SYLLABLE TO", 41259>>,
    <<"YI SYLLABLE TOP", 41260>>, <<"YI SYLLABLE TEX", 41261>>, <<"YI SYLLABLE TE", 41262>>,
    <<"YI SYLLABLE TEP", 41263>>, <<"YI SYLLABLE TUT", 41264>>, <<"YI SYLLABLE TUX", 41265>>,
    <<"YI SYLLABLE TU", 41266>>, <<"YI SYLLABLE TUP", 41267>>, <<"YI SYLLABLE TURX", 41268>>,
    <<"YI SYLLABLE TUR", 41269>>, <<"YI SYLLABLE DDIT", 41270>>, <<"YI SYLLABLE DDIX", 41271>>,
    <<"YI SYLLABLE DDI", 41272>>, <<"YI SYLLABLE DDIP", 41273>>, <<"YI SYLLABLE DDIEX", 41274>>,
    <<"YI SYLLABLE DDIE", 41275>>, <<"YI SYLLABLE DDIEP", 41276>>, <<"YI SYLLABLE DDAT", 41277>>,
    <<"YI SYLLABLE DDAX", 41278>>, <<"YI SYLLABLE DDA", 41279>>, <<"YI SYLLABLE DDAP", 41280>>,
    <<"YI SYLLABLE DDUOX", 41281>>, <<"YI SYLLABLE DDUO", 41282>>, <<"YI SYLLABLE DDUOP", 41283>>,
    <<"YI SYLLABLE DDOT", 41284>>, <<"YI SYLLABLE DDOX", 41285>>, <<"YI SYLLABLE DDO", 41286>>,
    <<"YI SYLLABLE DDOP", 41287>>, <<"YI SYLLABLE DDEX", 41288>>, <<"YI SYLLABLE DDE", 41289>>,
    <<"YI SYLLABLE DDEP", 41290>>, <<"YI SYLLABLE DDUT", 41291>>, <<"YI SYLLABLE DDUX", 41292>>,
    <<"YI SYLLABLE DDU", 41293>>, <<"YI SYLLABLE DDUP", 41294>>, <<"YI SYLLABLE DDURX", 41295>>,
    <<"YI SYLLABLE DDUR", 41296>>, <<"YI SYLLABLE NDIT", 41297>>, <<"YI SYLLABLE NDIX", 41298>>,
    <<"YI SYLLABLE NDI", 41299>>, <<"YI SYLLABLE NDIP", 41300>>, <<"YI SYLLABLE NDIEX", 41301>>,
    <<"YI SYLLABLE NDIE", 41302>>, <<"YI SYLLABLE NDAT", 41303>>, <<"YI SYLLABLE NDAX", 41304>>,
    <<"YI SYLLABLE NDA", 41305>>, <<"YI SYLLABLE NDAP", 41306>>, <<"YI SYLLABLE NDOT", 41307>>,
    <<"YI SYLLABLE NDOX", 41308>>, <<"YI SYLLABLE NDO", 41309>>, <<"YI SYLLABLE NDOP", 41310>>,
    <<"YI SYLLABLE NDEX", 41311>>, <<"YI SYLLABLE NDE", 41312>>, <<"YI SYLLABLE NDEP", 41313>>,
    <<"YI SYLLABLE NDUT", 41314>>, <<"YI SYLLABLE NDUX", 41315>>, <<"YI SYLLABLE NDU", 41316>>,
    <<"YI SYLLABLE NDUP", 41317>>, <<"YI SYLLABLE NDURX", 41318>>, <<"YI SYLLABLE NDUR", 41319>>,
    <<"YI SYLLABLE HNIT", 41320>>, <<"YI SYLLABLE HNIX", 41321>>, <<"YI SYLLABLE HNI", 41322>>,
    <<"YI SYLLABLE HNIP", 41323>>, <<"YI SYLLABLE HNIET", 41324>>, <<"YI SYLLABLE HNIEX", 41325>>,
    <<"YI SYLLABLE HNIE", 41326>>, <<"YI SYLLABLE HNIEP", 41327>>, <<"YI SYLLABLE HNAT", 41328>>,
    <<"YI SYLLABLE HNAX", 41329>>, <<"YI SYLLABLE HNA", 41330>>, <<"YI SYLLABLE HNAP", 41331>>,
    <<"YI SYLLABLE HNUOX", 41332>>, <<"YI SYLLABLE HNUO", 41333>>, <<"YI SYLLABLE HNOT", 41334>>,
    <<"YI SYLLABLE HNOX", 41335>>, <<"YI SYLLABLE HNOP", 41336>>, <<"YI SYLLABLE HNEX", 41337>>,
    <<"YI SYLLABLE HNE", 41338>>, <<"YI SYLLABLE HNEP", 41339>>, <<"YI SYLLABLE HNUT", 41340>>,
    <<"YI SYLLABLE NIT", 41341>>, <<"YI SYLLABLE NIX", 41342>>, <<"YI SYLLABLE NI", 41343>>,
    <<"YI SYLLABLE NIP", 41344>>, <<"YI SYLLABLE NIEX", 41345>>, <<"YI SYLLABLE NIE", 41346>>,
    <<"YI SYLLABLE NIEP", 41347>>, <<"YI SYLLABLE NAX", 41348>>, <<"YI SYLLABLE NA", 41349>>,
    <<"YI SYLLABLE NAP", 41350>>, <<"YI SYLLABLE NUOX", 41351>>, <<"YI SYLLABLE NUO", 41352>>,
    <<"YI SYLLABLE NUOP", 41353>>, <<"YI SYLLABLE NOT", 41354>>, <<"YI SYLLABLE NOX", 41355>>,
    <<"YI SYLLABLE NO", 41356>>, <<"YI SYLLABLE NOP", 41357>>, <<"YI SYLLABLE NEX", 41358>>,
    <<"YI SYLLABLE NE", 41359>>, <<"YI SYLLABLE NEP", 41360>>, <<"YI SYLLABLE NUT", 41361>>,
    <<"YI SYLLABLE NUX", 41362>>, <<"YI SYLLABLE NU", 41363>>, <<"YI SYLLABLE NUP", 41364>>,
    <<"YI SYLLABLE NURX", 41365>>, <<"YI SYLLABLE NUR", 41366>>, <<"YI SYLLABLE HLIT", 41367>>,
    <<"YI SYLLABLE HLIX", 41368>>, <<"YI SYLLABLE HLI", 41369>>, <<"YI SYLLABLE HLIP", 41370>>,
    <<"YI SYLLABLE HLIEX", 41371>>, <<"YI SYLLABLE HLIE", 41372>>, <<"YI SYLLABLE HLIEP", 41373>>,
    <<"YI SYLLABLE HLAT", 41374>>, <<"YI SYLLABLE HLAX", 41375>>, <<"YI SYLLABLE HLA", 41376>>,
    <<"YI SYLLABLE HLAP", 41377>>, <<"YI SYLLABLE HLUOX", 41378>>, <<"YI SYLLABLE HLUO", 41379>>,
    <<"YI SYLLABLE HLUOP", 41380>>, <<"YI SYLLABLE HLOX", 41381>>, <<"YI SYLLABLE HLO", 41382>>,
    <<"YI SYLLABLE HLOP", 41383>>, <<"YI SYLLABLE HLEX", 41384>>, <<"YI SYLLABLE HLE", 41385>>,
    <<"YI SYLLABLE HLEP", 41386>>, <<"YI SYLLABLE HLUT", 41387>>, <<"YI SYLLABLE HLUX", 41388>>,
    <<"YI SYLLABLE HLU", 41389>>, <<"YI SYLLABLE HLUP", 41390>>, <<"YI SYLLABLE HLURX", 41391>>,
    <<"YI SYLLABLE HLUR", 41392>>, <<"YI SYLLABLE HLYT", 41393>>, <<"YI SYLLABLE HLYX", 41394>>,
    <<"YI SYLLABLE HLY", 41395>>, <<"YI SYLLABLE HLYP", 41396>>, <<"YI SYLLABLE HLYRX", 41397>>,
    <<"YI SYLLABLE HLYR", 41398>>, <<"YI SYLLABLE LIT", 41399>>, <<"YI SYLLABLE LIX", 41400>>,
    <<"YI SYLLABLE LI", 41401>>, <<"YI SYLLABLE LIP", 41402>>, <<"YI SYLLABLE LIET", 41403>>,
    <<"YI SYLLABLE LIEX", 41404>>, <<"YI SYLLABLE LIE", 41405>>, <<"YI SYLLABLE LIEP", 41406>>,
    <<"YI SYLLABLE LAT", 41407>>, <<"YI SYLLABLE LAX", 41408>>, <<"YI SYLLABLE LA", 41409>>,
    <<"YI SYLLABLE LAP", 41410>>, <<"YI SYLLABLE LUOT", 41411>>, <<"YI SYLLABLE LUOX", 41412>>,
    <<"YI SYLLABLE LUO", 41413>>, <<"YI SYLLABLE LUOP", 41414>>, <<"YI SYLLABLE LOT", 41415>>,
    <<"YI SYLLABLE LOX", 41416>>, <<"YI SYLLABLE LO", 41417>>, <<"YI SYLLABLE LOP", 41418>>,
    <<"YI SYLLABLE LEX", 41419>>, <<"YI SYLLABLE LE", 41420>>, <<"YI SYLLABLE LEP", 41421>>,
    <<"YI SYLLABLE LUT", 41422>>, <<"YI SYLLABLE LUX", 41423>>, <<"YI SYLLABLE LU", 41424>>,
    <<"YI SYLLABLE LUP", 41425>>, <<"YI SYLLABLE LURX", 41426>>, <<"YI SYLLABLE LUR", 41427>>,
    <<"YI SYLLABLE LYT", 41428>>, <<"YI SYLLABLE LYX", 41429>>, <<"YI SYLLABLE LY", 41430>>,
    <<"YI SYLLABLE LYP", 41431>>, <<"YI SYLLABLE LYRX", 41432>>, <<"YI SYLLABLE LYR", 41433>>,
    <<"YI SYLLABLE GIT", 41434>>, <<"YI SYLLABLE GIX", 41435>>, <<"YI SYLLABLE GI", 41436>>,
    <<"YI SYLLABLE GIP", 41437>>, <<"YI SYLLABLE GIET", 41438>>, <<"YI SYLLABLE GIEX", 41439>>,
    <<"YI SYLLABLE GIE", 41440>>, <<"YI SYLLABLE GIEP", 41441>>, <<"YI SYLLABLE GAT", 41442>>,
    <<"YI SYLLABLE GAX", 41443>>, <<"YI SYLLABLE GA", 41444>>, <<"YI SYLLABLE GAP", 41445>>,
    <<"YI SYLLABLE GUOT", 41446>>, <<"YI SYLLABLE GUOX", 41447>>, <<"YI SYLLABLE GUO", 41448>>,
    <<"YI SYLLABLE GUOP", 41449>>, <<"YI SYLLABLE GOT", 41450>>, <<"YI SYLLABLE GOX", 41451>>,
    <<"YI SYLLABLE GO", 41452>>, <<"YI SYLLABLE GOP", 41453>>, <<"YI SYLLABLE GET", 41454>>,
    <<"YI SYLLABLE GEX", 41455>>, <<"YI SYLLABLE GE", 41456>>, <<"YI SYLLABLE GEP", 41457>>,
    <<"YI SYLLABLE GUT", 41458>>, <<"YI SYLLABLE GUX", 41459>>, <<"YI SYLLABLE GU", 41460>>,
    <<"YI SYLLABLE GUP", 41461>>, <<"YI SYLLABLE GURX", 41462>>, <<"YI SYLLABLE GUR", 41463>>,
    <<"YI SYLLABLE KIT", 41464>>, <<"YI SYLLABLE KIX", 41465>>, <<"YI SYLLABLE KI", 41466>>,
    <<"YI SYLLABLE KIP", 41467>>, <<"YI SYLLABLE KIEX", 41468>>, <<"YI SYLLABLE KIE", 41469>>,
    <<"YI SYLLABLE KIEP", 41470>>, <<"YI SYLLABLE KAT", 41471>>, <<"YI SYLLABLE KAX", 41472>>,
    <<"YI SYLLABLE KA", 41473>>, <<"YI SYLLABLE KAP", 41474>>, <<"YI SYLLABLE KUOX", 41475>>,
    <<"YI SYLLABLE KUO", 41476>>, <<"YI SYLLABLE KUOP", 41477>>, <<"YI SYLLABLE KOT", 41478>>,
    <<"YI SYLLABLE KOX", 41479>>, <<"YI SYLLABLE KO", 41480>>, <<"YI SYLLABLE KOP", 41481>>,
    <<"YI SYLLABLE KET", 41482>>, <<"YI SYLLABLE KEX", 41483>>, <<"YI SYLLABLE KE", 41484>>,
    <<"YI SYLLABLE KEP", 41485>>, <<"YI SYLLABLE KUT", 41486>>, <<"YI SYLLABLE KUX", 41487>>,
    <<"YI SYLLABLE KU", 41488>>, <<"YI SYLLABLE KUP", 41489>>, <<"YI SYLLABLE KURX", 41490>>,
    <<"YI SYLLABLE KUR", 41491>>, <<"YI SYLLABLE GGIT", 41492>>, <<"YI SYLLABLE GGIX", 41493>>,
    <<"YI SYLLABLE GGI", 41494>>, <<"YI SYLLABLE GGIEX", 41495>>, <<"YI SYLLABLE GGIE", 41496>>,
    <<"YI SYLLABLE GGIEP", 41497>>, <<"YI SYLLABLE GGAT", 41498>>, <<"YI SYLLABLE GGAX", 41499>>,
    <<"YI SYLLABLE GGA", 41500>>, <<"YI SYLLABLE GGAP", 41501>>, <<"YI SYLLABLE GGUOT", 41502>>,
    <<"YI SYLLABLE GGUOX", 41503>>, <<"YI SYLLABLE GGUO", 41504>>, <<"YI SYLLABLE GGUOP", 41505>>,
    <<"YI SYLLABLE GGOT", 41506>>, <<"YI SYLLABLE GGOX", 41507>>, <<"YI SYLLABLE GGO", 41508>>,
    <<"YI SYLLABLE GGOP", 41509>>, <<"YI SYLLABLE GGET", 41510>>, <<"YI SYLLABLE GGEX", 41511>>,
    <<"YI SYLLABLE GGE", 41512>>, <<"YI SYLLABLE GGEP", 41513>>, <<"YI SYLLABLE GGUT", 41514>>,
    <<"YI SYLLABLE GGUX", 41515>>, <<"YI SYLLABLE GGU", 41516>>, <<"YI SYLLABLE GGUP", 41517>>,
    <<"YI SYLLABLE GGURX", 41518>>, <<"YI SYLLABLE GGUR", 41519>>, <<"YI SYLLABLE MGIEX", 41520>>,
    <<"YI SYLLABLE MGIE", 41521>>, <<"YI SYLLABLE MGAT", 41522>>, <<"YI SYLLABLE MGAX", 41523>>,
    <<"YI SYLLABLE MGA", 41524>>, <<"YI SYLLABLE MGAP", 41525>>, <<"YI SYLLABLE MGUOX", 41526>>,
    <<"YI SYLLABLE MGUO", 41527>>, <<"YI SYLLABLE MGUOP", 41528>>, <<"YI SYLLABLE MGOT", 41529>>,
    <<"YI SYLLABLE MGOX", 41530>>, <<"YI SYLLABLE MGO", 41531>>, <<"YI SYLLABLE MGOP", 41532>>,
    <<"YI SYLLABLE MGEX", 41533>>, <<"YI SYLLABLE MGE", 41534>>, <<"YI SYLLABLE MGEP", 41535>>,
    <<"YI SYLLABLE MGUT", 41536>>, <<"YI SYLLABLE MGUX", 41537>>, <<"YI SYLLABLE MGU", 41538>>,
    <<"YI SYLLABLE MGUP", 41539>>, <<"YI SYLLABLE MGURX", 41540>>, <<"YI SYLLABLE MGUR", 41541>>,
    <<"YI SYLLABLE HXIT", 41542>>, <<"YI SYLLABLE HXIX", 41543>>, <<"YI SYLLABLE HXI", 41544>>,
    <<"YI SYLLABLE HXIP", 41545>>, <<"YI SYLLABLE HXIET", 41546>>, <<"YI SYLLABLE HXIEX", 41547>>,
    <<"YI SYLLABLE HXIE", 41548>>, <<"YI SYLLABLE HXIEP", 41549>>, <<"YI SYLLABLE HXAT", 41550>>,
    <<"YI SYLLABLE HXAX", 41551>>, <<"YI SYLLABLE HXA", 41552>>, <<"YI SYLLABLE HXAP", 41553>>,
    <<"YI SYLLABLE HXUOT", 41554>>, <<"YI SYLLABLE HXUOX", 41555>>, <<"YI SYLLABLE HXUO", 41556>>,
    <<"YI SYLLABLE HXUOP", 41557>>, <<"YI SYLLABLE HXOT", 41558>>, <<"YI SYLLABLE HXOX", 41559>>,
    <<"YI SYLLABLE HXO", 41560>>, <<"YI SYLLABLE HXOP", 41561>>, <<"YI SYLLABLE HXEX", 41562>>,
    <<"YI SYLLABLE HXE", 41563>>, <<"YI SYLLABLE HXEP", 41564>>, <<"YI SYLLABLE NGIEX", 41565>>,
    <<"YI SYLLABLE NGIE", 41566>>, <<"YI SYLLABLE NGIEP", 41567>>, <<"YI SYLLABLE NGAT", 41568>>,
    <<"YI SYLLABLE NGAX", 41569>>, <<"YI SYLLABLE NGA", 41570>>, <<"YI SYLLABLE NGAP", 41571>>,
    <<"YI SYLLABLE NGUOT", 41572>>, <<"YI SYLLABLE NGUOX", 41573>>, <<"YI SYLLABLE NGUO", 41574>>,
    <<"YI SYLLABLE NGOT", 41575>>, <<"YI SYLLABLE NGOX", 41576>>, <<"YI SYLLABLE NGO", 41577>>,
    <<"YI SYLLABLE NGOP", 41578>>, <<"YI SYLLABLE NGEX", 41579>>, <<"YI SYLLABLE NGE", 41580>>,
    <<"YI SYLLABLE NGEP", 41581>>, <<"YI SYLLABLE HIT", 41582>>, <<"YI SYLLABLE HIEX", 41583>>,
    <<"YI SYLLABLE HIE", 41584>>, <<"YI SYLLABLE HAT", 41585>>, <<"YI SYLLABLE HAX", 41586>>,
    <<"YI SYLLABLE HA", 41587>>, <<"YI SYLLABLE HAP", 41588>>, <<"YI SYLLABLE HUOT", 41589>>,
    <<"YI SYLLABLE HUOX", 41590>>, <<"YI SYLLABLE HUO", 41591>>, <<"YI SYLLABLE HUOP", 41592>>,
    <<"YI SYLLABLE HOT", 41593>>, <<"YI SYLLABLE HOX", 41594>>, <<"YI SYLLABLE HO", 41595>>,
    <<"YI SYLLABLE HOP", 41596>>, <<"YI SYLLABLE HEX", 41597>>, <<"YI SYLLABLE HE", 41598>>,
    <<"YI SYLLABLE HEP", 41599>>, <<"YI SYLLABLE WAT", 41600>>, <<"YI SYLLABLE WAX", 41601>>,
    <<"YI SYLLABLE WA", 41602>>, <<"YI SYLLABLE WAP", 41603>>, <<"YI SYLLABLE WUOX", 41604>>,
    <<"YI SYLLABLE WUO", 41605>>, <<"YI SYLLABLE WUOP", 41606>>, <<"YI SYLLABLE WOX", 41607>>,
    <<"YI SYLLABLE WO", 41608>>, <<"YI SYLLABLE WOP", 41609>>, <<"YI SYLLABLE WEX", 41610>>,
    <<"YI SYLLABLE WE", 41611>>, <<"YI SYLLABLE WEP", 41612>>, <<"YI SYLLABLE ZIT", 41613>>,
    <<"YI SYLLABLE ZIX", 41614>>, <<"YI SYLLABLE ZI", 41615>>, <<"YI SYLLABLE ZIP", 41616>>,
    <<"YI SYLLABLE ZIEX", 41617>>, <<"YI SYLLABLE ZIE", 41618>>, <<"YI SYLLABLE ZIEP", 41619>>,
    <<"YI SYLLABLE ZAT", 41620>>, <<"YI SYLLABLE ZAX", 41621>>, <<"YI SYLLABLE ZA", 41622>>,
    <<"YI SYLLABLE ZAP", 41623>>, <<"YI SYLLABLE ZUOX", 41624>>, <<"YI SYLLABLE ZUO", 41625>>,
    <<"YI SYLLABLE ZUOP", 41626>>, <<"YI SYLLABLE ZOT", 41627>>, <<"YI SYLLABLE ZOX", 41628>>,
    <<"YI SYLLABLE ZO", 41629>>, <<"YI SYLLABLE ZOP", 41630>>, <<"YI SYLLABLE ZEX", 41631>>,
    <<"YI SYLLABLE ZE", 41632>>, <<"YI SYLLABLE ZEP", 41633>>, <<"YI SYLLABLE ZUT", 41634>>,
    <<"YI SYLLABLE ZUX", 41635>>, <<"YI SYLLABLE ZU", 41636>>, <<"YI SYLLABLE ZUP", 41637>>,
    <<"YI SYLLABLE ZURX", 41638>>, <<"YI SYLLABLE ZUR", 41639>>, <<"YI SYLLABLE ZYT", 41640>>,
    <<"YI SYLLABLE ZYX", 41641>>, <<"YI SYLLABLE ZY", 41642>>, <<"YI SYLLABLE ZYP", 41643>>,
    <<"YI SYLLABLE ZYRX", 41644>>, <<"YI SYLLABLE ZYR", 41645>>, <<"YI SYLLABLE CIT", 41646>>,
    <<"YI SYLLABLE CIX", 41647>>, <<"YI SYLLABLE CI", 41648>>, <<"YI SYLLABLE CIP", 41649>>,
    <<"YI SYLLABLE CIET", 41650>>, <<"YI SYLLABLE CIEX", 41651>>, <<"YI SYLLABLE CIE", 41652>>,
    <<"YI SYLLABLE CIEP", 41653>>, <<"YI SYLLABLE CAT", 41654>>, <<"YI SYLLABLE CAX", 41655>>,
    <<"YI SYLLABLE CA", 41656>>, <<"YI SYLLABLE CAP", 41657>>, <<"YI SYLLABLE CUOX", 41658>>,
    <<"YI SYLLABLE CUO", 41659>>, <<"YI SYLLABLE CUOP", 41660>>, <<"YI SYLLABLE COT", 41661>>,
    <<"YI SYLLABLE COX", 41662>>, <<"YI SYLLABLE CO", 41663>>, <<"YI SYLLABLE COP", 41664>>,
    <<"YI SYLLABLE CEX", 41665>>, <<"YI SYLLABLE CE", 41666>>, <<"YI SYLLABLE CEP", 41667>>,
    <<"YI SYLLABLE CUT", 41668>>, <<"YI SYLLABLE CUX", 41669>>, <<"YI SYLLABLE CU", 41670>>,
    <<"YI SYLLABLE CUP", 41671>>, <<"YI SYLLABLE CURX", 41672>>, <<"YI SYLLABLE CUR", 41673>>,
    <<"YI SYLLABLE CYT", 41674>>, <<"YI SYLLABLE CYX", 41675>>, <<"YI SYLLABLE CY", 41676>>,
    <<"YI SYLLABLE CYP", 41677>>, <<"YI SYLLABLE CYRX", 41678>>, <<"YI SYLLABLE CYR", 41679>>,
    <<"YI SYLLABLE ZZIT", 41680>>, <<"YI SYLLABLE ZZIX", 41681>>, <<"YI SYLLABLE ZZI", 41682>>,
    <<"YI SYLLABLE ZZIP", 41683>>, <<"YI SYLLABLE ZZIET", 41684>>, <<"YI SYLLABLE ZZIEX", 41685>>,
    <<"YI SYLLABLE ZZIE", 41686>>, <<"YI SYLLABLE ZZIEP", 41687>>, <<"YI SYLLABLE ZZAT", 41688>>,
    <<"YI SYLLABLE ZZAX", 41689>>, <<"YI SYLLABLE ZZA", 41690>>, <<"YI SYLLABLE ZZAP", 41691>>,
    <<"YI SYLLABLE ZZOX", 41692>>, <<"YI SYLLABLE ZZO", 41693>>, <<"YI SYLLABLE ZZOP", 41694>>,
    <<"YI SYLLABLE ZZEX", 41695>>, <<"YI SYLLABLE ZZE", 41696>>, <<"YI SYLLABLE ZZEP", 41697>>,
    <<"YI SYLLABLE ZZUX", 41698>>, <<"YI SYLLABLE ZZU", 41699>>, <<"YI SYLLABLE ZZUP", 41700>>,
    <<"YI SYLLABLE ZZURX", 41701>>, <<"YI SYLLABLE ZZUR", 41702>>, <<"YI SYLLABLE ZZYT", 41703>>,
    <<"YI SYLLABLE ZZYX", 41704>>, <<"YI SYLLABLE ZZY", 41705>>, <<"YI SYLLABLE ZZYP", 41706>>,
    <<"YI SYLLABLE ZZYRX", 41707>>, <<"YI SYLLABLE ZZYR", 41708>>, <<"YI SYLLABLE NZIT", 41709>>,
    <<"YI SYLLABLE NZIX", 41710>>, <<"YI SYLLABLE NZI", 41711>>, <<"YI SYLLABLE NZIP", 41712>>,
    <<"YI SYLLABLE NZIEX", 41713>>, <<"YI SYLLABLE NZIE", 41714>>, <<"YI SYLLABLE NZIEP", 41715>>,
    <<"YI SYLLABLE NZAT", 41716>>, <<"YI SYLLABLE NZAX", 41717>>, <<"YI SYLLABLE NZA", 41718>>,
    <<"YI SYLLABLE NZAP", 41719>>, <<"YI SYLLABLE NZUOX", 41720>>, <<"YI SYLLABLE NZUO", 41721>>,
    <<"YI SYLLABLE NZOX", 41722>>, <<"YI SYLLABLE NZOP", 41723>>, <<"YI SYLLABLE NZEX", 41724>>,
    <<"YI SYLLABLE NZE", 41725>>, <<"YI SYLLABLE NZUX", 41726>>, <<"YI SYLLABLE NZU", 41727>>,
    <<"YI SYLLABLE NZUP", 41728>>, <<"YI SYLLABLE NZURX", 41729>>, <<"YI SYLLABLE NZUR", 41730>>,
    <<"YI SYLLABLE NZYT", 41731>>, <<"YI SYLLABLE NZYX", 41732>>, <<"YI SYLLABLE NZY", 41733>>,
    <<"YI SYLLABLE NZYP", 41734>>, <<"YI SYLLABLE NZYRX", 41735>>, <<"YI SYLLABLE NZYR", 41736>>,
    <<"YI SYLLABLE SIT", 41737>>, <<"YI SYLLABLE SIX", 41738>>, <<"YI SYLLABLE SI", 41739>>,
    <<"YI SYLLABLE SIP", 41740>>, <<"YI SYLLABLE SIEX", 41741>>, <<"YI SYLLABLE SIE", 41742>>,
    <<"YI SYLLABLE SIEP", 41743>>, <<"YI SYLLABLE SAT", 41744>>, <<"YI SYLLABLE SAX", 41745>>,
    <<"YI SYLLABLE SA", 41746>>, <<"YI SYLLABLE SAP", 41747>>, <<"YI SYLLABLE SUOX", 41748>>,
    <<"YI SYLLABLE SUO", 41749>>, <<"YI SYLLABLE SUOP", 41750>>, <<"YI SYLLABLE SOT", 41751>>,
    <<"YI SYLLABLE SOX", 41752>>, <<"YI SYLLABLE SO", 41753>>, <<"YI SYLLABLE SOP", 41754>>,
    <<"YI SYLLABLE SEX", 41755>>, <<"YI SYLLABLE SE", 41756>>, <<"YI SYLLABLE SEP", 41757>>,
    <<"YI SYLLABLE SUT", 41758>>, <<"YI SYLLABLE SUX", 41759>>, <<"YI SYLLABLE SU", 41760>>,
    <<"YI SYLLABLE SUP", 41761>>, <<"YI SYLLABLE SURX", 41762>>, <<"YI SYLLABLE SUR", 41763>>,
    <<"YI SYLLABLE SYT", 41764>>, <<"YI SYLLABLE SYX", 41765>>, <<"YI SYLLABLE SY", 41766>>,
    <<"YI SYLLABLE SYP", 41767>>, <<"YI SYLLABLE SYRX", 41768>>, <<"YI SYLLABLE SYR", 41769>>,
    <<"YI SYLLABLE SSIT", 41770>>, <<"YI SYLLABLE SSIX", 41771>>, <<"YI SYLLABLE SSI", 41772>>,
    <<"YI SYLLABLE SSIP", 41773>>, <<"YI SYLLABLE SSIEX", 41774>>, <<"YI SYLLABLE SSIE", 41775>>,
    <<"YI SYLLABLE SSIEP", 41776>>, <<"YI SYLLABLE SSAT", 41777>>, <<"YI SYLLABLE SSAX", 41778>>,
    <<"YI SYLLABLE SSA", 41779>>, <<"YI SYLLABLE SSAP", 41780>>, <<"YI SYLLABLE SSOT", 41781>>,
    <<"YI SYLLABLE SSOX", 41782>>, <<"YI SYLLABLE SSO", 41783>>, <<"YI SYLLABLE SSOP", 41784>>,
    <<"YI SYLLABLE SSEX", 41785>>, <<"YI SYLLABLE SSE", 41786>>, <<"YI SYLLABLE SSEP", 41787>>,
    <<"YI SYLLABLE SSUT", 41788>>, <<"YI SYLLABLE SSUX", 41789>>, <<"YI SYLLABLE SSU", 41790>>,
    <<"YI SYLLABLE SSUP", 41791>>, <<"YI SYLLABLE SSYT", 41792>>, <<"YI SYLLABLE SSYX", 41793>>,
    <<"YI SYLLABLE SSY", 41794>>, <<"YI SYLLABLE SSYP", 41795>>, <<"YI SYLLABLE SSYRX", 41796>>,
    <<"YI SYLLABLE SSYR", 41797>>, <<"YI SYLLABLE ZHAT", 41798>>, <<"YI SYLLABLE ZHAX", 41799>>,
    <<"YI SYLLABLE ZHA", 41800>>, <<"YI SYLLABLE ZHAP", 41801>>, <<"YI SYLLABLE ZHUOX", 41802>>,
    <<"YI SYLLABLE ZHUO", 41803>>, <<"YI SYLLABLE ZHUOP", 41804>>, <<"YI SYLLABLE ZHOT", 41805>>,
    <<"YI SYLLABLE ZHOX", 41806>>, <<"YI SYLLABLE ZHO", 41807>>, <<"YI SYLLABLE ZHOP", 41808>>,
    <<"YI SYLLABLE ZHET", 41809>>, <<"YI SYLLABLE ZHEX", 41810>>, <<"YI SYLLABLE ZHE", 41811>>,
    <<"YI SYLLABLE ZHEP", 41812>>, <<"YI SYLLABLE ZHUT", 41813>>, <<"YI SYLLABLE ZHUX", 41814>>,
    <<"YI SYLLABLE ZHU", 41815>>, <<"YI SYLLABLE ZHUP", 41816>>, <<"YI SYLLABLE ZHURX", 41817>>,
    <<"YI SYLLABLE ZHUR", 41818>>, <<"YI SYLLABLE ZHYT", 41819>>, <<"YI SYLLABLE ZHYX", 41820>>,
    <<"YI SYLLABLE ZHY", 41821>>, <<"YI SYLLABLE ZHYP", 41822>>, <<"YI SYLLABLE ZHYRX", 41823>>,
    <<"YI SYLLABLE ZHYR", 41824>>, <<"YI SYLLABLE CHAT", 41825>>, <<"YI SYLLABLE CHAX", 41826>>,
    <<"YI SYLLABLE CHA", 41827>>, <<"YI SYLLABLE CHAP", 41828>>, <<"YI SYLLABLE CHUOT", 41829>>,
    <<"YI SYLLABLE CHUOX", 41830>>, <<"YI SYLLABLE CHUO", 41831>>, <<"YI SYLLABLE CHUOP", 41832>>,
    <<"YI SYLLABLE CHOT", 41833>>, <<"YI SYLLABLE CHOX", 41834>>, <<"YI SYLLABLE CHO", 41835>>,
    <<"YI SYLLABLE CHOP", 41836>>, <<"YI SYLLABLE CHET", 41837>>, <<"YI SYLLABLE CHEX", 41838>>,
    <<"YI SYLLABLE CHE", 41839>>, <<"YI SYLLABLE CHEP", 41840>>, <<"YI SYLLABLE CHUX", 41841>>,
    <<"YI SYLLABLE CHU", 41842>>, <<"YI SYLLABLE CHUP", 41843>>, <<"YI SYLLABLE CHURX", 41844>>,
    <<"YI SYLLABLE CHUR", 41845>>, <<"YI SYLLABLE CHYT", 41846>>, <<"YI SYLLABLE CHYX", 41847>>,
    <<"YI SYLLABLE CHY", 41848>>, <<"YI SYLLABLE CHYP", 41849>>, <<"YI SYLLABLE CHYRX", 41850>>,
    <<"YI SYLLABLE CHYR", 41851>>, <<"YI SYLLABLE RRAX", 41852>>, <<"YI SYLLABLE RRA", 41853>>,
    <<"YI SYLLABLE RRUOX", 41854>>, <<"YI SYLLABLE RRUO", 41855>>, <<"YI SYLLABLE RROT", 41856>>,
    <<"YI SYLLABLE RROX", 41857>>, <<"YI SYLLABLE RRO", 41858>>, <<"YI SYLLABLE RROP", 41859>>,
    <<"YI SYLLABLE RRET", 41860>>, <<"YI SYLLABLE RREX", 41861>>, <<"YI SYLLABLE RRE", 41862>>,
    <<"YI SYLLABLE RREP", 41863>>, <<"YI SYLLABLE RRUT", 41864>>, <<"YI SYLLABLE RRUX", 41865>>,
    <<"YI SYLLABLE RRU", 41866>>, <<"YI SYLLABLE RRUP", 41867>>, <<"YI SYLLABLE RRURX", 41868>>,
    <<"YI SYLLABLE RRUR", 41869>>, <<"YI SYLLABLE RRYT", 41870>>, <<"YI SYLLABLE RRYX", 41871>>,
    <<"YI SYLLABLE RRY", 41872>>, <<"YI SYLLABLE RRYP", 41873>>, <<"YI SYLLABLE RRYRX", 41874>>,
    <<"YI SYLLABLE RRYR", 41875>>, <<"YI SYLLABLE NRAT", 41876>>, <<"YI SYLLABLE NRAX", 41877>>,
    <<"YI SYLLABLE NRA", 41878>>, <<"YI SYLLABLE NRAP", 41879>>, <<"YI SYLLABLE NROX", 41880>>,
    <<"YI SYLLABLE NRO", 41881>>, <<"YI SYLLABLE NROP", 41882>>, <<"YI SYLLABLE NRET", 41883>>,
    <<"YI SYLLABLE NREX", 41884>>, <<"YI SYLLABLE NRE", 41885>>, <<"YI SYLLABLE NREP", 41886>>,
    <<"YI SYLLABLE NRUT", 41887>>, <<"YI SYLLABLE NRUX", 41888>>, <<"YI SYLLABLE NRU", 41889>>,
    <<"YI SYLLABLE NRUP", 41890>>, <<"YI SYLLABLE NRURX", 41891>>, <<"YI SYLLABLE NRUR", 41892>>,
    <<"YI SYLLABLE NRYT", 41893>>, <<"YI SYLLABLE NRYX", 41894>>, <<"YI SYLLABLE NRY", 41895>>,
    <<"YI SYLLABLE NRYP", 41896>>, <<"YI SYLLABLE NRYRX", 41897>>, <<"YI SYLLABLE NRYR", 41898>>,
    <<"YI SYLLABLE SHAT", 41899>>, <<"YI SYLLABLE SHAX", 41900>>, <<"YI SYLLABLE SHA", 41901>>,
    <<"YI SYLLABLE SHAP", 41902>>, <<"YI SYLLABLE SHUOX", 41903>>, <<"YI SYLLABLE SHUO", 41904>>,
    <<"YI SYLLABLE SHUOP", 41905>>, <<"YI SYLLABLE SHOT", 41906>>, <<"YI SYLLABLE SHOX", 41907>>,
    <<"YI SYLLABLE SHO", 41908>>, <<"YI SYLLABLE SHOP", 41909>>, <<"YI SYLLABLE SHET", 41910>>,
    <<"YI SYLLABLE SHEX", 41911>>, <<"YI SYLLABLE SHE", 41912>>, <<"YI SYLLABLE SHEP", 41913>>,
    <<"YI SYLLABLE SHUT", 41914>>, <<"YI SYLLABLE SHUX", 41915>>, <<"YI SYLLABLE SHU", 41916>>,
    <<"YI SYLLABLE SHUP", 41917>>, <<"YI SYLLABLE SHURX", 41918>>, <<"YI SYLLABLE SHUR", 41919>>,
    <<"YI SYLLABLE SHYT", 41920>>, <<"YI SYLLABLE SHYX", 41921>>, <<"YI SYLLABLE SHY", 41922>>,
    <<"YI SYLLABLE SHYP", 41923>>, <<"YI SYLLABLE SHYRX", 41924>>, <<"YI SYLLABLE SHYR", 41925>>,
    <<"YI SYLLABLE RAT", 41926>>, <<"YI SYLLABLE RAX", 41927>>, <<"YI SYLLABLE RA", 41928>>,
    <<"YI SYLLABLE RAP", 41929>>, <<"YI SYLLABLE RUOX", 41930>>, <<"YI SYLLABLE RUO", 41931>>,
    <<"YI SYLLABLE RUOP", 41932>>, <<"YI SYLLABLE ROT", 41933>>, <<"YI SYLLABLE ROX", 41934>>,
    <<"YI SYLLABLE RO", 41935>>, <<"YI SYLLABLE ROP", 41936>>, <<"YI SYLLABLE REX", 41937>>,
    <<"YI SYLLABLE RE", 41938>>, <<"YI SYLLABLE REP", 41939>>, <<"YI SYLLABLE RUT", 41940>>,
    <<"YI SYLLABLE RUX", 41941>>, <<"YI SYLLABLE RU", 41942>>, <<"YI SYLLABLE RUP", 41943>>,
    <<"YI SYLLABLE RURX", 41944>>, <<"YI SYLLABLE RUR", 41945>>, <<"YI SYLLABLE RYT", 41946>>,
    <<"YI SYLLABLE RYX", 41947>>, <<"YI SYLLABLE RY", 41948>>, <<"YI SYLLABLE RYP", 41949>>,
    <<"YI SYLLABLE RYRX", 41950>>, <<"YI SYLLABLE RYR", 41951>>, <<"YI SYLLABLE JIT", 41952>>,
    <<"YI SYLLABLE JIX", 41953>>, <<"YI SYLLABLE JI", 41954>>, <<"YI SYLLABLE JIP", 41955>>,
    <<"YI SYLLABLE JIET", 41956>>, <<"YI SYLLABLE JIEX", 41957>>, <<"YI SYLLABLE JIE", 41958>>,
    <<"YI SYLLABLE JIEP", 41959>>, <<"YI SYLLABLE JUOT", 41960>>, <<"YI SYLLABLE JUOX", 41961>>,
    <<"YI SYLLABLE JUO", 41962>>, <<"YI SYLLABLE JUOP", 41963>>, <<"YI SYLLABLE JOT", 41964>>,
    <<"YI SYLLABLE JOX", 41965>>, <<"YI SYLLABLE JO", 41966>>, <<"YI SYLLABLE JOP", 41967>>,
    <<"YI SYLLABLE JUT", 41968>>, <<"YI SYLLABLE JUX", 41969>>, <<"YI SYLLABLE JU", 41970>>,
    <<"YI SYLLABLE JUP", 41971>>, <<"YI SYLLABLE JURX", 41972>>, <<"YI SYLLABLE JUR", 41973>>,
    <<"YI SYLLABLE JYT", 41974>>, <<"YI SYLLABLE JYX", 41975>>, <<"YI SYLLABLE JY", 41976>>,
    <<"YI SYLLABLE JYP", 41977>>, <<"YI SYLLABLE JYRX", 41978>>, <<"YI SYLLABLE JYR", 41979>>,
    <<"YI SYLLABLE QIT", 41980>>, <<"YI SYLLABLE QIX", 41981>>, <<"YI SYLLABLE QI", 41982>>,
    <<"YI SYLLABLE QIP", 41983>>, <<"YI SYLLABLE QIET", 41984>>, <<"YI SYLLABLE QIEX", 41985>>,
    <<"YI SYLLABLE QIE", 41986>>, <<"YI SYLLABLE QIEP", 41987>>, <<"YI SYLLABLE QUOT", 41988>>,
    <<"YI SYLLABLE QUOX", 41989>>, <<"YI SYLLABLE QUO", 41990>>, <<"YI SYLLABLE QUOP", 41991>>,
    <<"YI SYLLABLE QOT", 41992>>, <<"YI SYLLABLE QOX", 41993>>, <<"YI SYLLABLE QO", 41994>>,
    <<"YI SYLLABLE QOP", 41995>>, <<"YI SYLLABLE QUT", 41996>>, <<"YI SYLLABLE QUX", 41997>>,
    <<"YI SYLLABLE QU", 41998>>, <<"YI SYLLABLE QUP", 41999>>, <<"YI SYLLABLE QURX", 42000>>,
    <<"YI SYLLABLE QUR", 42001>>, <<"YI SYLLABLE QYT", 42002>>, <<"YI SYLLABLE QYX", 42003>>,
    <<"YI SYLLABLE QY", 42004>>, <<"YI SYLLABLE QYP", 42005>>, <<"YI SYLLABLE QYRX", 42006>>,
    <<"YI SYLLABLE QYR", 42007>>, <<"YI SYLLABLE JJIT", 42008>>, <<"YI SYLLABLE JJIX", 42009>>,
    <<"YI SYLLABLE JJI", 42010>>, <<"YI SYLLABLE JJIP", 42011>>, <<"YI SYLLABLE JJIET", 42012>>,
    <<"YI SYLLABLE JJIEX", 42013>>, <<"YI SYLLABLE JJIE", 42014>>, <<"YI SYLLABLE JJIEP", 42015>>,
    <<"YI SYLLABLE JJUOX", 42016>>, <<"YI SYLLABLE JJUO", 42017>>, <<"YI SYLLABLE JJUOP", 42018>>,
    <<"YI SYLLABLE JJOT", 42019>>, <<"YI SYLLABLE JJOX", 42020>>, <<"YI SYLLABLE JJO", 42021>>,
    <<"YI SYLLABLE JJOP", 42022>>, <<"YI SYLLABLE JJUT", 42023>>, <<"YI SYLLABLE JJUX", 42024>>,
    <<"YI SYLLABLE JJU", 42025>>, <<"YI SYLLABLE JJUP", 42026>>, <<"YI SYLLABLE JJURX", 42027>>,
    <<"YI SYLLABLE JJUR", 42028>>, <<"YI SYLLABLE JJYT", 42029>>, <<"YI SYLLABLE JJYX", 42030>>,
    <<"YI SYLLABLE JJY", 42031>>, <<"YI SYLLABLE JJYP", 42032>>, <<"YI SYLLABLE NJIT", 42033>>,
    <<"YI SYLLABLE NJIX", 42034>>, <<"YI SYLLABLE NJI", 42035>>, <<"YI SYLLABLE NJIP", 42036>>,
    <<"YI SYLLABLE NJIET", 42037>>, <<"YI SYLLABLE NJIEX", 42038>>, <<"YI SYLLABLE NJIE", 42039>>,
    <<"YI SYLLABLE NJIEP", 42040>>, <<"YI SYLLABLE NJUOX", 42041>>, <<"YI SYLLABLE NJUO", 42042>>,
    <<"YI SYLLABLE NJOT", 42043>>, <<"YI SYLLABLE NJOX", 42044>>, <<"YI SYLLABLE NJO", 42045>>,
    <<"YI SYLLABLE NJOP", 42046>>, <<"YI SYLLABLE NJUX", 42047>>, <<"YI SYLLABLE NJU", 42048>>,
    <<"YI SYLLABLE NJUP", 42049>>, <<"YI SYLLABLE NJURX", 42050>>, <<"YI SYLLABLE NJUR", 42051>>,
    <<"YI SYLLABLE NJYT", 42052>>, <<"YI SYLLABLE NJYX", 42053>>, <<"YI SYLLABLE NJY", 42054>>,
    <<"YI SYLLABLE NJYP", 42055>>, <<"YI SYLLABLE NJYRX", 42056>>, <<"YI SYLLABLE NJYR", 42057>>,
    <<"YI SYLLABLE NYIT", 42058>>, <<"YI SYLLABLE NYIX", 42059>>, <<"YI SYLLABLE NYI", 42060>>,
    <<"YI SYLLABLE NYIP", 42061>>, <<"YI SYLLABLE NYIET", 42062>>, <<"YI SYLLABLE NYIEX", 42063>>,
    <<"YI SYLLABLE NYIE", 42064>>, <<"YI SYLLABLE NYIEP", 42065>>, <<"YI SYLLABLE NYUOX", 42066>>,
    <<"YI SYLLABLE NYUO", 42067>>, <<"YI SYLLABLE NYUOP", 42068>>, <<"YI SYLLABLE NYOT", 42069>>,
    <<"YI SYLLABLE NYOX", 42070>>, <<"YI SYLLABLE NYO", 42071>>, <<"YI SYLLABLE NYOP", 42072>>,
    <<"YI SYLLABLE NYUT", 42073>>, <<"YI SYLLABLE NYUX", 42074>>, <<"YI SYLLABLE NYU", 42075>>,
    <<"YI SYLLABLE NYUP", 42076>>, <<"YI SYLLABLE XIT", 42077>>, <<"YI SYLLABLE XIX", 42078>>,
    <<"YI SYLLABLE XI", 42079>>, <<"YI SYLLABLE XIP", 42080>>, <<"YI SYLLABLE XIET", 42081>>,
    <<"YI SYLLABLE XIEX", 42082>>, <<"YI SYLLABLE XIE", 42083>>, <<"YI SYLLABLE XIEP", 42084>>,
    <<"YI SYLLABLE XUOX", 42085>>, <<"YI SYLLABLE XUO", 42086>>, <<"YI SYLLABLE XOT", 42087>>,
    <<"YI SYLLABLE XOX", 42088>>, <<"YI SYLLABLE XO", 42089>>, <<"YI SYLLABLE XOP", 42090>>,
    <<"YI SYLLABLE XYT", 42091>>, <<"YI SYLLABLE XYX", 42092>>, <<"YI SYLLABLE XY", 42093>>,
    <<"YI SYLLABLE XYP", 42094>>, <<"YI SYLLABLE XYRX", 42095>>, <<"YI SYLLABLE XYR", 42096>>,
    <<"YI SYLLABLE YIT", 42097>>, <<"YI SYLLABLE YIX", 42098>>, <<"YI SYLLABLE YI", 42099>>,
    <<"YI SYLLABLE YIP", 42100>>, <<"YI SYLLABLE YIET", 42101>>, <<"YI SYLLABLE YIEX", 42102>>,
    <<"YI SYLLABLE YIE", 42103>>, <<"YI SYLLABLE YIEP", 42104>>, <<"YI SYLLABLE YUOT", 42105>>,
    <<"YI SYLLABLE YUOX", 42106>>, <<"YI SYLLABLE YUO", 42107>>, <<"YI SYLLABLE YUOP", 42108>>,
    <<"YI SYLLABLE YOT", 42109>>, <<"YI SYLLABLE YOX", 42110>>, <<"YI SYLLABLE YO", 42111>>,
    <<"YI SYLLABLE YOP", 42112>>, <<"YI SYLLABLE YUT", 42113>>, <<"YI SYLLABLE YUX", 42114>>,
    <<"YI SYLLABLE YU", 42115>>, <<"YI SYLLABLE YUP", 42116>>, <<"YI SYLLABLE YURX", 42117>>,
    <<"YI SYLLABLE YUR", 42118>>, <<"YI SYLLABLE YYT", 42119>>, <<"YI SYLLABLE YYX", 42120>>,
    <<"YI SYLLABLE YY", 42121>>, <<"YI SYLLABLE YYP", 42122>>, <<"YI SYLLABLE YYRX", 42123>>,
    <<"YI SYLLABLE YYR", 42124>>, <<"YI RADICAL QOT", 42128>>, <<"YI RADICAL LI", 42129>>,
    <<"YI RADICAL KIT", 42130>>, <<"YI RADICAL NYIP", 42131>>, <<"YI RADICAL CYP", 42132>>,
    <<"YI RADICAL SSI", 42133>>, <<"YI RADICAL GGOP", 42134>>, <<"YI RADICAL GEP", 42135>>,
    <<"YI RADICAL MI", 42136>>, <<"YI RADICAL HXIT", 42137>>, <<"YI RADICAL LYR", 42138>>,
    <<"YI RADICAL BBUT", 42139>>, <<"YI RADICAL MOP", 42140>>, <<"YI RADICAL YO", 42141>>,
    <<"YI RADICAL PUT", 42142>>, <<"YI RADICAL HXUO", 42143>>, <<"YI RADICAL TAT", 42144>>,
    <<"YI RADICAL GA", 42145>>, <<"YI RADICAL ZUP", 42146>>, <<"YI RADICAL CYT", 42147>>,
    <<"YI RADICAL DDUR", 42148>>, <<"YI RADICAL BUR", 42149>>, <<"YI RADICAL GGUO", 42150>>,
    <<"YI RADICAL NYOP", 42151>>, <<"YI RADICAL TU", 42152>>, <<"YI RADICAL OP", 42153>>,
    <<"YI RADICAL JJUT", 42154>>, <<"YI RADICAL ZOT", 42155>>, <<"YI RADICAL PYT", 42156>>,
    <<"YI RADICAL HMO", 42157>>, <<"YI RADICAL YIT", 42158>>, <<"YI RADICAL VUR", 42159>>,
    <<"YI RADICAL SHY", 42160>>, <<"YI RADICAL VEP", 42161>>, <<"YI RADICAL ZA", 42162>>,
    <<"YI RADICAL JO", 42163>>, <<"YI RADICAL NZUP", 42164>>, <<"YI RADICAL JJY", 42165>>,
    <<"YI RADICAL GOT", 42166>>, <<"YI RADICAL JJIE", 42167>>, <<"YI RADICAL WO", 42168>>,
    <<"YI RADICAL DU", 42169>>, <<"YI RADICAL SHUR", 42170>>, <<"YI RADICAL LIE", 42171>>,
    <<"YI RADICAL CY", 42172>>, <<"YI RADICAL CUOP", 42173>>, <<"YI RADICAL CIP", 42174>>,
    <<"YI RADICAL HXOP", 42175>>, <<"YI RADICAL SHAT", 42176>>, <<"YI RADICAL ZUR", 42177>>,
    <<"YI RADICAL SHOP", 42178>>, <<"YI RADICAL CHE", 42179>>, <<"YI RADICAL ZZIET", 42180>>,
    <<"YI RADICAL NBIE", 42181>>, <<"YI RADICAL KE", 42182>>, <<"LISU LETTER BA", 42192>>,
    <<"LISU LETTER PA", 42193>>, <<"LISU LETTER PHA", 42194>>, <<"LISU LETTER DA", 42195>>,
    <<"LISU LETTER TA", 42196>>, <<"LISU LETTER THA", 42197>>, <<"LISU LETTER GA", 42198>>,
    <<"LISU LETTER KA", 42199>>, <<"LISU LETTER KHA", 42200>>, <<"LISU LETTER JA", 42201>>,
    <<"LISU LETTER CA", 42202>>, <<"LISU LETTER CHA", 42203>>, <<"LISU LETTER DZA", 42204>>,
    <<"LISU LETTER TSA", 42205>>, <<"LISU LETTER TSHA", 42206>>, <<"LISU LETTER MA", 42207>>,
    <<"LISU LETTER NA", 42208>>, <<"LISU LETTER LA", 42209>>, <<"LISU LETTER SA", 42210>>,
    <<"LISU LETTER ZHA", 42211>>, <<"LISU LETTER ZA", 42212>>, <<"LISU LETTER NGA", 42213>>,
    <<"LISU LETTER HA", 42214>>, <<"LISU LETTER XA", 42215>>, <<"LISU LETTER HHA", 42216>>,
    <<"LISU LETTER FA", 42217>>, <<"LISU LETTER WA", 42218>>, <<"LISU LETTER SHA", 42219>>,
    <<"LISU LETTER YA", 42220>>, <<"LISU LETTER GHA", 42221>>, <<"LISU LETTER A", 42222>>,
    <<"LISU LETTER AE", 42223>>, <<"LISU LETTER E", 42224>>, <<"LISU LETTER EU", 42225>>,
    <<"LISU LETTER I", 42226>>, <<"LISU LETTER O", 42227>>, <<"LISU LETTER U", 42228>>,
    <<"LISU LETTER UE", 42229>>, <<"LISU LETTER UH", 42230>>, <<"LISU LETTER OE", 42231>>,
    <<"LISU LETTER TONE MYA TI", 42232>>, <<"LISU LETTER TONE NA PO", 42233>>,
    <<"LISU LETTER TONE MYA CYA", 42234>>, <<"LISU LETTER TONE MYA BO", 42235>>,
    <<"LISU LETTER TONE MYA NA", 42236>>, <<"LISU LETTER TONE MYA JEU", 42237>>,
    <<"LISU PUNCTUATION COMMA", 42238>>, <<"LISU PUNCTUATION FULL STOP", 42239>>,
    <<"VAI SYLLABLE EE", 42240>>, <<"VAI SYLLABLE EEN", 42241>>, <<"VAI SYLLABLE HEE", 42242>>,
    <<"VAI SYLLABLE WEE", 42243>>, <<"VAI SYLLABLE WEEN", 42244>>, <<"VAI SYLLABLE PEE", 42245>>,
    <<"VAI SYLLABLE BHEE", 42246>>, <<"VAI SYLLABLE BEE", 42247>>, <<"VAI SYLLABLE MBEE", 42248>>,
    <<"VAI SYLLABLE KPEE", 42249>>, <<"VAI SYLLABLE MGBEE", 42250>>, <<"VAI SYLLABLE GBEE", 42251>>,
    <<"VAI SYLLABLE FEE", 42252>>, <<"VAI SYLLABLE VEE", 42253>>, <<"VAI SYLLABLE TEE", 42254>>,
    <<"VAI SYLLABLE THEE", 42255>>, <<"VAI SYLLABLE DHEE", 42256>>, <<"VAI SYLLABLE DHHEE", 42257>>,
    <<"VAI SYLLABLE LEE", 42258>>, <<"VAI SYLLABLE REE", 42259>>, <<"VAI SYLLABLE DEE", 42260>>,
    <<"VAI SYLLABLE NDEE", 42261>>, <<"VAI SYLLABLE SEE", 42262>>, <<"VAI SYLLABLE SHEE", 42263>>,
    <<"VAI SYLLABLE ZEE", 42264>>, <<"VAI SYLLABLE ZHEE", 42265>>, <<"VAI SYLLABLE CEE", 42266>>,
    <<"VAI SYLLABLE JEE", 42267>>, <<"VAI SYLLABLE NJEE", 42268>>, <<"VAI SYLLABLE YEE", 42269>>,
    <<"VAI SYLLABLE KEE", 42270>>, <<"VAI SYLLABLE NGGEE", 42271>>, <<"VAI SYLLABLE GEE", 42272>>,
    <<"VAI SYLLABLE MEE", 42273>>, <<"VAI SYLLABLE NEE", 42274>>, <<"VAI SYLLABLE NYEE", 42275>>,
    <<"VAI SYLLABLE I", 42276>>, <<"VAI SYLLABLE IN", 42277>>, <<"VAI SYLLABLE HI", 42278>>,
    <<"VAI SYLLABLE HIN", 42279>>, <<"VAI SYLLABLE WI", 42280>>, <<"VAI SYLLABLE WIN", 42281>>,
    <<"VAI SYLLABLE PI", 42282>>, <<"VAI SYLLABLE BHI", 42283>>, <<"VAI SYLLABLE BI", 42284>>,
    <<"VAI SYLLABLE MBI", 42285>>, <<"VAI SYLLABLE KPI", 42286>>, <<"VAI SYLLABLE MGBI", 42287>>,
    <<"VAI SYLLABLE GBI", 42288>>, <<"VAI SYLLABLE FI", 42289>>, <<"VAI SYLLABLE VI", 42290>>,
    <<"VAI SYLLABLE TI", 42291>>, <<"VAI SYLLABLE THI", 42292>>, <<"VAI SYLLABLE DHI", 42293>>,
    <<"VAI SYLLABLE DHHI", 42294>>, <<"VAI SYLLABLE LI", 42295>>, <<"VAI SYLLABLE RI", 42296>>,
    <<"VAI SYLLABLE DI", 42297>>, <<"VAI SYLLABLE NDI", 42298>>, <<"VAI SYLLABLE SI", 42299>>,
    <<"VAI SYLLABLE SHI", 42300>>, <<"VAI SYLLABLE ZI", 42301>>, <<"VAI SYLLABLE ZHI", 42302>>,
    <<"VAI SYLLABLE CI", 42303>>, <<"VAI SYLLABLE JI", 42304>>, <<"VAI SYLLABLE NJI", 42305>>,
    <<"VAI SYLLABLE YI", 42306>>, <<"VAI SYLLABLE KI", 42307>>, <<"VAI SYLLABLE NGGI", 42308>>,
    <<"VAI SYLLABLE GI", 42309>>, <<"VAI SYLLABLE MI", 42310>>, <<"VAI SYLLABLE NI", 42311>>,
    <<"VAI SYLLABLE NYI", 42312>>, <<"VAI SYLLABLE A", 42313>>, <<"VAI SYLLABLE AN", 42314>>,
    <<"VAI SYLLABLE NGAN", 42315>>, <<"VAI SYLLABLE HA", 42316>>, <<"VAI SYLLABLE HAN", 42317>>,
    <<"VAI SYLLABLE WA", 42318>>, <<"VAI SYLLABLE WAN", 42319>>, <<"VAI SYLLABLE PA", 42320>>,
    <<"VAI SYLLABLE BHA", 42321>>, <<"VAI SYLLABLE BA", 42322>>, <<"VAI SYLLABLE MBA", 42323>>,
    <<"VAI SYLLABLE KPA", 42324>>, <<"VAI SYLLABLE KPAN", 42325>>, <<"VAI SYLLABLE MGBA", 42326>>,
    <<"VAI SYLLABLE GBA", 42327>>, <<"VAI SYLLABLE FA", 42328>>, <<"VAI SYLLABLE VA", 42329>>,
    <<"VAI SYLLABLE TA", 42330>>, <<"VAI SYLLABLE THA", 42331>>, <<"VAI SYLLABLE DHA", 42332>>,
    <<"VAI SYLLABLE DHHA", 42333>>, <<"VAI SYLLABLE LA", 42334>>, <<"VAI SYLLABLE RA", 42335>>,
    <<"VAI SYLLABLE DA", 42336>>, <<"VAI SYLLABLE NDA", 42337>>, <<"VAI SYLLABLE SA", 42338>>,
    <<"VAI SYLLABLE SHA", 42339>>, <<"VAI SYLLABLE ZA", 42340>>, <<"VAI SYLLABLE ZHA", 42341>>,
    <<"VAI SYLLABLE CA", 42342>>, <<"VAI SYLLABLE JA", 42343>>, <<"VAI SYLLABLE NJA", 42344>>,
    <<"VAI SYLLABLE YA", 42345>>, <<"VAI SYLLABLE KA", 42346>>, <<"VAI SYLLABLE KAN", 42347>>,
    <<"VAI SYLLABLE NGGA", 42348>>, <<"VAI SYLLABLE GA", 42349>>, <<"VAI SYLLABLE MA", 42350>>,
    <<"VAI SYLLABLE NA", 42351>>, <<"VAI SYLLABLE NYA", 42352>>, <<"VAI SYLLABLE OO", 42353>>,
    <<"VAI SYLLABLE OON", 42354>>, <<"VAI SYLLABLE HOO", 42355>>, <<"VAI SYLLABLE WOO", 42356>>,
    <<"VAI SYLLABLE WOON", 42357>>, <<"VAI SYLLABLE POO", 42358>>, <<"VAI SYLLABLE BHOO", 42359>>,
    <<"VAI SYLLABLE BOO", 42360>>, <<"VAI SYLLABLE MBOO", 42361>>, <<"VAI SYLLABLE KPOO", 42362>>,
    <<"VAI SYLLABLE MGBOO", 42363>>, <<"VAI SYLLABLE GBOO", 42364>>, <<"VAI SYLLABLE FOO", 42365>>,
    <<"VAI SYLLABLE VOO", 42366>>, <<"VAI SYLLABLE TOO", 42367>>, <<"VAI SYLLABLE THOO", 42368>>,
    <<"VAI SYLLABLE DHOO", 42369>>, <<"VAI SYLLABLE DHHOO", 42370>>, <<"VAI SYLLABLE LOO", 42371>>,
    <<"VAI SYLLABLE ROO", 42372>>, <<"VAI SYLLABLE DOO", 42373>>, <<"VAI SYLLABLE NDOO", 42374>>,
    <<"VAI SYLLABLE SOO", 42375>>, <<"VAI SYLLABLE SHOO", 42376>>, <<"VAI SYLLABLE ZOO", 42377>>,
    <<"VAI SYLLABLE ZHOO", 42378>>, <<"VAI SYLLABLE COO", 42379>>, <<"VAI SYLLABLE JOO", 42380>>,
    <<"VAI SYLLABLE NJOO", 42381>>, <<"VAI SYLLABLE YOO", 42382>>, <<"VAI SYLLABLE KOO", 42383>>,
    <<"VAI SYLLABLE NGGOO", 42384>>, <<"VAI SYLLABLE GOO", 42385>>, <<"VAI SYLLABLE MOO", 42386>>,
    <<"VAI SYLLABLE NOO", 42387>>, <<"VAI SYLLABLE NYOO", 42388>>, <<"VAI SYLLABLE U", 42389>>,
    <<"VAI SYLLABLE UN", 42390>>, <<"VAI SYLLABLE HU", 42391>>, <<"VAI SYLLABLE HUN", 42392>>,
    <<"VAI SYLLABLE WU", 42393>>, <<"VAI SYLLABLE WUN", 42394>>, <<"VAI SYLLABLE PU", 42395>>,
    <<"VAI SYLLABLE BHU", 42396>>, <<"VAI SYLLABLE BU", 42397>>, <<"VAI SYLLABLE MBU", 42398>>,
    <<"VAI SYLLABLE KPU", 42399>>, <<"VAI SYLLABLE MGBU", 42400>>, <<"VAI SYLLABLE GBU", 42401>>,
    <<"VAI SYLLABLE FU", 42402>>, <<"VAI SYLLABLE VU", 42403>>, <<"VAI SYLLABLE TU", 42404>>,
    <<"VAI SYLLABLE THU", 42405>>, <<"VAI SYLLABLE DHU", 42406>>, <<"VAI SYLLABLE DHHU", 42407>>,
    <<"VAI SYLLABLE LU", 42408>>, <<"VAI SYLLABLE RU", 42409>>, <<"VAI SYLLABLE DU", 42410>>,
    <<"VAI SYLLABLE NDU", 42411>>, <<"VAI SYLLABLE SU", 42412>>, <<"VAI SYLLABLE SHU", 42413>>,
    <<"VAI SYLLABLE ZU", 42414>>, <<"VAI SYLLABLE ZHU", 42415>>, <<"VAI SYLLABLE CU", 42416>>,
    <<"VAI SYLLABLE JU", 42417>>, <<"VAI SYLLABLE NJU", 42418>>, <<"VAI SYLLABLE YU", 42419>>,
    <<"VAI SYLLABLE KU", 42420>>, <<"VAI SYLLABLE NGGU", 42421>>, <<"VAI SYLLABLE GU", 42422>>,
    <<"VAI SYLLABLE MU", 42423>>, <<"VAI SYLLABLE NU", 42424>>, <<"VAI SYLLABLE NYU", 42425>>,
    <<"VAI SYLLABLE O", 42426>>, <<"VAI SYLLABLE ON", 42427>>, <<"VAI SYLLABLE NGON", 42428>>,
    <<"VAI SYLLABLE HO", 42429>>, <<"VAI SYLLABLE HON", 42430>>, <<"VAI SYLLABLE WO", 42431>>,
    <<"VAI SYLLABLE WON", 42432>>, <<"VAI SYLLABLE PO", 42433>>, <<"VAI SYLLABLE BHO", 42434>>,
    <<"VAI SYLLABLE BO", 42435>>, <<"VAI SYLLABLE MBO", 42436>>, <<"VAI SYLLABLE KPO", 42437>>,
    <<"VAI SYLLABLE MGBO", 42438>>, <<"VAI SYLLABLE GBO", 42439>>, <<"VAI SYLLABLE GBON", 42440>>,
    <<"VAI SYLLABLE FO", 42441>>, <<"VAI SYLLABLE VO", 42442>>, <<"VAI SYLLABLE TO", 42443>>,
    <<"VAI SYLLABLE THO", 42444>>, <<"VAI SYLLABLE DHO", 42445>>, <<"VAI SYLLABLE DHHO", 42446>>,
    <<"VAI SYLLABLE LO", 42447>>, <<"VAI SYLLABLE RO", 42448>>, <<"VAI SYLLABLE DO", 42449>>,
    <<"VAI SYLLABLE NDO", 42450>>, <<"VAI SYLLABLE SO", 42451>>, <<"VAI SYLLABLE SHO", 42452>>,
    <<"VAI SYLLABLE ZO", 42453>>, <<"VAI SYLLABLE ZHO", 42454>>, <<"VAI SYLLABLE CO", 42455>>,
    <<"VAI SYLLABLE JO", 42456>>, <<"VAI SYLLABLE NJO", 42457>>, <<"VAI SYLLABLE YO", 42458>>,
    <<"VAI SYLLABLE KO", 42459>>, <<"VAI SYLLABLE NGGO", 42460>>, <<"VAI SYLLABLE GO", 42461>>,
    <<"VAI SYLLABLE MO", 42462>>, <<"VAI SYLLABLE NO", 42463>>, <<"VAI SYLLABLE NYO", 42464>>,
    <<"VAI SYLLABLE E", 42465>>, <<"VAI SYLLABLE EN", 42466>>, <<"VAI SYLLABLE NGEN", 42467>>,
    <<"VAI SYLLABLE HE", 42468>>, <<"VAI SYLLABLE HEN", 42469>>, <<"VAI SYLLABLE WE", 42470>>,
    <<"VAI SYLLABLE WEN", 42471>>, <<"VAI SYLLABLE PE", 42472>>, <<"VAI SYLLABLE BHE", 42473>>,
    <<"VAI SYLLABLE BE", 42474>>, <<"VAI SYLLABLE MBE", 42475>>, <<"VAI SYLLABLE KPE", 42476>>,
    <<"VAI SYLLABLE KPEN", 42477>>, <<"VAI SYLLABLE MGBE", 42478>>, <<"VAI SYLLABLE GBE", 42479>>,
    <<"VAI SYLLABLE GBEN", 42480>>, <<"VAI SYLLABLE FE", 42481>>, <<"VAI SYLLABLE VE", 42482>>,
    <<"VAI SYLLABLE TE", 42483>>, <<"VAI SYLLABLE THE", 42484>>, <<"VAI SYLLABLE DHE", 42485>>,
    <<"VAI SYLLABLE DHHE", 42486>>, <<"VAI SYLLABLE LE", 42487>>, <<"VAI SYLLABLE RE", 42488>>,
    <<"VAI SYLLABLE DE", 42489>>, <<"VAI SYLLABLE NDE", 42490>>, <<"VAI SYLLABLE SE", 42491>>,
    <<"VAI SYLLABLE SHE", 42492>>, <<"VAI SYLLABLE ZE", 42493>>, <<"VAI SYLLABLE ZHE", 42494>>,
    <<"VAI SYLLABLE CE", 42495>>, <<"VAI SYLLABLE JE", 42496>>, <<"VAI SYLLABLE NJE", 42497>>,
    <<"VAI SYLLABLE YE", 42498>>, <<"VAI SYLLABLE KE", 42499>>, <<"VAI SYLLABLE NGGE", 42500>>,
    <<"VAI SYLLABLE NGGEN", 42501>>, <<"VAI SYLLABLE GE", 42502>>, <<"VAI SYLLABLE GEN", 42503>>,
    <<"VAI SYLLABLE ME", 42504>>, <<"VAI SYLLABLE NE", 42505>>, <<"VAI SYLLABLE NYE", 42506>>,
    <<"VAI SYLLABLE NG", 42507>>, <<"VAI SYLLABLE LENGTHENER", 42508>>, <<"VAI COMMA", 42509>>,
    <<"VAI FULL STOP", 42510>>, <<"VAI QUESTION MARK", 42511>>, <<"VAI SYLLABLE NDOLE FA", 42512>>,
    <<"VAI SYLLABLE NDOLE KA", 42513>>, <<"VAI SYLLABLE NDOLE SOO", 42514>>,
    <<"VAI SYMBOL FEENG", 42515>>, <<"VAI SYMBOL KEENG", 42516>>, <<"VAI SYMBOL TING", 42517>>,
    <<"VAI SYMBOL NII", 42518>>, <<"VAI SYMBOL BANG", 42519>>, <<"VAI SYMBOL FAA", 42520>>,
    <<"VAI SYMBOL TAA", 42521>>, <<"VAI SYMBOL DANG", 42522>>, <<"VAI SYMBOL DOONG", 42523>>,
    <<"VAI SYMBOL KUNG", 42524>>, <<"VAI SYMBOL TONG", 42525>>, <<"VAI SYMBOL DO-O", 42526>>,
    <<"VAI SYMBOL JONG", 42527>>, <<"VAI DIGIT ZERO", 42528>>, <<"VAI DIGIT ONE", 42529>>,
    <<"VAI DIGIT TWO", 42530>>, <<"VAI DIGIT THREE", 42531>>, <<"VAI DIGIT FOUR", 42532>>,
    <<"VAI DIGIT FIVE", 42533>>, <<"VAI DIGIT SIX", 42534>>, <<"VAI DIGIT SEVEN", 42535>>,
    <<"VAI DIGIT EIGHT", 42536>>, <<"VAI DIGIT NINE", 42537>>, <<"VAI SYLLABLE NDOLE MA", 42538>>,
    <<"VAI SYLLABLE NDOLE DO", 42539>>, <<"CYRILLIC CAPITAL LETTER ZEMLYA", 42560>>,
    <<"CYRILLIC SMALL LETTER ZEMLYA", 42561>>, <<"CYRILLIC CAPITAL LETTER DZELO", 42562>>,
    <<"CYRILLIC SMALL LETTER DZELO", 42563>>, <<"CYRILLIC CAPITAL LETTER REVERSED DZE", 42564>>,
    <<"CYRILLIC SMALL LETTER REVERSED DZE", 42565>>, <<"CYRILLIC CAPITAL LETTER IOTA", 42566>>,
    <<"CYRILLIC SMALL LETTER IOTA", 42567>>, <<"CYRILLIC CAPITAL LETTER DJERV", 42568>>,
    <<"CYRILLIC SMALL LETTER DJERV", 42569>>, <<"CYRILLIC CAPITAL LETTER MONOGRAPH UK", 42570>>,
    <<"CYRILLIC SMALL LETTER MONOGRAPH UK", 42571>>, <<"CYRILLIC CAPITAL LETTER BROAD OMEGA", 42572>>,
    <<"CYRILLIC SMALL LETTER BROAD OMEGA", 42573>>, <<"CYRILLIC CAPITAL LETTER NEUTRAL YER", 42574>>,
    <<"CYRILLIC SMALL LETTER NEUTRAL YER", 42575>>,
    <<"CYRILLIC CAPITAL LETTER YERU WITH BACK YER", 42576>>,
    <<"CYRILLIC SMALL LETTER YERU WITH BACK YER", 42577>>,
    <<"CYRILLIC CAPITAL LETTER IOTIFIED YAT", 42578>>, <<"CYRILLIC SMALL LETTER IOTIFIED YAT", 42579>>,
    <<"CYRILLIC CAPITAL LETTER REVERSED YU", 42580>>, <<"CYRILLIC SMALL LETTER REVERSED YU", 42581>>,
    <<"CYRILLIC CAPITAL LETTER IOTIFIED A", 42582>>, <<"CYRILLIC SMALL LETTER IOTIFIED A", 42583>>,
    <<"CYRILLIC CAPITAL LETTER CLOSED LITTLE YUS", 42584>>,
    <<"CYRILLIC SMALL LETTER CLOSED LITTLE YUS", 42585>>,
    <<"CYRILLIC CAPITAL LETTER BLENDED YUS", 42586>>, <<"CYRILLIC SMALL LETTER BLENDED YUS", 42587>>,
    <<"CYRILLIC CAPITAL LETTER IOTIFIED CLOSED LITTLE YUS", 42588>>,
    <<"CYRILLIC SMALL LETTER IOTIFIED CLOSED LITTLE YUS", 42589>>,
    <<"CYRILLIC CAPITAL LETTER YN", 42590>>, <<"CYRILLIC SMALL LETTER YN", 42591>>,
    <<"CYRILLIC CAPITAL LETTER REVERSED TSE", 42592>>, <<"CYRILLIC SMALL LETTER REVERSED TSE", 42593>>,
    <<"CYRILLIC CAPITAL LETTER SOFT DE", 42594>>, <<"CYRILLIC SMALL LETTER SOFT DE", 42595>>,
    <<"CYRILLIC CAPITAL LETTER SOFT EL", 42596>>, <<"CYRILLIC SMALL LETTER SOFT EL", 42597>>,
    <<"CYRILLIC CAPITAL LETTER SOFT EM", 42598>>, <<"CYRILLIC SMALL LETTER SOFT EM", 42599>>,
    <<"CYRILLIC CAPITAL LETTER MONOCULAR O", 42600>>, <<"CYRILLIC SMALL LETTER MONOCULAR O", 42601>>,
    <<"CYRILLIC CAPITAL LETTER BINOCULAR O", 42602>>, <<"CYRILLIC SMALL LETTER BINOCULAR O", 42603>>,
    <<"CYRILLIC CAPITAL LETTER DOUBLE MONOCULAR O", 42604>>,
    <<"CYRILLIC SMALL LETTER DOUBLE MONOCULAR O", 42605>>, <<"CYRILLIC LETTER MULTIOCULAR O", 42606>>,
    <<"COMBINING CYRILLIC VZMET", 42607>>, <<"COMBINING CYRILLIC TEN MILLIONS SIGN", 42608>>,
    <<"COMBINING CYRILLIC HUNDRED MILLIONS SIGN", 42609>>,
    <<"COMBINING CYRILLIC THOUSAND MILLIONS SIGN", 42610>>, <<"SLAVONIC ASTERISK", 42611>>,
    <<"COMBINING CYRILLIC LETTER UKRAINIAN IE", 42612>>, <<"COMBINING CYRILLIC LETTER I", 42613>>,
    <<"COMBINING CYRILLIC LETTER YI", 42614>>, <<"COMBINING CYRILLIC LETTER U", 42615>>,
    <<"COMBINING CYRILLIC LETTER HARD SIGN", 42616>>, <<"COMBINING CYRILLIC LETTER YERU", 42617>>,
    <<"COMBINING CYRILLIC LETTER SOFT SIGN", 42618>>, <<"COMBINING CYRILLIC LETTER OMEGA", 42619>>,
    <<"COMBINING CYRILLIC KAVYKA", 42620>>, <<"COMBINING CYRILLIC PAYEROK", 42621>>,
    <<"CYRILLIC KAVYKA", 42622>>, <<"CYRILLIC PAYEROK", 42623>>,
    <<"CYRILLIC CAPITAL LETTER DWE", 42624>>, <<"CYRILLIC SMALL LETTER DWE", 42625>>,
    <<"CYRILLIC CAPITAL LETTER DZWE", 42626>>, <<"CYRILLIC SMALL LETTER DZWE", 42627>>,
    <<"CYRILLIC CAPITAL LETTER ZHWE", 42628>>, <<"CYRILLIC SMALL LETTER ZHWE", 42629>>,
    <<"CYRILLIC CAPITAL LETTER CCHE", 42630>>, <<"CYRILLIC SMALL LETTER CCHE", 42631>>,
    <<"CYRILLIC CAPITAL LETTER DZZE", 42632>>, <<"CYRILLIC SMALL LETTER DZZE", 42633>>,
    <<"CYRILLIC CAPITAL LETTER TE WITH MIDDLE HOOK", 42634>>,
    <<"CYRILLIC SMALL LETTER TE WITH MIDDLE HOOK", 42635>>, <<"CYRILLIC CAPITAL LETTER TWE", 42636>>,
    <<"CYRILLIC SMALL LETTER TWE", 42637>>, <<"CYRILLIC CAPITAL LETTER TSWE", 42638>>,
    <<"CYRILLIC SMALL LETTER TSWE", 42639>>, <<"CYRILLIC CAPITAL LETTER TSSE", 42640>>,
    <<"CYRILLIC SMALL LETTER TSSE", 42641>>, <<"CYRILLIC CAPITAL LETTER TCHE", 42642>>,
    <<"CYRILLIC SMALL LETTER TCHE", 42643>>, <<"CYRILLIC CAPITAL LETTER HWE", 42644>>,
    <<"CYRILLIC SMALL LETTER HWE", 42645>>, <<"CYRILLIC CAPITAL LETTER SHWE", 42646>>,
    <<"CYRILLIC SMALL LETTER SHWE", 42647>>, <<"CYRILLIC CAPITAL LETTER DOUBLE O", 42648>>,
    <<"CYRILLIC SMALL LETTER DOUBLE O", 42649>>, <<"CYRILLIC CAPITAL LETTER CROSSED O", 42650>>,
    <<"CYRILLIC SMALL LETTER CROSSED O", 42651>>, <<"MODIFIER LETTER CYRILLIC HARD SIGN", 42652>>,
    <<"MODIFIER LETTER CYRILLIC SOFT SIGN", 42653>>, <<"COMBINING CYRILLIC LETTER EF", 42654>>,
    <<"COMBINING CYRILLIC LETTER IOTIFIED E", 42655>>, <<"BAMUM LETTER A", 42656>>,
    <<"BAMUM LETTER KA", 42657>>, <<"BAMUM LETTER U", 42658>>, <<"BAMUM LETTER KU", 42659>>,
    <<"BAMUM LETTER EE", 42660>>, <<"BAMUM LETTER REE", 42661>>, <<"BAMUM LETTER TAE", 42662>>,
    <<"BAMUM LETTER O", 42663>>, <<"BAMUM LETTER NYI", 42664>>, <<"BAMUM LETTER I", 42665>>,
    <<"BAMUM LETTER LA", 42666>>, <<"BAMUM LETTER PA", 42667>>, <<"BAMUM LETTER RII", 42668>>,
    <<"BAMUM LETTER RIEE", 42669>>, <<"BAMUM LETTER LEEEE", 42670>>, <<"BAMUM LETTER MEEEE", 42671>>,
    <<"BAMUM LETTER TAA", 42672>>, <<"BAMUM LETTER NDAA", 42673>>, <<"BAMUM LETTER NJAEM", 42674>>,
    <<"BAMUM LETTER M", 42675>>, <<"BAMUM LETTER SUU", 42676>>, <<"BAMUM LETTER MU", 42677>>,
    <<"BAMUM LETTER SHII", 42678>>, <<"BAMUM LETTER SI", 42679>>, <<"BAMUM LETTER SHEUX", 42680>>,
    <<"BAMUM LETTER SEUX", 42681>>, <<"BAMUM LETTER KYEE", 42682>>, <<"BAMUM LETTER KET", 42683>>,
    <<"BAMUM LETTER NUAE", 42684>>, <<"BAMUM LETTER NU", 42685>>, <<"BAMUM LETTER NJUAE", 42686>>,
    <<"BAMUM LETTER YOQ", 42687>>, <<"BAMUM LETTER SHU", 42688>>, <<"BAMUM LETTER YUQ", 42689>>,
    <<"BAMUM LETTER YA", 42690>>, <<"BAMUM LETTER NSHA", 42691>>, <<"BAMUM LETTER KEUX", 42692>>,
    <<"BAMUM LETTER PEUX", 42693>>, <<"BAMUM LETTER NJEE", 42694>>, <<"BAMUM LETTER NTEE", 42695>>,
    <<"BAMUM LETTER PUE", 42696>>, <<"BAMUM LETTER WUE", 42697>>, <<"BAMUM LETTER PEE", 42698>>,
    <<"BAMUM LETTER FEE", 42699>>, <<"BAMUM LETTER RU", 42700>>, <<"BAMUM LETTER LU", 42701>>,
    <<"BAMUM LETTER MI", 42702>>, <<"BAMUM LETTER NI", 42703>>, <<"BAMUM LETTER REUX", 42704>>,
    <<"BAMUM LETTER RAE", 42705>>, <<"BAMUM LETTER KEN", 42706>>, <<"BAMUM LETTER NGKWAEN", 42707>>,
    <<"BAMUM LETTER NGGA", 42708>>, <<"BAMUM LETTER NGA", 42709>>, <<"BAMUM LETTER SHO", 42710>>,
    <<"BAMUM LETTER PUAE", 42711>>, <<"BAMUM LETTER FU", 42712>>, <<"BAMUM LETTER FOM", 42713>>,
    <<"BAMUM LETTER WA", 42714>>, <<"BAMUM LETTER NA", 42715>>, <<"BAMUM LETTER LI", 42716>>,
    <<"BAMUM LETTER PI", 42717>>, <<"BAMUM LETTER LOQ", 42718>>, <<"BAMUM LETTER KO", 42719>>,
    <<"BAMUM LETTER MBEN", 42720>>, <<"BAMUM LETTER REN", 42721>>, <<"BAMUM LETTER MEN", 42722>>,
    <<"BAMUM LETTER MA", 42723>>, <<"BAMUM LETTER TI", 42724>>, <<"BAMUM LETTER KI", 42725>>,
    <<"BAMUM LETTER MO", 42726>>, <<"BAMUM LETTER MBAA", 42727>>, <<"BAMUM LETTER TET", 42728>>,
    <<"BAMUM LETTER KPA", 42729>>, <<"BAMUM LETTER TEN", 42730>>, <<"BAMUM LETTER NTUU", 42731>>,
    <<"BAMUM LETTER SAMBA", 42732>>, <<"BAMUM LETTER FAAMAE", 42733>>, <<"BAMUM LETTER KOVUU", 42734>>,
    <<"BAMUM LETTER KOGHOM", 42735>>, <<"BAMUM COMBINING MARK KOQNDON", 42736>>,
    <<"BAMUM COMBINING MARK TUKWENTIS", 42737>>, <<"BAMUM NJAEMLI", 42738>>,
    <<"BAMUM FULL STOP", 42739>>, <<"BAMUM COLON", 42740>>, <<"BAMUM COMMA", 42741>>,
    <<"BAMUM SEMICOLON", 42742>>, <<"BAMUM QUESTION MARK", 42743>>,
    <<"MODIFIER LETTER CHINESE TONE YIN PING", 42752>>,
    <<"MODIFIER LETTER CHINESE TONE YANG PING", 42753>>,
    <<"MODIFIER LETTER CHINESE TONE YIN SHANG", 42754>>,
    <<"MODIFIER LETTER CHINESE TONE YANG SHANG", 42755>>,
    <<"MODIFIER LETTER CHINESE TONE YIN QU", 42756>>,
    <<"MODIFIER LETTER CHINESE TONE YANG QU", 42757>>,
    <<"MODIFIER LETTER CHINESE TONE YIN RU", 42758>>,
    <<"MODIFIER LETTER CHINESE TONE YANG RU", 42759>>,
    <<"MODIFIER LETTER EXTRA-HIGH DOTTED TONE BAR", 42760>>,
    <<"MODIFIER LETTER HIGH DOTTED TONE BAR", 42761>>,
    <<"MODIFIER LETTER MID DOTTED TONE BAR", 42762>>, <<"MODIFIER LETTER LOW DOTTED TONE BAR", 42763>>,
    <<"MODIFIER LETTER EXTRA-LOW DOTTED TONE BAR", 42764>>,
    <<"MODIFIER LETTER EXTRA-HIGH DOTTED LEFT-STEM TONE BAR", 42765>>,
    <<"MODIFIER LETTER HIGH DOTTED LEFT-STEM TONE BAR", 42766>>,
    <<"MODIFIER LETTER MID DOTTED LEFT-STEM TONE BAR", 42767>>,
    <<"MODIFIER LETTER LOW DOTTED LEFT-STEM TONE BAR", 42768>>,
    <<"MODIFIER LETTER EXTRA-LOW DOTTED LEFT-STEM TONE BAR", 42769>>,
    <<"MODIFIER LETTER EXTRA-HIGH LEFT-STEM TONE BAR", 42770>>,
    <<"MODIFIER LETTER HIGH LEFT-STEM TONE BAR", 42771>>,
    <<"MODIFIER LETTER MID LEFT-STEM TONE BAR", 42772>>,
    <<"MODIFIER LETTER LOW LEFT-STEM TONE BAR", 42773>>,
    <<"MODIFIER LETTER EXTRA-LOW LEFT-STEM TONE BAR", 42774>>,
    <<"MODIFIER LETTER DOT VERTICAL BAR", 42775>>, <<"MODIFIER LETTER DOT SLASH", 42776>>,
    <<"MODIFIER LETTER DOT HORIZONTAL BAR", 42777>>,
    <<"MODIFIER LETTER LOWER RIGHT CORNER ANGLE", 42778>>,
    <<"MODIFIER LETTER RAISED UP ARROW", 42779>>, <<"MODIFIER LETTER RAISED DOWN ARROW", 42780>>,
    <<"MODIFIER LETTER RAISED EXCLAMATION MARK", 42781>>,
    <<"MODIFIER LETTER RAISED INVERTED EXCLAMATION MARK", 42782>>,
    <<"MODIFIER LETTER LOW INVERTED EXCLAMATION MARK", 42783>>,
    <<"MODIFIER LETTER STRESS AND HIGH TONE", 42784>>,
    <<"MODIFIER LETTER STRESS AND LOW TONE", 42785>>,
    <<"LATIN CAPITAL LETTER EGYPTOLOGICAL ALEF", 42786>>,
    <<"LATIN SMALL LETTER EGYPTOLOGICAL ALEF", 42787>>,
    <<"LATIN CAPITAL LETTER EGYPTOLOGICAL AIN", 42788>>,
    <<"LATIN SMALL LETTER EGYPTOLOGICAL AIN", 42789>>, <<"LATIN CAPITAL LETTER HENG", 42790>>,
    <<"LATIN SMALL LETTER HENG", 42791>>, <<"LATIN CAPITAL LETTER TZ", 42792>>,
    <<"LATIN SMALL LETTER TZ", 42793>>, <<"LATIN CAPITAL LETTER TRESILLO", 42794>>,
    <<"LATIN SMALL LETTER TRESILLO", 42795>>, <<"LATIN CAPITAL LETTER CUATRILLO", 42796>>,
    <<"LATIN SMALL LETTER CUATRILLO", 42797>>, <<"LATIN CAPITAL LETTER CUATRILLO WITH COMMA", 42798>>,
    <<"LATIN SMALL LETTER CUATRILLO WITH COMMA", 42799>>, <<"LATIN LETTER SMALL CAPITAL F", 42800>>,
    <<"LATIN LETTER SMALL CAPITAL S", 42801>>, <<"LATIN CAPITAL LETTER AA", 42802>>,
    <<"LATIN SMALL LETTER AA", 42803>>, <<"LATIN CAPITAL LETTER AO", 42804>>,
    <<"LATIN SMALL LETTER AO", 42805>>, <<"LATIN CAPITAL LETTER AU", 42806>>,
    <<"LATIN SMALL LETTER AU", 42807>>, <<"LATIN CAPITAL LETTER AV", 42808>>,
    <<"LATIN SMALL LETTER AV", 42809>>, <<"LATIN CAPITAL LETTER AV WITH HORIZONTAL BAR", 42810>>,
    <<"LATIN SMALL LETTER AV WITH HORIZONTAL BAR", 42811>>, <<"LATIN CAPITAL LETTER AY", 42812>>,
    <<"LATIN SMALL LETTER AY", 42813>>, <<"LATIN CAPITAL LETTER REVERSED C WITH DOT", 42814>>,
    <<"LATIN SMALL LETTER REVERSED C WITH DOT", 42815>>,
    <<"LATIN CAPITAL LETTER K WITH STROKE", 42816>>, <<"LATIN SMALL LETTER K WITH STROKE", 42817>>,
    <<"LATIN CAPITAL LETTER K WITH DIAGONAL STROKE", 42818>>,
    <<"LATIN SMALL LETTER K WITH DIAGONAL STROKE", 42819>>,
    <<"LATIN CAPITAL LETTER K WITH STROKE AND DIAGONAL STROKE", 42820>>,
    <<"LATIN SMALL LETTER K WITH STROKE AND DIAGONAL STROKE", 42821>>,
    <<"LATIN CAPITAL LETTER BROKEN L", 42822>>, <<"LATIN SMALL LETTER BROKEN L", 42823>>,
    <<"LATIN CAPITAL LETTER L WITH HIGH STROKE", 42824>>,
    <<"LATIN SMALL LETTER L WITH HIGH STROKE", 42825>>,
    <<"LATIN CAPITAL LETTER O WITH LONG STROKE OVERLAY", 42826>>,
    <<"LATIN SMALL LETTER O WITH LONG STROKE OVERLAY", 42827>>,
    <<"LATIN CAPITAL LETTER O WITH LOOP", 42828>>, <<"LATIN SMALL LETTER O WITH LOOP", 42829>>,
    <<"LATIN CAPITAL LETTER OO", 42830>>, <<"LATIN SMALL LETTER OO", 42831>>,
    <<"LATIN CAPITAL LETTER P WITH STROKE THROUGH DESCENDER", 42832>>,
    <<"LATIN SMALL LETTER P WITH STROKE THROUGH DESCENDER", 42833>>,
    <<"LATIN CAPITAL LETTER P WITH FLOURISH", 42834>>, <<"LATIN SMALL LETTER P WITH FLOURISH", 42835>>,
    <<"LATIN CAPITAL LETTER P WITH SQUIRREL TAIL", 42836>>,
    <<"LATIN SMALL LETTER P WITH SQUIRREL TAIL", 42837>>,
    <<"LATIN CAPITAL LETTER Q WITH STROKE THROUGH DESCENDER", 42838>>,
    <<"LATIN SMALL LETTER Q WITH STROKE THROUGH DESCENDER", 42839>>,
    <<"LATIN CAPITAL LETTER Q WITH DIAGONAL STROKE", 42840>>,
    <<"LATIN SMALL LETTER Q WITH DIAGONAL STROKE", 42841>>,
    <<"LATIN CAPITAL LETTER R ROTUNDA", 42842>>, <<"LATIN SMALL LETTER R ROTUNDA", 42843>>,
    <<"LATIN CAPITAL LETTER RUM ROTUNDA", 42844>>, <<"LATIN SMALL LETTER RUM ROTUNDA", 42845>>,
    <<"LATIN CAPITAL LETTER V WITH DIAGONAL STROKE", 42846>>,
    <<"LATIN SMALL LETTER V WITH DIAGONAL STROKE", 42847>>, <<"LATIN CAPITAL LETTER VY", 42848>>,
    <<"LATIN SMALL LETTER VY", 42849>>, <<"LATIN CAPITAL LETTER VISIGOTHIC Z", 42850>>,
    <<"LATIN SMALL LETTER VISIGOTHIC Z", 42851>>, <<"LATIN CAPITAL LETTER THORN WITH STROKE", 42852>>,
    <<"LATIN SMALL LETTER THORN WITH STROKE", 42853>>,
    <<"LATIN CAPITAL LETTER THORN WITH STROKE THROUGH DESCENDER", 42854>>,
    <<"LATIN SMALL LETTER THORN WITH STROKE THROUGH DESCENDER", 42855>>,
    <<"LATIN CAPITAL LETTER VEND", 42856>>, <<"LATIN SMALL LETTER VEND", 42857>>,
    <<"LATIN CAPITAL LETTER ET", 42858>>, <<"LATIN SMALL LETTER ET", 42859>>,
    <<"LATIN CAPITAL LETTER IS", 42860>>, <<"LATIN SMALL LETTER IS", 42861>>,
    <<"LATIN CAPITAL LETTER CON", 42862>>, <<"LATIN SMALL LETTER CON", 42863>>,
    <<"MODIFIER LETTER US", 42864>>, <<"LATIN SMALL LETTER DUM", 42865>>,
    <<"LATIN SMALL LETTER LUM", 42866>>, <<"LATIN SMALL LETTER MUM", 42867>>,
    <<"LATIN SMALL LETTER NUM", 42868>>, <<"LATIN SMALL LETTER RUM", 42869>>,
    <<"LATIN LETTER SMALL CAPITAL RUM", 42870>>, <<"LATIN SMALL LETTER TUM", 42871>>,
    <<"LATIN SMALL LETTER UM", 42872>>, <<"LATIN CAPITAL LETTER INSULAR D", 42873>>,
    <<"LATIN SMALL LETTER INSULAR D", 42874>>, <<"LATIN CAPITAL LETTER INSULAR F", 42875>>,
    <<"LATIN SMALL LETTER INSULAR F", 42876>>, <<"LATIN CAPITAL LETTER INSULAR G", 42877>>,
    <<"LATIN CAPITAL LETTER TURNED INSULAR G", 42878>>,
    <<"LATIN SMALL LETTER TURNED INSULAR G", 42879>>, <<"LATIN CAPITAL LETTER TURNED L", 42880>>,
    <<"LATIN SMALL LETTER TURNED L", 42881>>, <<"LATIN CAPITAL LETTER INSULAR R", 42882>>,
    <<"LATIN SMALL LETTER INSULAR R", 42883>>, <<"LATIN CAPITAL LETTER INSULAR S", 42884>>,
    <<"LATIN SMALL LETTER INSULAR S", 42885>>, <<"LATIN CAPITAL LETTER INSULAR T", 42886>>,
    <<"LATIN SMALL LETTER INSULAR T", 42887>>, <<"MODIFIER LETTER LOW CIRCUMFLEX ACCENT", 42888>>,
    <<"MODIFIER LETTER COLON", 42889>>, <<"MODIFIER LETTER SHORT EQUALS SIGN", 42890>>,
    <<"LATIN CAPITAL LETTER SALTILLO", 42891>>, <<"LATIN SMALL LETTER SALTILLO", 42892>>,
    <<"LATIN CAPITAL LETTER TURNED H", 42893>>,
    <<"LATIN SMALL LETTER L WITH RETROFLEX HOOK AND BELT", 42894>>,
    <<"LATIN LETTER SINOLOGICAL DOT", 42895>>, <<"LATIN CAPITAL LETTER N WITH DESCENDER", 42896>>,
    <<"LATIN SMALL LETTER N WITH DESCENDER", 42897>>, <<"LATIN CAPITAL LETTER C WITH BAR", 42898>>,
    <<"LATIN SMALL LETTER C WITH BAR", 42899>>, <<"LATIN SMALL LETTER C WITH PALATAL HOOK", 42900>>,
    <<"LATIN SMALL LETTER H WITH PALATAL HOOK", 42901>>,
    <<"LATIN CAPITAL LETTER B WITH FLOURISH", 42902>>, <<"LATIN SMALL LETTER B WITH FLOURISH", 42903>>,
    <<"LATIN CAPITAL LETTER F WITH STROKE", 42904>>, <<"LATIN SMALL LETTER F WITH STROKE", 42905>>,
    <<"LATIN CAPITAL LETTER VOLAPUK AE", 42906>>, <<"LATIN SMALL LETTER VOLAPUK AE", 42907>>,
    <<"LATIN CAPITAL LETTER VOLAPUK OE", 42908>>, <<"LATIN SMALL LETTER VOLAPUK OE", 42909>>,
    <<"LATIN CAPITAL LETTER VOLAPUK UE", 42910>>, <<"LATIN SMALL LETTER VOLAPUK UE", 42911>>,
    <<"LATIN CAPITAL LETTER G WITH OBLIQUE STROKE", 42912>>,
    <<"LATIN SMALL LETTER G WITH OBLIQUE STROKE", 42913>>,
    <<"LATIN CAPITAL LETTER K WITH OBLIQUE STROKE", 42914>>,
    <<"LATIN SMALL LETTER K WITH OBLIQUE STROKE", 42915>>,
    <<"LATIN CAPITAL LETTER N WITH OBLIQUE STROKE", 42916>>,
    <<"LATIN SMALL LETTER N WITH OBLIQUE STROKE", 42917>>,
    <<"LATIN CAPITAL LETTER R WITH OBLIQUE STROKE", 42918>>,
    <<"LATIN SMALL LETTER R WITH OBLIQUE STROKE", 42919>>,
    <<"LATIN CAPITAL LETTER S WITH OBLIQUE STROKE", 42920>>,
    <<"LATIN SMALL LETTER S WITH OBLIQUE STROKE", 42921>>,
    <<"LATIN CAPITAL LETTER H WITH HOOK", 42922>>, <<"LATIN CAPITAL LETTER REVERSED OPEN E", 42923>>,
    <<"LATIN CAPITAL LETTER SCRIPT G", 42924>>, <<"LATIN CAPITAL LETTER L WITH BELT", 42925>>,
    <<"LATIN CAPITAL LETTER SMALL CAPITAL I", 42926>>, <<"LATIN LETTER SMALL CAPITAL Q", 42927>>,
    <<"LATIN CAPITAL LETTER TURNED K", 42928>>, <<"LATIN CAPITAL LETTER TURNED T", 42929>>,
    <<"LATIN CAPITAL LETTER J WITH CROSSED-TAIL", 42930>>, <<"LATIN CAPITAL LETTER CHI", 42931>>,
    <<"LATIN CAPITAL LETTER BETA", 42932>>, <<"LATIN SMALL LETTER BETA", 42933>>,
    <<"LATIN CAPITAL LETTER OMEGA", 42934>>, <<"LATIN SMALL LETTER OMEGA", 42935>>,
    <<"LATIN CAPITAL LETTER U WITH STROKE", 42936>>, <<"LATIN SMALL LETTER U WITH STROKE", 42937>>,
    <<"LATIN CAPITAL LETTER GLOTTAL A", 42938>>, <<"LATIN SMALL LETTER GLOTTAL A", 42939>>,
    <<"LATIN CAPITAL LETTER GLOTTAL I", 42940>>, <<"LATIN SMALL LETTER GLOTTAL I", 42941>>,
    <<"LATIN CAPITAL LETTER GLOTTAL U", 42942>>, <<"LATIN SMALL LETTER GLOTTAL U", 42943>>,
    <<"LATIN CAPITAL LETTER OLD POLISH O", 42944>>, <<"LATIN SMALL LETTER OLD POLISH O", 42945>>,
    <<"LATIN CAPITAL LETTER ANGLICANA W", 42946>>, <<"LATIN SMALL LETTER ANGLICANA W", 42947>>,
    <<"LATIN CAPITAL LETTER C WITH PALATAL HOOK", 42948>>,
    <<"LATIN CAPITAL LETTER S WITH HOOK", 42949>>,
    <<"LATIN CAPITAL LETTER Z WITH PALATAL HOOK", 42950>>,
    <<"LATIN CAPITAL LETTER D WITH SHORT STROKE OVERLAY", 42951>>,
    <<"LATIN SMALL LETTER D WITH SHORT STROKE OVERLAY", 42952>>,
    <<"LATIN CAPITAL LETTER S WITH SHORT STROKE OVERLAY", 42953>>,
    <<"LATIN SMALL LETTER S WITH SHORT STROKE OVERLAY", 42954>>,
    <<"LATIN CAPITAL LETTER CLOSED INSULAR G", 42960>>,
    <<"LATIN SMALL LETTER CLOSED INSULAR G", 42961>>, <<"LATIN SMALL LETTER DOUBLE THORN", 42963>>,
    <<"LATIN SMALL LETTER DOUBLE WYNN", 42965>>, <<"LATIN CAPITAL LETTER MIDDLE SCOTS S", 42966>>,
    <<"LATIN SMALL LETTER MIDDLE SCOTS S", 42967>>, <<"LATIN CAPITAL LETTER SIGMOID S", 42968>>,
    <<"LATIN SMALL LETTER SIGMOID S", 42969>>, <<"MODIFIER LETTER CAPITAL C", 42994>>,
    <<"MODIFIER LETTER CAPITAL F", 42995>>, <<"MODIFIER LETTER CAPITAL Q", 42996>>,
    <<"LATIN CAPITAL LETTER REVERSED HALF H", 42997>>, <<"LATIN SMALL LETTER REVERSED HALF H", 42998>>,
    <<"LATIN EPIGRAPHIC LETTER SIDEWAYS I", 42999>>,
    <<"MODIFIER LETTER CAPITAL H WITH STROKE", 43000>>, <<"MODIFIER LETTER SMALL LIGATURE OE", 43001>>,
    <<"LATIN LETTER SMALL CAPITAL TURNED M", 43002>>, <<"LATIN EPIGRAPHIC LETTER REVERSED F", 43003>>,
    <<"LATIN EPIGRAPHIC LETTER REVERSED P", 43004>>, <<"LATIN EPIGRAPHIC LETTER INVERTED M", 43005>>,
    <<"LATIN EPIGRAPHIC LETTER I LONGA", 43006>>, <<"LATIN EPIGRAPHIC LETTER ARCHAIC M", 43007>>,
    <<"SYLOTI NAGRI LETTER A", 43008>>, <<"SYLOTI NAGRI LETTER I", 43009>>,
    <<"SYLOTI NAGRI SIGN DVISVARA", 43010>>, <<"SYLOTI NAGRI LETTER U", 43011>>,
    <<"SYLOTI NAGRI LETTER E", 43012>>, <<"SYLOTI NAGRI LETTER O", 43013>>,
    <<"SYLOTI NAGRI SIGN HASANTA", 43014>>, <<"SYLOTI NAGRI LETTER KO", 43015>>,
    <<"SYLOTI NAGRI LETTER KHO", 43016>>, <<"SYLOTI NAGRI LETTER GO", 43017>>,
    <<"SYLOTI NAGRI LETTER GHO", 43018>>, <<"SYLOTI NAGRI SIGN ANUSVARA", 43019>>,
    <<"SYLOTI NAGRI LETTER CO", 43020>>, <<"SYLOTI NAGRI LETTER CHO", 43021>>,
    <<"SYLOTI NAGRI LETTER JO", 43022>>, <<"SYLOTI NAGRI LETTER JHO", 43023>>,
    <<"SYLOTI NAGRI LETTER TTO", 43024>>, <<"SYLOTI NAGRI LETTER TTHO", 43025>>,
    <<"SYLOTI NAGRI LETTER DDO", 43026>>, <<"SYLOTI NAGRI LETTER DDHO", 43027>>,
    <<"SYLOTI NAGRI LETTER TO", 43028>>, <<"SYLOTI NAGRI LETTER THO", 43029>>,
    <<"SYLOTI NAGRI LETTER DO", 43030>>, <<"SYLOTI NAGRI LETTER DHO", 43031>>,
    <<"SYLOTI NAGRI LETTER NO", 43032>>, <<"SYLOTI NAGRI LETTER PO", 43033>>,
    <<"SYLOTI NAGRI LETTER PHO", 43034>>, <<"SYLOTI NAGRI LETTER BO", 43035>>,
    <<"SYLOTI NAGRI LETTER BHO", 43036>>, <<"SYLOTI NAGRI LETTER MO", 43037>>,
    <<"SYLOTI NAGRI LETTER RO", 43038>>, <<"SYLOTI NAGRI LETTER LO", 43039>>,
    <<"SYLOTI NAGRI LETTER RRO", 43040>>, <<"SYLOTI NAGRI LETTER SO", 43041>>,
    <<"SYLOTI NAGRI LETTER HO", 43042>>, <<"SYLOTI NAGRI VOWEL SIGN A", 43043>>,
    <<"SYLOTI NAGRI VOWEL SIGN I", 43044>>, <<"SYLOTI NAGRI VOWEL SIGN U", 43045>>,
    <<"SYLOTI NAGRI VOWEL SIGN E", 43046>>, <<"SYLOTI NAGRI VOWEL SIGN OO", 43047>>,
    <<"SYLOTI NAGRI POETRY MARK-1", 43048>>, <<"SYLOTI NAGRI POETRY MARK-2", 43049>>,
    <<"SYLOTI NAGRI POETRY MARK-3", 43050>>, <<"SYLOTI NAGRI POETRY MARK-4", 43051>>,
    <<"SYLOTI NAGRI SIGN ALTERNATE HASANTA", 43052>>, <<"NORTH INDIC FRACTION ONE QUARTER", 43056>>,
    <<"NORTH INDIC FRACTION ONE HALF", 43057>>, <<"NORTH INDIC FRACTION THREE QUARTERS", 43058>>,
    <<"NORTH INDIC FRACTION ONE SIXTEENTH", 43059>>, <<"NORTH INDIC FRACTION ONE EIGHTH", 43060>>,
    <<"NORTH INDIC FRACTION THREE SIXTEENTHS", 43061>>, <<"NORTH INDIC QUARTER MARK", 43062>>,
    <<"NORTH INDIC PLACEHOLDER MARK", 43063>>, <<"NORTH INDIC RUPEE MARK", 43064>>,
    <<"NORTH INDIC QUANTITY MARK", 43065>>, <<"PHAGS-PA LETTER KA", 43072>>,
    <<"PHAGS-PA LETTER KHA", 43073>>, <<"PHAGS-PA LETTER GA", 43074>>,
    <<"PHAGS-PA LETTER NGA", 43075>>, <<"PHAGS-PA LETTER CA", 43076>>,
    <<"PHAGS-PA LETTER CHA", 43077>>, <<"PHAGS-PA LETTER JA", 43078>>,
    <<"PHAGS-PA LETTER NYA", 43079>>, <<"PHAGS-PA LETTER TA", 43080>>,
    <<"PHAGS-PA LETTER THA", 43081>>, <<"PHAGS-PA LETTER DA", 43082>>, <<"PHAGS-PA LETTER NA", 43083>>,
    <<"PHAGS-PA LETTER PA", 43084>>, <<"PHAGS-PA LETTER PHA", 43085>>, <<"PHAGS-PA LETTER BA", 43086>>,
    <<"PHAGS-PA LETTER MA", 43087>>, <<"PHAGS-PA LETTER TSA", 43088>>,
    <<"PHAGS-PA LETTER TSHA", 43089>>, <<"PHAGS-PA LETTER DZA", 43090>>,
    <<"PHAGS-PA LETTER WA", 43091>>, <<"PHAGS-PA LETTER ZHA", 43092>>, <<"PHAGS-PA LETTER ZA", 43093>>,
    <<"PHAGS-PA LETTER SMALL A", 43094>>, <<"PHAGS-PA LETTER YA", 43095>>,
    <<"PHAGS-PA LETTER RA", 43096>>, <<"PHAGS-PA LETTER LA", 43097>>, <<"PHAGS-PA LETTER SHA", 43098>>,
    <<"PHAGS-PA LETTER SA", 43099>>, <<"PHAGS-PA LETTER HA", 43100>>, <<"PHAGS-PA LETTER A", 43101>>,
    <<"PHAGS-PA LETTER I", 43102>>, <<"PHAGS-PA LETTER U", 43103>>, <<"PHAGS-PA LETTER E", 43104>>,
    <<"PHAGS-PA LETTER O", 43105>>, <<"PHAGS-PA LETTER QA", 43106>>, <<"PHAGS-PA LETTER XA", 43107>>,
    <<"PHAGS-PA LETTER FA", 43108>>, <<"PHAGS-PA LETTER GGA", 43109>>, <<"PHAGS-PA LETTER EE", 43110>>,
    <<"PHAGS-PA SUBJOINED LETTER WA", 43111>>, <<"PHAGS-PA SUBJOINED LETTER YA", 43112>>,
    <<"PHAGS-PA LETTER TTA", 43113>>, <<"PHAGS-PA LETTER TTHA", 43114>>,
    <<"PHAGS-PA LETTER DDA", 43115>>, <<"PHAGS-PA LETTER NNA", 43116>>,
    <<"PHAGS-PA LETTER ALTERNATE YA", 43117>>, <<"PHAGS-PA LETTER VOICELESS SHA", 43118>>,
    <<"PHAGS-PA LETTER VOICED HA", 43119>>, <<"PHAGS-PA LETTER ASPIRATED FA", 43120>>,
    <<"PHAGS-PA SUBJOINED LETTER RA", 43121>>, <<"PHAGS-PA SUPERFIXED LETTER RA", 43122>>,
    <<"PHAGS-PA LETTER CANDRABINDU", 43123>>, <<"PHAGS-PA SINGLE HEAD MARK", 43124>>,
    <<"PHAGS-PA DOUBLE HEAD MARK", 43125>>, <<"PHAGS-PA MARK SHAD", 43126>>,
    <<"PHAGS-PA MARK DOUBLE SHAD", 43127>>, <<"SAURASHTRA SIGN ANUSVARA", 43136>>,
    <<"SAURASHTRA SIGN VISARGA", 43137>>, <<"SAURASHTRA LETTER A", 43138>>,
    <<"SAURASHTRA LETTER AA", 43139>>, <<"SAURASHTRA LETTER I", 43140>>,
    <<"SAURASHTRA LETTER II", 43141>>, <<"SAURASHTRA LETTER U", 43142>>,
    <<"SAURASHTRA LETTER UU", 43143>>, <<"SAURASHTRA LETTER VOCALIC R", 43144>>,
    <<"SAURASHTRA LETTER VOCALIC RR", 43145>>, <<"SAURASHTRA LETTER VOCALIC L", 43146>>,
    <<"SAURASHTRA LETTER VOCALIC LL", 43147>>, <<"SAURASHTRA LETTER E", 43148>>,
    <<"SAURASHTRA LETTER EE", 43149>>, <<"SAURASHTRA LETTER AI", 43150>>,
    <<"SAURASHTRA LETTER O", 43151>>, <<"SAURASHTRA LETTER OO", 43152>>,
    <<"SAURASHTRA LETTER AU", 43153>>, <<"SAURASHTRA LETTER KA", 43154>>,
    <<"SAURASHTRA LETTER KHA", 43155>>, <<"SAURASHTRA LETTER GA", 43156>>,
    <<"SAURASHTRA LETTER GHA", 43157>>, <<"SAURASHTRA LETTER NGA", 43158>>,
    <<"SAURASHTRA LETTER CA", 43159>>, <<"SAURASHTRA LETTER CHA", 43160>>,
    <<"SAURASHTRA LETTER JA", 43161>>, <<"SAURASHTRA LETTER JHA", 43162>>,
    <<"SAURASHTRA LETTER NYA", 43163>>, <<"SAURASHTRA LETTER TTA", 43164>>,
    <<"SAURASHTRA LETTER TTHA", 43165>>, <<"SAURASHTRA LETTER DDA", 43166>>,
    <<"SAURASHTRA LETTER DDHA", 43167>>, <<"SAURASHTRA LETTER NNA", 43168>>,
    <<"SAURASHTRA LETTER TA", 43169>>, <<"SAURASHTRA LETTER THA", 43170>>,
    <<"SAURASHTRA LETTER DA", 43171>>, <<"SAURASHTRA LETTER DHA", 43172>>,
    <<"SAURASHTRA LETTER NA", 43173>>, <<"SAURASHTRA LETTER PA", 43174>>,
    <<"SAURASHTRA LETTER PHA", 43175>>, <<"SAURASHTRA LETTER BA", 43176>>,
    <<"SAURASHTRA LETTER BHA", 43177>>, <<"SAURASHTRA LETTER MA", 43178>>,
    <<"SAURASHTRA LETTER YA", 43179>>, <<"SAURASHTRA LETTER RA", 43180>>,
    <<"SAURASHTRA LETTER LA", 43181>>, <<"SAURASHTRA LETTER VA", 43182>>,
    <<"SAURASHTRA LETTER SHA", 43183>>, <<"SAURASHTRA LETTER SSA", 43184>>,
    <<"SAURASHTRA LETTER SA", 43185>>, <<"SAURASHTRA LETTER HA", 43186>>,
    <<"SAURASHTRA LETTER LLA", 43187>>, <<"SAURASHTRA CONSONANT SIGN HAARU", 43188>>,
    <<"SAURASHTRA VOWEL SIGN AA", 43189>>, <<"SAURASHTRA VOWEL SIGN I", 43190>>,
    <<"SAURASHTRA VOWEL SIGN II", 43191>>, <<"SAURASHTRA VOWEL SIGN U", 43192>>,
    <<"SAURASHTRA VOWEL SIGN UU", 43193>>, <<"SAURASHTRA VOWEL SIGN VOCALIC R", 43194>>,
    <<"SAURASHTRA VOWEL SIGN VOCALIC RR", 43195>>, <<"SAURASHTRA VOWEL SIGN VOCALIC L", 43196>>,
    <<"SAURASHTRA VOWEL SIGN VOCALIC LL", 43197>>, <<"SAURASHTRA VOWEL SIGN E", 43198>>,
    <<"SAURASHTRA VOWEL SIGN EE", 43199>>, <<"SAURASHTRA VOWEL SIGN AI", 43200>>,
    <<"SAURASHTRA VOWEL SIGN O", 43201>>, <<"SAURASHTRA VOWEL SIGN OO", 43202>>,
    <<"SAURASHTRA VOWEL SIGN AU", 43203>>, <<"SAURASHTRA SIGN VIRAMA", 43204>>,
    <<"SAURASHTRA SIGN CANDRABINDU", 43205>>, <<"SAURASHTRA DANDA", 43214>>,
    <<"SAURASHTRA DOUBLE DANDA", 43215>>, <<"SAURASHTRA DIGIT ZERO", 43216>>,
    <<"SAURASHTRA DIGIT ONE", 43217>>, <<"SAURASHTRA DIGIT TWO", 43218>>,
    <<"SAURASHTRA DIGIT THREE", 43219>>, <<"SAURASHTRA DIGIT FOUR", 43220>>,
    <<"SAURASHTRA DIGIT FIVE", 43221>>, <<"SAURASHTRA DIGIT SIX", 43222>>,
    <<"SAURASHTRA DIGIT SEVEN", 43223>>, <<"SAURASHTRA DIGIT EIGHT", 43224>>,
    <<"SAURASHTRA DIGIT NINE", 43225>>, <<"COMBINING DEVANAGARI DIGIT ZERO", 43232>>,
    <<"COMBINING DEVANAGARI DIGIT ONE", 43233>>, <<"COMBINING DEVANAGARI DIGIT TWO", 43234>>,
    <<"COMBINING DEVANAGARI DIGIT THREE", 43235>>, <<"COMBINING DEVANAGARI DIGIT FOUR", 43236>>,
    <<"COMBINING DEVANAGARI DIGIT FIVE", 43237>>, <<"COMBINING DEVANAGARI DIGIT SIX", 43238>>,
    <<"COMBINING DEVANAGARI DIGIT SEVEN", 43239>>, <<"COMBINING DEVANAGARI DIGIT EIGHT", 43240>>,
    <<"COMBINING DEVANAGARI DIGIT NINE", 43241>>, <<"COMBINING DEVANAGARI LETTER A", 43242>>,
    <<"COMBINING DEVANAGARI LETTER U", 43243>>, <<"COMBINING DEVANAGARI LETTER KA", 43244>>,
    <<"COMBINING DEVANAGARI LETTER NA", 43245>>, <<"COMBINING DEVANAGARI LETTER PA", 43246>>,
    <<"COMBINING DEVANAGARI LETTER RA", 43247>>, <<"COMBINING DEVANAGARI LETTER VI", 43248>>,
    <<"COMBINING DEVANAGARI SIGN AVAGRAHA", 43249>>, <<"DEVANAGARI SIGN SPACING CANDRABINDU", 43250>>,
    <<"DEVANAGARI SIGN CANDRABINDU VIRAMA", 43251>>,
    <<"DEVANAGARI SIGN DOUBLE CANDRABINDU VIRAMA", 43252>>,
    <<"DEVANAGARI SIGN CANDRABINDU TWO", 43253>>, <<"DEVANAGARI SIGN CANDRABINDU THREE", 43254>>,
    <<"DEVANAGARI SIGN CANDRABINDU AVAGRAHA", 43255>>, <<"DEVANAGARI SIGN PUSHPIKA", 43256>>,
    <<"DEVANAGARI GAP FILLER", 43257>>, <<"DEVANAGARI CARET", 43258>>,
    <<"DEVANAGARI HEADSTROKE", 43259>>, <<"DEVANAGARI SIGN SIDDHAM", 43260>>,
    <<"DEVANAGARI JAIN OM", 43261>>, <<"DEVANAGARI LETTER AY", 43262>>,
    <<"DEVANAGARI VOWEL SIGN AY", 43263>>, <<"KAYAH LI DIGIT ZERO", 43264>>,
    <<"KAYAH LI DIGIT ONE", 43265>>, <<"KAYAH LI DIGIT TWO", 43266>>,
    <<"KAYAH LI DIGIT THREE", 43267>>, <<"KAYAH LI DIGIT FOUR", 43268>>,
    <<"KAYAH LI DIGIT FIVE", 43269>>, <<"KAYAH LI DIGIT SIX", 43270>>,
    <<"KAYAH LI DIGIT SEVEN", 43271>>, <<"KAYAH LI DIGIT EIGHT", 43272>>,
    <<"KAYAH LI DIGIT NINE", 43273>>, <<"KAYAH LI LETTER KA", 43274>>,
    <<"KAYAH LI LETTER KHA", 43275>>, <<"KAYAH LI LETTER GA", 43276>>,
    <<"KAYAH LI LETTER NGA", 43277>>, <<"KAYAH LI LETTER SA", 43278>>,
    <<"KAYAH LI LETTER SHA", 43279>>, <<"KAYAH LI LETTER ZA", 43280>>,
    <<"KAYAH LI LETTER NYA", 43281>>, <<"KAYAH LI LETTER TA", 43282>>,
    <<"KAYAH LI LETTER HTA", 43283>>, <<"KAYAH LI LETTER NA", 43284>>, <<"KAYAH LI LETTER PA", 43285>>,
    <<"KAYAH LI LETTER PHA", 43286>>, <<"KAYAH LI LETTER MA", 43287>>, <<"KAYAH LI LETTER DA", 43288>>,
    <<"KAYAH LI LETTER BA", 43289>>, <<"KAYAH LI LETTER RA", 43290>>, <<"KAYAH LI LETTER YA", 43291>>,
    <<"KAYAH LI LETTER LA", 43292>>, <<"KAYAH LI LETTER WA", 43293>>, <<"KAYAH LI LETTER THA", 43294>>,
    <<"KAYAH LI LETTER HA", 43295>>, <<"KAYAH LI LETTER VA", 43296>>, <<"KAYAH LI LETTER CA", 43297>>,
    <<"KAYAH LI LETTER A", 43298>>, <<"KAYAH LI LETTER OE", 43299>>, <<"KAYAH LI LETTER I", 43300>>,
    <<"KAYAH LI LETTER OO", 43301>>, <<"KAYAH LI VOWEL UE", 43302>>, <<"KAYAH LI VOWEL E", 43303>>,
    <<"KAYAH LI VOWEL U", 43304>>, <<"KAYAH LI VOWEL EE", 43305>>, <<"KAYAH LI VOWEL O", 43306>>,
    <<"KAYAH LI TONE PLOPHU", 43307>>, <<"KAYAH LI TONE CALYA", 43308>>,
    <<"KAYAH LI TONE CALYA PLOPHU", 43309>>, <<"KAYAH LI SIGN CWI", 43310>>,
    <<"KAYAH LI SIGN SHYA", 43311>>, <<"REJANG LETTER KA", 43312>>, <<"REJANG LETTER GA", 43313>>,
    <<"REJANG LETTER NGA", 43314>>, <<"REJANG LETTER TA", 43315>>, <<"REJANG LETTER DA", 43316>>,
    <<"REJANG LETTER NA", 43317>>, <<"REJANG LETTER PA", 43318>>, <<"REJANG LETTER BA", 43319>>,
    <<"REJANG LETTER MA", 43320>>, <<"REJANG LETTER CA", 43321>>, <<"REJANG LETTER JA", 43322>>,
    <<"REJANG LETTER NYA", 43323>>, <<"REJANG LETTER SA", 43324>>, <<"REJANG LETTER RA", 43325>>,
    <<"REJANG LETTER LA", 43326>>, <<"REJANG LETTER YA", 43327>>, <<"REJANG LETTER WA", 43328>>,
    <<"REJANG LETTER HA", 43329>>, <<"REJANG LETTER MBA", 43330>>, <<"REJANG LETTER NGGA", 43331>>,
    <<"REJANG LETTER NDA", 43332>>, <<"REJANG LETTER NYJA", 43333>>, <<"REJANG LETTER A", 43334>>,
    <<"REJANG VOWEL SIGN I", 43335>>, <<"REJANG VOWEL SIGN U", 43336>>,
    <<"REJANG VOWEL SIGN E", 43337>>, <<"REJANG VOWEL SIGN AI", 43338>>,
    <<"REJANG VOWEL SIGN O", 43339>>, <<"REJANG VOWEL SIGN AU", 43340>>,
    <<"REJANG VOWEL SIGN EU", 43341>>, <<"REJANG VOWEL SIGN EA", 43342>>,
    <<"REJANG CONSONANT SIGN NG", 43343>>, <<"REJANG CONSONANT SIGN N", 43344>>,
    <<"REJANG CONSONANT SIGN R", 43345>>, <<"REJANG CONSONANT SIGN H", 43346>>,
    <<"REJANG VIRAMA", 43347>>, <<"REJANG SECTION MARK", 43359>>,
    <<"HANGUL CHOSEONG TIKEUT-MIEUM", 43360>>, <<"HANGUL CHOSEONG TIKEUT-PIEUP", 43361>>,
    <<"HANGUL CHOSEONG TIKEUT-SIOS", 43362>>, <<"HANGUL CHOSEONG TIKEUT-CIEUC", 43363>>,
    <<"HANGUL CHOSEONG RIEUL-KIYEOK", 43364>>, <<"HANGUL CHOSEONG RIEUL-SSANGKIYEOK", 43365>>,
    <<"HANGUL CHOSEONG RIEUL-TIKEUT", 43366>>, <<"HANGUL CHOSEONG RIEUL-SSANGTIKEUT", 43367>>,
    <<"HANGUL CHOSEONG RIEUL-MIEUM", 43368>>, <<"HANGUL CHOSEONG RIEUL-PIEUP", 43369>>,
    <<"HANGUL CHOSEONG RIEUL-SSANGPIEUP", 43370>>, <<"HANGUL CHOSEONG RIEUL-KAPYEOUNPIEUP", 43371>>,
    <<"HANGUL CHOSEONG RIEUL-SIOS", 43372>>, <<"HANGUL CHOSEONG RIEUL-CIEUC", 43373>>,
    <<"HANGUL CHOSEONG RIEUL-KHIEUKH", 43374>>, <<"HANGUL CHOSEONG MIEUM-KIYEOK", 43375>>,
    <<"HANGUL CHOSEONG MIEUM-TIKEUT", 43376>>, <<"HANGUL CHOSEONG MIEUM-SIOS", 43377>>,
    <<"HANGUL CHOSEONG PIEUP-SIOS-THIEUTH", 43378>>, <<"HANGUL CHOSEONG PIEUP-KHIEUKH", 43379>>,
    <<"HANGUL CHOSEONG PIEUP-HIEUH", 43380>>, <<"HANGUL CHOSEONG SSANGSIOS-PIEUP", 43381>>,
    <<"HANGUL CHOSEONG IEUNG-RIEUL", 43382>>, <<"HANGUL CHOSEONG IEUNG-HIEUH", 43383>>,
    <<"HANGUL CHOSEONG SSANGCIEUC-HIEUH", 43384>>, <<"HANGUL CHOSEONG SSANGTHIEUTH", 43385>>,
    <<"HANGUL CHOSEONG PHIEUPH-HIEUH", 43386>>, <<"HANGUL CHOSEONG HIEUH-SIOS", 43387>>,
    <<"HANGUL CHOSEONG SSANGYEORINHIEUH", 43388>>, <<"JAVANESE SIGN PANYANGGA", 43392>>,
    <<"JAVANESE SIGN CECAK", 43393>>, <<"JAVANESE SIGN LAYAR", 43394>>,
    <<"JAVANESE SIGN WIGNYAN", 43395>>, <<"JAVANESE LETTER A", 43396>>,
    <<"JAVANESE LETTER I KAWI", 43397>>, <<"JAVANESE LETTER I", 43398>>,
    <<"JAVANESE LETTER II", 43399>>, <<"JAVANESE LETTER U", 43400>>,
    <<"JAVANESE LETTER PA CEREK", 43401>>, <<"JAVANESE LETTER NGA LELET", 43402>>,
    <<"JAVANESE LETTER NGA LELET RASWADI", 43403>>, <<"JAVANESE LETTER E", 43404>>,
    <<"JAVANESE LETTER AI", 43405>>, <<"JAVANESE LETTER O", 43406>>, <<"JAVANESE LETTER KA", 43407>>,
    <<"JAVANESE LETTER KA SASAK", 43408>>, <<"JAVANESE LETTER KA MURDA", 43409>>,
    <<"JAVANESE LETTER GA", 43410>>, <<"JAVANESE LETTER GA MURDA", 43411>>,
    <<"JAVANESE LETTER NGA", 43412>>, <<"JAVANESE LETTER CA", 43413>>,
    <<"JAVANESE LETTER CA MURDA", 43414>>, <<"JAVANESE LETTER JA", 43415>>,
    <<"JAVANESE LETTER NYA MURDA", 43416>>, <<"JAVANESE LETTER JA MAHAPRANA", 43417>>,
    <<"JAVANESE LETTER NYA", 43418>>, <<"JAVANESE LETTER TTA", 43419>>,
    <<"JAVANESE LETTER TTA MAHAPRANA", 43420>>, <<"JAVANESE LETTER DDA", 43421>>,
    <<"JAVANESE LETTER DDA MAHAPRANA", 43422>>, <<"JAVANESE LETTER NA MURDA", 43423>>,
    <<"JAVANESE LETTER TA", 43424>>, <<"JAVANESE LETTER TA MURDA", 43425>>,
    <<"JAVANESE LETTER DA", 43426>>, <<"JAVANESE LETTER DA MAHAPRANA", 43427>>,
    <<"JAVANESE LETTER NA", 43428>>, <<"JAVANESE LETTER PA", 43429>>,
    <<"JAVANESE LETTER PA MURDA", 43430>>, <<"JAVANESE LETTER BA", 43431>>,
    <<"JAVANESE LETTER BA MURDA", 43432>>, <<"JAVANESE LETTER MA", 43433>>,
    <<"JAVANESE LETTER YA", 43434>>, <<"JAVANESE LETTER RA", 43435>>,
    <<"JAVANESE LETTER RA AGUNG", 43436>>, <<"JAVANESE LETTER LA", 43437>>,
    <<"JAVANESE LETTER WA", 43438>>, <<"JAVANESE LETTER SA MURDA", 43439>>,
    <<"JAVANESE LETTER SA MAHAPRANA", 43440>>, <<"JAVANESE LETTER SA", 43441>>,
    <<"JAVANESE LETTER HA", 43442>>, <<"JAVANESE SIGN CECAK TELU", 43443>>,
    <<"JAVANESE VOWEL SIGN TARUNG", 43444>>, <<"JAVANESE VOWEL SIGN TOLONG", 43445>>,
    <<"JAVANESE VOWEL SIGN WULU", 43446>>, <<"JAVANESE VOWEL SIGN WULU MELIK", 43447>>,
    <<"JAVANESE VOWEL SIGN SUKU", 43448>>, <<"JAVANESE VOWEL SIGN SUKU MENDUT", 43449>>,
    <<"JAVANESE VOWEL SIGN TALING", 43450>>, <<"JAVANESE VOWEL SIGN DIRGA MURE", 43451>>,
    <<"JAVANESE VOWEL SIGN PEPET", 43452>>, <<"JAVANESE CONSONANT SIGN KERET", 43453>>,
    <<"JAVANESE CONSONANT SIGN PENGKAL", 43454>>, <<"JAVANESE CONSONANT SIGN CAKRA", 43455>>,
    <<"JAVANESE PANGKON", 43456>>, <<"JAVANESE LEFT RERENGGAN", 43457>>,
    <<"JAVANESE RIGHT RERENGGAN", 43458>>, <<"JAVANESE PADA ANDAP", 43459>>,
    <<"JAVANESE PADA MADYA", 43460>>, <<"JAVANESE PADA LUHUR", 43461>>,
    <<"JAVANESE PADA WINDU", 43462>>, <<"JAVANESE PADA PANGKAT", 43463>>,
    <<"JAVANESE PADA LINGSA", 43464>>, <<"JAVANESE PADA LUNGSI", 43465>>,
    <<"JAVANESE PADA ADEG", 43466>>, <<"JAVANESE PADA ADEG ADEG", 43467>>,
    <<"JAVANESE PADA PISELEH", 43468>>, <<"JAVANESE TURNED PADA PISELEH", 43469>>,
    <<"JAVANESE PANGRANGKEP", 43471>>, <<"JAVANESE DIGIT ZERO", 43472>>,
    <<"JAVANESE DIGIT ONE", 43473>>, <<"JAVANESE DIGIT TWO", 43474>>,
    <<"JAVANESE DIGIT THREE", 43475>>, <<"JAVANESE DIGIT FOUR", 43476>>,
    <<"JAVANESE DIGIT FIVE", 43477>>, <<"JAVANESE DIGIT SIX", 43478>>,
    <<"JAVANESE DIGIT SEVEN", 43479>>, <<"JAVANESE DIGIT EIGHT", 43480>>,
    <<"JAVANESE DIGIT NINE", 43481>>, <<"JAVANESE PADA TIRTA TUMETES", 43486>>,
    <<"JAVANESE PADA ISEN-ISEN", 43487>>, <<"MYANMAR LETTER SHAN GHA", 43488>>,
    <<"MYANMAR LETTER SHAN CHA", 43489>>, <<"MYANMAR LETTER SHAN JHA", 43490>>,
    <<"MYANMAR LETTER SHAN NNA", 43491>>, <<"MYANMAR LETTER SHAN BHA", 43492>>,
    <<"MYANMAR SIGN SHAN SAW", 43493>>, <<"MYANMAR MODIFIER LETTER SHAN REDUPLICATION", 43494>>,
    <<"MYANMAR LETTER TAI LAING NYA", 43495>>, <<"MYANMAR LETTER TAI LAING FA", 43496>>,
    <<"MYANMAR LETTER TAI LAING GA", 43497>>, <<"MYANMAR LETTER TAI LAING GHA", 43498>>,
    <<"MYANMAR LETTER TAI LAING JA", 43499>>, <<"MYANMAR LETTER TAI LAING JHA", 43500>>,
    <<"MYANMAR LETTER TAI LAING DDA", 43501>>, <<"MYANMAR LETTER TAI LAING DDHA", 43502>>,
    <<"MYANMAR LETTER TAI LAING NNA", 43503>>, <<"MYANMAR TAI LAING DIGIT ZERO", 43504>>,
    <<"MYANMAR TAI LAING DIGIT ONE", 43505>>, <<"MYANMAR TAI LAING DIGIT TWO", 43506>>,
    <<"MYANMAR TAI LAING DIGIT THREE", 43507>>, <<"MYANMAR TAI LAING DIGIT FOUR", 43508>>,
    <<"MYANMAR TAI LAING DIGIT FIVE", 43509>>, <<"MYANMAR TAI LAING DIGIT SIX", 43510>>,
    <<"MYANMAR TAI LAING DIGIT SEVEN", 43511>>, <<"MYANMAR TAI LAING DIGIT EIGHT", 43512>>,
    <<"MYANMAR TAI LAING DIGIT NINE", 43513>>, <<"MYANMAR LETTER TAI LAING LLA", 43514>>,
    <<"MYANMAR LETTER TAI LAING DA", 43515>>, <<"MYANMAR LETTER TAI LAING DHA", 43516>>,
    <<"MYANMAR LETTER TAI LAING BA", 43517>>, <<"MYANMAR LETTER TAI LAING BHA", 43518>>,
    <<"CHAM LETTER A", 43520>>, <<"CHAM LETTER I", 43521>>, <<"CHAM LETTER U", 43522>>,
    <<"CHAM LETTER E", 43523>>, <<"CHAM LETTER AI", 43524>>, <<"CHAM LETTER O", 43525>>,
    <<"CHAM LETTER KA", 43526>>, <<"CHAM LETTER KHA", 43527>>, <<"CHAM LETTER GA", 43528>>,
    <<"CHAM LETTER GHA", 43529>>, <<"CHAM LETTER NGUE", 43530>>, <<"CHAM LETTER NGA", 43531>>,
    <<"CHAM LETTER CHA", 43532>>, <<"CHAM LETTER CHHA", 43533>>, <<"CHAM LETTER JA", 43534>>,
    <<"CHAM LETTER JHA", 43535>>, <<"CHAM LETTER NHUE", 43536>>, <<"CHAM LETTER NHA", 43537>>,
    <<"CHAM LETTER NHJA", 43538>>, <<"CHAM LETTER TA", 43539>>, <<"CHAM LETTER THA", 43540>>,
    <<"CHAM LETTER DA", 43541>>, <<"CHAM LETTER DHA", 43542>>, <<"CHAM LETTER NUE", 43543>>,
    <<"CHAM LETTER NA", 43544>>, <<"CHAM LETTER DDA", 43545>>, <<"CHAM LETTER PA", 43546>>,
    <<"CHAM LETTER PPA", 43547>>, <<"CHAM LETTER PHA", 43548>>, <<"CHAM LETTER BA", 43549>>,
    <<"CHAM LETTER BHA", 43550>>, <<"CHAM LETTER MUE", 43551>>, <<"CHAM LETTER MA", 43552>>,
    <<"CHAM LETTER BBA", 43553>>, <<"CHAM LETTER YA", 43554>>, <<"CHAM LETTER RA", 43555>>,
    <<"CHAM LETTER LA", 43556>>, <<"CHAM LETTER VA", 43557>>, <<"CHAM LETTER SSA", 43558>>,
    <<"CHAM LETTER SA", 43559>>, <<"CHAM LETTER HA", 43560>>, <<"CHAM VOWEL SIGN AA", 43561>>,
    <<"CHAM VOWEL SIGN I", 43562>>, <<"CHAM VOWEL SIGN II", 43563>>, <<"CHAM VOWEL SIGN EI", 43564>>,
    <<"CHAM VOWEL SIGN U", 43565>>, <<"CHAM VOWEL SIGN OE", 43566>>, <<"CHAM VOWEL SIGN O", 43567>>,
    <<"CHAM VOWEL SIGN AI", 43568>>, <<"CHAM VOWEL SIGN AU", 43569>>, <<"CHAM VOWEL SIGN UE", 43570>>,
    <<"CHAM CONSONANT SIGN YA", 43571>>, <<"CHAM CONSONANT SIGN RA", 43572>>,
    <<"CHAM CONSONANT SIGN LA", 43573>>, <<"CHAM CONSONANT SIGN WA", 43574>>,
    <<"CHAM LETTER FINAL K", 43584>>, <<"CHAM LETTER FINAL G", 43585>>,
    <<"CHAM LETTER FINAL NG", 43586>>, <<"CHAM CONSONANT SIGN FINAL NG", 43587>>,
    <<"CHAM LETTER FINAL CH", 43588>>, <<"CHAM LETTER FINAL T", 43589>>,
    <<"CHAM LETTER FINAL N", 43590>>, <<"CHAM LETTER FINAL P", 43591>>,
    <<"CHAM LETTER FINAL Y", 43592>>, <<"CHAM LETTER FINAL R", 43593>>,
    <<"CHAM LETTER FINAL L", 43594>>, <<"CHAM LETTER FINAL SS", 43595>>,
    <<"CHAM CONSONANT SIGN FINAL M", 43596>>, <<"CHAM CONSONANT SIGN FINAL H", 43597>>,
    <<"CHAM DIGIT ZERO", 43600>>, <<"CHAM DIGIT ONE", 43601>>, <<"CHAM DIGIT TWO", 43602>>,
    <<"CHAM DIGIT THREE", 43603>>, <<"CHAM DIGIT FOUR", 43604>>, <<"CHAM DIGIT FIVE", 43605>>,
    <<"CHAM DIGIT SIX", 43606>>, <<"CHAM DIGIT SEVEN", 43607>>, <<"CHAM DIGIT EIGHT", 43608>>,
    <<"CHAM DIGIT NINE", 43609>>, <<"CHAM PUNCTUATION SPIRAL", 43612>>,
    <<"CHAM PUNCTUATION DANDA", 43613>>, <<"CHAM PUNCTUATION DOUBLE DANDA", 43614>>,
    <<"CHAM PUNCTUATION TRIPLE DANDA", 43615>>, <<"MYANMAR LETTER KHAMTI GA", 43616>>,
    <<"MYANMAR LETTER KHAMTI CA", 43617>>, <<"MYANMAR LETTER KHAMTI CHA", 43618>>,
    <<"MYANMAR LETTER KHAMTI JA", 43619>>, <<"MYANMAR LETTER KHAMTI JHA", 43620>>,
    <<"MYANMAR LETTER KHAMTI NYA", 43621>>, <<"MYANMAR LETTER KHAMTI TTA", 43622>>,
    <<"MYANMAR LETTER KHAMTI TTHA", 43623>>, <<"MYANMAR LETTER KHAMTI DDA", 43624>>,
    <<"MYANMAR LETTER KHAMTI DDHA", 43625>>, <<"MYANMAR LETTER KHAMTI DHA", 43626>>,
    <<"MYANMAR LETTER KHAMTI NA", 43627>>, <<"MYANMAR LETTER KHAMTI SA", 43628>>,
    <<"MYANMAR LETTER KHAMTI HA", 43629>>, <<"MYANMAR LETTER KHAMTI HHA", 43630>>,
    <<"MYANMAR LETTER KHAMTI LLA", 43630>>, <<"MYANMAR LETTER KHAMTI FA", 43631>>,
    <<"MYANMAR MODIFIER LETTER KHAMTI REDUPLICATION", 43632>>, <<"MYANMAR LETTER KHAMTI XA", 43633>>,
    <<"MYANMAR LETTER KHAMTI ZA", 43634>>, <<"MYANMAR LETTER KHAMTI RA", 43635>>,
    <<"MYANMAR LOGOGRAM KHAMTI OAY", 43636>>, <<"MYANMAR LOGOGRAM KHAMTI QN", 43637>>,
    <<"MYANMAR LOGOGRAM KHAMTI HM", 43638>>, <<"MYANMAR SYMBOL AITON EXCLAMATION", 43639>>,
    <<"MYANMAR SYMBOL AITON ONE", 43640>>, <<"MYANMAR SYMBOL AITON TWO", 43641>>,
    <<"MYANMAR LETTER AITON RA", 43642>>, <<"MYANMAR SIGN PAO KAREN TONE", 43643>>,
    <<"MYANMAR SIGN TAI LAING TONE-2", 43644>>, <<"MYANMAR SIGN TAI LAING TONE-5", 43645>>,
    <<"MYANMAR LETTER SHWE PALAUNG CHA", 43646>>, <<"MYANMAR LETTER SHWE PALAUNG SHA", 43647>>,
    <<"TAI VIET LETTER LOW KO", 43648>>, <<"TAI VIET LETTER HIGH KO", 43649>>,
    <<"TAI VIET LETTER LOW KHO", 43650>>, <<"TAI VIET LETTER HIGH KHO", 43651>>,
    <<"TAI VIET LETTER LOW KHHO", 43652>>, <<"TAI VIET LETTER HIGH KHHO", 43653>>,
    <<"TAI VIET LETTER LOW GO", 43654>>, <<"TAI VIET LETTER HIGH GO", 43655>>,
    <<"TAI VIET LETTER LOW NGO", 43656>>, <<"TAI VIET LETTER HIGH NGO", 43657>>,
    <<"TAI VIET LETTER LOW CO", 43658>>, <<"TAI VIET LETTER HIGH CO", 43659>>,
    <<"TAI VIET LETTER LOW CHO", 43660>>, <<"TAI VIET LETTER HIGH CHO", 43661>>,
    <<"TAI VIET LETTER LOW SO", 43662>>, <<"TAI VIET LETTER HIGH SO", 43663>>,
    <<"TAI VIET LETTER LOW NYO", 43664>>, <<"TAI VIET LETTER HIGH NYO", 43665>>,
    <<"TAI VIET LETTER LOW DO", 43666>>, <<"TAI VIET LETTER HIGH DO", 43667>>,
    <<"TAI VIET LETTER LOW TO", 43668>>, <<"TAI VIET LETTER HIGH TO", 43669>>,
    <<"TAI VIET LETTER LOW THO", 43670>>, <<"TAI VIET LETTER HIGH THO", 43671>>,
    <<"TAI VIET LETTER LOW NO", 43672>>, <<"TAI VIET LETTER HIGH NO", 43673>>,
    <<"TAI VIET LETTER LOW BO", 43674>>, <<"TAI VIET LETTER HIGH BO", 43675>>,
    <<"TAI VIET LETTER LOW PO", 43676>>, <<"TAI VIET LETTER HIGH PO", 43677>>,
    <<"TAI VIET LETTER LOW PHO", 43678>>, <<"TAI VIET LETTER HIGH PHO", 43679>>,
    <<"TAI VIET LETTER LOW FO", 43680>>, <<"TAI VIET LETTER HIGH FO", 43681>>,
    <<"TAI VIET LETTER LOW MO", 43682>>, <<"TAI VIET LETTER HIGH MO", 43683>>,
    <<"TAI VIET LETTER LOW YO", 43684>>, <<"TAI VIET LETTER HIGH YO", 43685>>,
    <<"TAI VIET LETTER LOW RO", 43686>>, <<"TAI VIET LETTER HIGH RO", 43687>>,
    <<"TAI VIET LETTER LOW LO", 43688>>, <<"TAI VIET LETTER HIGH LO", 43689>>,
    <<"TAI VIET LETTER LOW VO", 43690>>, <<"TAI VIET LETTER HIGH VO", 43691>>,
    <<"TAI VIET LETTER LOW HO", 43692>>, <<"TAI VIET LETTER HIGH HO", 43693>>,
    <<"TAI VIET LETTER LOW O", 43694>>, <<"TAI VIET LETTER HIGH O", 43695>>,
    <<"TAI VIET MAI KANG", 43696>>, <<"TAI VIET VOWEL AA", 43697>>, <<"TAI VIET VOWEL I", 43698>>,
    <<"TAI VIET VOWEL UE", 43699>>, <<"TAI VIET VOWEL U", 43700>>, <<"TAI VIET VOWEL E", 43701>>,
    <<"TAI VIET VOWEL O", 43702>>, <<"TAI VIET MAI KHIT", 43703>>, <<"TAI VIET VOWEL IA", 43704>>,
    <<"TAI VIET VOWEL UEA", 43705>>, <<"TAI VIET VOWEL UA", 43706>>, <<"TAI VIET VOWEL AUE", 43707>>,
    <<"TAI VIET VOWEL AY", 43708>>, <<"TAI VIET VOWEL AN", 43709>>, <<"TAI VIET VOWEL AM", 43710>>,
    <<"TAI VIET TONE MAI EK", 43711>>, <<"TAI VIET TONE MAI NUENG", 43712>>,
    <<"TAI VIET TONE MAI THO", 43713>>, <<"TAI VIET TONE MAI SONG", 43714>>,
    <<"TAI VIET SYMBOL KON", 43739>>, <<"TAI VIET SYMBOL NUENG", 43740>>,
    <<"TAI VIET SYMBOL SAM", 43741>>, <<"TAI VIET SYMBOL HO HOI", 43742>>,
    <<"TAI VIET SYMBOL KOI KOI", 43743>>, <<"MEETEI MAYEK LETTER E", 43744>>,
    <<"MEETEI MAYEK LETTER O", 43745>>, <<"MEETEI MAYEK LETTER CHA", 43746>>,
    <<"MEETEI MAYEK LETTER NYA", 43747>>, <<"MEETEI MAYEK LETTER TTA", 43748>>,
    <<"MEETEI MAYEK LETTER TTHA", 43749>>, <<"MEETEI MAYEK LETTER DDA", 43750>>,
    <<"MEETEI MAYEK LETTER DDHA", 43751>>, <<"MEETEI MAYEK LETTER NNA", 43752>>,
    <<"MEETEI MAYEK LETTER SHA", 43753>>, <<"MEETEI MAYEK LETTER SSA", 43754>>,
    <<"MEETEI MAYEK VOWEL SIGN II", 43755>>, <<"MEETEI MAYEK VOWEL SIGN UU", 43756>>,
    <<"MEETEI MAYEK VOWEL SIGN AAI", 43757>>, <<"MEETEI MAYEK VOWEL SIGN AU", 43758>>,
    <<"MEETEI MAYEK VOWEL SIGN AAU", 43759>>, <<"MEETEI MAYEK CHEIKHAN", 43760>>,
    <<"MEETEI MAYEK AHANG KHUDAM", 43761>>, <<"MEETEI MAYEK ANJI", 43762>>,
    <<"MEETEI MAYEK SYLLABLE REPETITION MARK", 43763>>, <<"MEETEI MAYEK WORD REPETITION MARK", 43764>>,
    <<"MEETEI MAYEK VOWEL SIGN VISARGA", 43765>>, <<"MEETEI MAYEK VIRAMA", 43766>>,
    <<"ETHIOPIC SYLLABLE TTHU", 43777>>, <<"ETHIOPIC SYLLABLE TTHI", 43778>>,
    <<"ETHIOPIC SYLLABLE TTHAA", 43779>>, <<"ETHIOPIC SYLLABLE TTHEE", 43780>>,
    <<"ETHIOPIC SYLLABLE TTHE", 43781>>, <<"ETHIOPIC SYLLABLE TTHO", 43782>>,
    <<"ETHIOPIC SYLLABLE DDHU", 43785>>, <<"ETHIOPIC SYLLABLE DDHI", 43786>>,
    <<"ETHIOPIC SYLLABLE DDHAA", 43787>>, <<"ETHIOPIC SYLLABLE DDHEE", 43788>>,
    <<"ETHIOPIC SYLLABLE DDHE", 43789>>, <<"ETHIOPIC SYLLABLE DDHO", 43790>>,
    <<"ETHIOPIC SYLLABLE DZU", 43793>>, <<"ETHIOPIC SYLLABLE DZI", 43794>>,
    <<"ETHIOPIC SYLLABLE DZAA", 43795>>, <<"ETHIOPIC SYLLABLE DZEE", 43796>>,
    <<"ETHIOPIC SYLLABLE DZE", 43797>>, <<"ETHIOPIC SYLLABLE DZO", 43798>>,
    <<"ETHIOPIC SYLLABLE CCHHA", 43808>>, <<"ETHIOPIC SYLLABLE CCHHU", 43809>>,
    <<"ETHIOPIC SYLLABLE CCHHI", 43810>>, <<"ETHIOPIC SYLLABLE CCHHAA", 43811>>,
    <<"ETHIOPIC SYLLABLE CCHHEE", 43812>>, <<"ETHIOPIC SYLLABLE CCHHE", 43813>>,
    <<"ETHIOPIC SYLLABLE CCHHO", 43814>>, <<"ETHIOPIC SYLLABLE BBA", 43816>>,
    <<"ETHIOPIC SYLLABLE BBU", 43817>>, <<"ETHIOPIC SYLLABLE BBI", 43818>>,
    <<"ETHIOPIC SYLLABLE BBAA", 43819>>, <<"ETHIOPIC SYLLABLE BBEE", 43820>>,
    <<"ETHIOPIC SYLLABLE BBE", 43821>>, <<"ETHIOPIC SYLLABLE BBO", 43822>>,
    <<"LATIN SMALL LETTER BARRED ALPHA", 43824>>, <<"LATIN SMALL LETTER A REVERSED-SCHWA", 43825>>,
    <<"LATIN SMALL LETTER BLACKLETTER E", 43826>>, <<"LATIN SMALL LETTER BARRED E", 43827>>,
    <<"LATIN SMALL LETTER E WITH FLOURISH", 43828>>, <<"LATIN SMALL LETTER LENIS F", 43829>>,
    <<"LATIN SMALL LETTER SCRIPT G WITH CROSSED-TAIL", 43830>>,
    <<"LATIN SMALL LETTER L WITH INVERTED LAZY S", 43831>>,
    <<"LATIN SMALL LETTER L WITH DOUBLE MIDDLE TILDE", 43832>>,
    <<"LATIN SMALL LETTER L WITH MIDDLE RING", 43833>>,
    <<"LATIN SMALL LETTER M WITH CROSSED-TAIL", 43834>>,
    <<"LATIN SMALL LETTER N WITH CROSSED-TAIL", 43835>>,
    <<"LATIN SMALL LETTER ENG WITH CROSSED-TAIL", 43836>>,
    <<"LATIN SMALL LETTER BLACKLETTER O", 43837>>,
    <<"LATIN SMALL LETTER BLACKLETTER O WITH STROKE", 43838>>,
    <<"LATIN SMALL LETTER OPEN O WITH STROKE", 43839>>, <<"LATIN SMALL LETTER INVERTED OE", 43840>>,
    <<"LATIN SMALL LETTER TURNED OE WITH STROKE", 43841>>,
    <<"LATIN SMALL LETTER TURNED OE WITH HORIZONTAL STROKE", 43842>>,
    <<"LATIN SMALL LETTER TURNED O OPEN-O", 43843>>,
    <<"LATIN SMALL LETTER TURNED O OPEN-O WITH STROKE", 43844>>,
    <<"LATIN SMALL LETTER STIRRUP R", 43845>>,
    <<"LATIN LETTER SMALL CAPITAL R WITH RIGHT LEG", 43846>>,
    <<"LATIN SMALL LETTER R WITHOUT HANDLE", 43847>>, <<"LATIN SMALL LETTER DOUBLE R", 43848>>,
    <<"LATIN SMALL LETTER R WITH CROSSED-TAIL", 43849>>,
    <<"LATIN SMALL LETTER DOUBLE R WITH CROSSED-TAIL", 43850>>,
    <<"LATIN SMALL LETTER SCRIPT R", 43851>>, <<"LATIN SMALL LETTER SCRIPT R WITH RING", 43852>>,
    <<"LATIN SMALL LETTER BASELINE ESH", 43853>>,
    <<"LATIN SMALL LETTER U WITH SHORT RIGHT LEG", 43854>>,
    <<"LATIN SMALL LETTER U BAR WITH SHORT RIGHT LEG", 43855>>, <<"LATIN SMALL LETTER UI", 43856>>,
    <<"LATIN SMALL LETTER TURNED UI", 43857>>, <<"LATIN SMALL LETTER U WITH LEFT HOOK", 43858>>,
    <<"LATIN SMALL LETTER CHI", 43859>>, <<"LATIN SMALL LETTER CHI WITH LOW RIGHT RING", 43860>>,
    <<"LATIN SMALL LETTER CHI WITH LOW LEFT SERIF", 43861>>,
    <<"LATIN SMALL LETTER X WITH LOW RIGHT RING", 43862>>,
    <<"LATIN SMALL LETTER X WITH LONG LEFT LEG", 43863>>,
    <<"LATIN SMALL LETTER X WITH LONG LEFT LEG AND LOW RIGHT RING", 43864>>,
    <<"LATIN SMALL LETTER X WITH LONG LEFT LEG WITH SERIF", 43865>>,
    <<"LATIN SMALL LETTER Y WITH SHORT RIGHT LEG", 43866>>,
    <<"MODIFIER BREVE WITH INVERTED BREVE", 43867>>, <<"MODIFIER LETTER SMALL HENG", 43868>>,
    <<"MODIFIER LETTER SMALL L WITH INVERTED LAZY S", 43869>>,
    <<"MODIFIER LETTER SMALL L WITH MIDDLE TILDE", 43870>>,
    <<"MODIFIER LETTER SMALL U WITH LEFT HOOK", 43871>>, <<"LATIN SMALL LETTER SAKHA YAT", 43872>>,
    <<"LATIN SMALL LETTER IOTIFIED E", 43873>>, <<"LATIN SMALL LETTER OPEN OE", 43874>>,
    <<"LATIN SMALL LETTER UO", 43875>>, <<"LATIN SMALL LETTER INVERTED ALPHA", 43876>>,
    <<"GREEK LETTER SMALL CAPITAL OMEGA", 43877>>,
    <<"LATIN SMALL LETTER DZ DIGRAPH WITH RETROFLEX HOOK", 43878>>,
    <<"LATIN SMALL LETTER TS DIGRAPH WITH RETROFLEX HOOK", 43879>>,
    <<"LATIN SMALL LETTER TURNED R WITH MIDDLE TILDE", 43880>>,
    <<"MODIFIER LETTER SMALL TURNED W", 43881>>, <<"MODIFIER LETTER LEFT TACK", 43882>>,
    <<"MODIFIER LETTER RIGHT TACK", 43883>>, <<"CHEROKEE SMALL LETTER A", 43888>>,
    <<"CHEROKEE SMALL LETTER E", 43889>>, <<"CHEROKEE SMALL LETTER I", 43890>>,
    <<"CHEROKEE SMALL LETTER O", 43891>>, <<"CHEROKEE SMALL LETTER U", 43892>>,
    <<"CHEROKEE SMALL LETTER V", 43893>>, <<"CHEROKEE SMALL LETTER GA", 43894>>,
    <<"CHEROKEE SMALL LETTER KA", 43895>>, <<"CHEROKEE SMALL LETTER GE", 43896>>,
    <<"CHEROKEE SMALL LETTER GI", 43897>>, <<"CHEROKEE SMALL LETTER GO", 43898>>,
    <<"CHEROKEE SMALL LETTER GU", 43899>>, <<"CHEROKEE SMALL LETTER GV", 43900>>,
    <<"CHEROKEE SMALL LETTER HA", 43901>>, <<"CHEROKEE SMALL LETTER HE", 43902>>,
    <<"CHEROKEE SMALL LETTER HI", 43903>>, <<"CHEROKEE SMALL LETTER HO", 43904>>,
    <<"CHEROKEE SMALL LETTER HU", 43905>>, <<"CHEROKEE SMALL LETTER HV", 43906>>,
    <<"CHEROKEE SMALL LETTER LA", 43907>>, <<"CHEROKEE SMALL LETTER LE", 43908>>,
    <<"CHEROKEE SMALL LETTER LI", 43909>>, <<"CHEROKEE SMALL LETTER LO", 43910>>,
    <<"CHEROKEE SMALL LETTER LU", 43911>>, <<"CHEROKEE SMALL LETTER LV", 43912>>,
    <<"CHEROKEE SMALL LETTER MA", 43913>>, <<"CHEROKEE SMALL LETTER ME", 43914>>,
    <<"CHEROKEE SMALL LETTER MI", 43915>>, <<"CHEROKEE SMALL LETTER MO", 43916>>,
    <<"CHEROKEE SMALL LETTER MU", 43917>>, <<"CHEROKEE SMALL LETTER NA", 43918>>,
    <<"CHEROKEE SMALL LETTER HNA", 43919>>, <<"CHEROKEE SMALL LETTER NAH", 43920>>,
    <<"CHEROKEE SMALL LETTER NE", 43921>>, <<"CHEROKEE SMALL LETTER NI", 43922>>,
    <<"CHEROKEE SMALL LETTER NO", 43923>>, <<"CHEROKEE SMALL LETTER NU", 43924>>,
    <<"CHEROKEE SMALL LETTER NV", 43925>>, <<"CHEROKEE SMALL LETTER QUA", 43926>>,
    <<"CHEROKEE SMALL LETTER QUE", 43927>>, <<"CHEROKEE SMALL LETTER QUI", 43928>>,
    <<"CHEROKEE SMALL LETTER QUO", 43929>>, <<"CHEROKEE SMALL LETTER QUU", 43930>>,
    <<"CHEROKEE SMALL LETTER QUV", 43931>>, <<"CHEROKEE SMALL LETTER SA", 43932>>,
    <<"CHEROKEE SMALL LETTER S", 43933>>, <<"CHEROKEE SMALL LETTER SE", 43934>>,
    <<"CHEROKEE SMALL LETTER SI", 43935>>, <<"CHEROKEE SMALL LETTER SO", 43936>>,
    <<"CHEROKEE SMALL LETTER SU", 43937>>, <<"CHEROKEE SMALL LETTER SV", 43938>>,
    <<"CHEROKEE SMALL LETTER DA", 43939>>, <<"CHEROKEE SMALL LETTER TA", 43940>>,
    <<"CHEROKEE SMALL LETTER DE", 43941>>, <<"CHEROKEE SMALL LETTER TE", 43942>>,
    <<"CHEROKEE SMALL LETTER DI", 43943>>, <<"CHEROKEE SMALL LETTER TI", 43944>>,
    <<"CHEROKEE SMALL LETTER DO", 43945>>, <<"CHEROKEE SMALL LETTER DU", 43946>>,
    <<"CHEROKEE SMALL LETTER DV", 43947>>, <<"CHEROKEE SMALL LETTER DLA", 43948>>,
    <<"CHEROKEE SMALL LETTER TLA", 43949>>, <<"CHEROKEE SMALL LETTER TLE", 43950>>,
    <<"CHEROKEE SMALL LETTER TLI", 43951>>, <<"CHEROKEE SMALL LETTER TLO", 43952>>,
    <<"CHEROKEE SMALL LETTER TLU", 43953>>, <<"CHEROKEE SMALL LETTER TLV", 43954>>,
    <<"CHEROKEE SMALL LETTER TSA", 43955>>, <<"CHEROKEE SMALL LETTER TSE", 43956>>,
    <<"CHEROKEE SMALL LETTER TSI", 43957>>, <<"CHEROKEE SMALL LETTER TSO", 43958>>,
    <<"CHEROKEE SMALL LETTER TSU", 43959>>, <<"CHEROKEE SMALL LETTER TSV", 43960>>,
    <<"CHEROKEE SMALL LETTER WA", 43961>>, <<"CHEROKEE SMALL LETTER WE", 43962>>,
    <<"CHEROKEE SMALL LETTER WI", 43963>>, <<"CHEROKEE SMALL LETTER WO", 43964>>,
    <<"CHEROKEE SMALL LETTER WU", 43965>>, <<"CHEROKEE SMALL LETTER WV", 43966>>,
    <<"CHEROKEE SMALL LETTER YA", 43967>>, <<"MEETEI MAYEK LETTER KOK", 43968>>,
    <<"MEETEI MAYEK LETTER SAM", 43969>>, <<"MEETEI MAYEK LETTER LAI", 43970>>,
    <<"MEETEI MAYEK LETTER MIT", 43971>>, <<"MEETEI MAYEK LETTER PA", 43972>>,
    <<"MEETEI MAYEK LETTER NA", 43973>>, <<"MEETEI MAYEK LETTER CHIL", 43974>>,
    <<"MEETEI MAYEK LETTER TIL", 43975>>, <<"MEETEI MAYEK LETTER KHOU", 43976>>,
    <<"MEETEI MAYEK LETTER NGOU", 43977>>, <<"MEETEI MAYEK LETTER THOU", 43978>>,
    <<"MEETEI MAYEK LETTER WAI", 43979>>, <<"MEETEI MAYEK LETTER YANG", 43980>>,
    <<"MEETEI MAYEK LETTER HUK", 43981>>, <<"MEETEI MAYEK LETTER UN", 43982>>,
    <<"MEETEI MAYEK LETTER I", 43983>>, <<"MEETEI MAYEK LETTER PHAM", 43984>>,
    <<"MEETEI MAYEK LETTER ATIYA", 43985>>, <<"MEETEI MAYEK LETTER GOK", 43986>>,
    <<"MEETEI MAYEK LETTER JHAM", 43987>>, <<"MEETEI MAYEK LETTER RAI", 43988>>,
    <<"MEETEI MAYEK LETTER BA", 43989>>, <<"MEETEI MAYEK LETTER JIL", 43990>>,
    <<"MEETEI MAYEK LETTER DIL", 43991>>, <<"MEETEI MAYEK LETTER GHOU", 43992>>,
    <<"MEETEI MAYEK LETTER DHOU", 43993>>, <<"MEETEI MAYEK LETTER BHAM", 43994>>,
    <<"MEETEI MAYEK LETTER KOK LONSUM", 43995>>, <<"MEETEI MAYEK LETTER LAI LONSUM", 43996>>,
    <<"MEETEI MAYEK LETTER MIT LONSUM", 43997>>, <<"MEETEI MAYEK LETTER PA LONSUM", 43998>>,
    <<"MEETEI MAYEK LETTER NA LONSUM", 43999>>, <<"MEETEI MAYEK LETTER TIL LONSUM", 44000>>,
    <<"MEETEI MAYEK LETTER NGOU LONSUM", 44001>>, <<"MEETEI MAYEK LETTER I LONSUM", 44002>>,
    <<"MEETEI MAYEK VOWEL SIGN ONAP", 44003>>, <<"MEETEI MAYEK VOWEL SIGN INAP", 44004>>,
    <<"MEETEI MAYEK VOWEL SIGN ANAP", 44005>>, <<"MEETEI MAYEK VOWEL SIGN YENAP", 44006>>,
    <<"MEETEI MAYEK VOWEL SIGN SOUNAP", 44007>>, <<"MEETEI MAYEK VOWEL SIGN UNAP", 44008>>,
    <<"MEETEI MAYEK VOWEL SIGN CHEINAP", 44009>>, <<"MEETEI MAYEK VOWEL SIGN NUNG", 44010>>,
    <<"MEETEI MAYEK CHEIKHEI", 44011>>, <<"MEETEI MAYEK LUM IYEK", 44012>>,
    <<"MEETEI MAYEK APUN IYEK", 44013>>, <<"MEETEI MAYEK DIGIT ZERO", 44016>>,
    <<"MEETEI MAYEK DIGIT ONE", 44017>>, <<"MEETEI MAYEK DIGIT TWO", 44018>>,
    <<"MEETEI MAYEK DIGIT THREE", 44019>>, <<"MEETEI MAYEK DIGIT FOUR", 44020>>,
    <<"MEETEI MAYEK DIGIT FIVE", 44021>>, <<"MEETEI MAYEK DIGIT SIX", 44022>>,
    <<"MEETEI MAYEK DIGIT SEVEN", 44023>>, <<"MEETEI MAYEK DIGIT EIGHT", 44024>>,
    <<"MEETEI MAYEK DIGIT NINE", 44025>>, <<"HANGUL JUNGSEONG O-YEO", 55216>>,
    <<"HANGUL JUNGSEONG O-O-I", 55217>>, <<"HANGUL JUNGSEONG YO-A", 55218>>,
    <<"HANGUL JUNGSEONG YO-AE", 55219>>, <<"HANGUL JUNGSEONG YO-EO", 55220>>,
    <<"HANGUL JUNGSEONG U-YEO", 55221>>, <<"HANGUL JUNGSEONG U-I-I", 55222>>,
    <<"HANGUL JUNGSEONG YU-AE", 55223>>, <<"HANGUL JUNGSEONG YU-O", 55224>>,
    <<"HANGUL JUNGSEONG EU-A", 55225>>, <<"HANGUL JUNGSEONG EU-EO", 55226>>,
    <<"HANGUL JUNGSEONG EU-E", 55227>>, <<"HANGUL JUNGSEONG EU-O", 55228>>,
    <<"HANGUL JUNGSEONG I-YA-O", 55229>>, <<"HANGUL JUNGSEONG I-YAE", 55230>>,
    <<"HANGUL JUNGSEONG I-YEO", 55231>>, <<"HANGUL JUNGSEONG I-YE", 55232>>,
    <<"HANGUL JUNGSEONG I-O-I", 55233>>, <<"HANGUL JUNGSEONG I-YO", 55234>>,
    <<"HANGUL JUNGSEONG I-YU", 55235>>, <<"HANGUL JUNGSEONG I-I", 55236>>,
    <<"HANGUL JUNGSEONG ARAEA-A", 55237>>, <<"HANGUL JUNGSEONG ARAEA-E", 55238>>,
    <<"HANGUL JONGSEONG NIEUN-RIEUL", 55243>>, <<"HANGUL JONGSEONG NIEUN-CHIEUCH", 55244>>,
    <<"HANGUL JONGSEONG SSANGTIKEUT", 55245>>, <<"HANGUL JONGSEONG SSANGTIKEUT-PIEUP", 55246>>,
    <<"HANGUL JONGSEONG TIKEUT-PIEUP", 55247>>, <<"HANGUL JONGSEONG TIKEUT-SIOS", 55248>>,
    <<"HANGUL JONGSEONG TIKEUT-SIOS-KIYEOK", 55249>>, <<"HANGUL JONGSEONG TIKEUT-CIEUC", 55250>>,
    <<"HANGUL JONGSEONG TIKEUT-CHIEUCH", 55251>>, <<"HANGUL JONGSEONG TIKEUT-THIEUTH", 55252>>,
    <<"HANGUL JONGSEONG RIEUL-SSANGKIYEOK", 55253>>, <<"HANGUL JONGSEONG RIEUL-KIYEOK-HIEUH", 55254>>,
    <<"HANGUL JONGSEONG SSANGRIEUL-KHIEUKH", 55255>>, <<"HANGUL JONGSEONG RIEUL-MIEUM-HIEUH", 55256>>,
    <<"HANGUL JONGSEONG RIEUL-PIEUP-TIKEUT", 55257>>,
    <<"HANGUL JONGSEONG RIEUL-PIEUP-PHIEUPH", 55258>>, <<"HANGUL JONGSEONG RIEUL-YESIEUNG", 55259>>,
    <<"HANGUL JONGSEONG RIEUL-YEORINHIEUH-HIEUH", 55260>>, <<"HANGUL JONGSEONG KAPYEOUNRIEUL", 55261>>,
    <<"HANGUL JONGSEONG MIEUM-NIEUN", 55262>>, <<"HANGUL JONGSEONG MIEUM-SSANGNIEUN", 55263>>,
    <<"HANGUL JONGSEONG SSANGMIEUM", 55264>>, <<"HANGUL JONGSEONG MIEUM-PIEUP-SIOS", 55265>>,
    <<"HANGUL JONGSEONG MIEUM-CIEUC", 55266>>, <<"HANGUL JONGSEONG PIEUP-TIKEUT", 55267>>,
    <<"HANGUL JONGSEONG PIEUP-RIEUL-PHIEUPH", 55268>>, <<"HANGUL JONGSEONG PIEUP-MIEUM", 55269>>,
    <<"HANGUL JONGSEONG SSANGPIEUP", 55270>>, <<"HANGUL JONGSEONG PIEUP-SIOS-TIKEUT", 55271>>,
    <<"HANGUL JONGSEONG PIEUP-CIEUC", 55272>>, <<"HANGUL JONGSEONG PIEUP-CHIEUCH", 55273>>,
    <<"HANGUL JONGSEONG SIOS-MIEUM", 55274>>, <<"HANGUL JONGSEONG SIOS-KAPYEOUNPIEUP", 55275>>,
    <<"HANGUL JONGSEONG SSANGSIOS-KIYEOK", 55276>>, <<"HANGUL JONGSEONG SSANGSIOS-TIKEUT", 55277>>,
    <<"HANGUL JONGSEONG SIOS-PANSIOS", 55278>>, <<"HANGUL JONGSEONG SIOS-CIEUC", 55279>>,
    <<"HANGUL JONGSEONG SIOS-CHIEUCH", 55280>>, <<"HANGUL JONGSEONG SIOS-THIEUTH", 55281>>,
    <<"HANGUL JONGSEONG SIOS-HIEUH", 55282>>, <<"HANGUL JONGSEONG PANSIOS-PIEUP", 55283>>,
    <<"HANGUL JONGSEONG PANSIOS-KAPYEOUNPIEUP", 55284>>, <<"HANGUL JONGSEONG YESIEUNG-MIEUM", 55285>>,
    <<"HANGUL JONGSEONG YESIEUNG-HIEUH", 55286>>, <<"HANGUL JONGSEONG CIEUC-PIEUP", 55287>>,
    <<"HANGUL JONGSEONG CIEUC-SSANGPIEUP", 55288>>, <<"HANGUL JONGSEONG SSANGCIEUC", 55289>>,
    <<"HANGUL JONGSEONG PHIEUPH-SIOS", 55290>>, <<"HANGUL JONGSEONG PHIEUPH-THIEUTH", 55291>>,
    <<"CJK COMPATIBILITY IDEOGRAPH-F900", 63744>>, <<"CJK COMPATIBILITY IDEOGRAPH-F901", 63745>>,
    <<"CJK COMPATIBILITY IDEOGRAPH-F902", 63746>>, <<"CJK COMPATIBILITY IDEOGRAPH-F903", 63747>>,
    <<"CJK COMPATIBILITY IDEOGRAPH-F904", 63748>>, <<"CJK COMPATIBILITY IDEOGRAPH-F905", 63749>>,
    <<"CJK COMPATIBILITY IDEOGRAPH-F906", 63750>>, <<"CJK COMPATIBILITY IDEOGRAPH-F907", 63751>>,
    <<"CJK COMPATIBILITY IDEOGRAPH-F908", 63752>>, <<"CJK COMPATIBILITY IDEOGRAPH-F909", 63753>>,
    <<"CJK COMPATIBILITY IDEOGRAPH-F90A", 63754>>, <<"CJK COMPATIBILITY IDEOGRAPH-F90B", 63755>>,
    <<"CJK COMPATIBILITY IDEOGRAPH-F90C", 63756>>, <<"CJK COMPATIBILITY IDEOGRAPH-F90D", 63757>>,
    <<"CJK COMPATIBILITY IDEOGRAPH-F90E", 63758>>, <<"CJK COMPATIBILITY IDEOGRAPH-F90F", 63759>>,
    <<"CJK COMPATIBILITY IDEOGRAPH-F910", 63760>>, <<"CJK COMPATIBILITY IDEOGRAPH-F911", 63761>>,
    <<"CJK COMPATIBILITY IDEOGRAPH-F912", 63762>>, <<"CJK COMPATIBILITY IDEOGRAPH-F913", 63763>>,
    <<"CJK COMPATIBILITY IDEOGRAPH-F914", 63764>>, <<"CJK COMPATIBILITY IDEOGRAPH-F915", 63765>>,
    <<"CJK COMPATIBILITY IDEOGRAPH-F916", 63766>>, <<"CJK COMPATIBILITY IDEOGRAPH-F917", 63767>>,
    <<"CJK COMPATIBILITY IDEOGRAPH-F918", 63768>>, <<"CJK COMPATIBILITY IDEOGRAPH-F919", 63769>>,
    <<"CJK COMPATIBILITY IDEOGRAPH-F91A", 63770>>, <<"CJK COMPATIBILITY IDEOGRAPH-F91B", 63771>>,
    <<"CJK COMPATIBILITY IDEOGRAPH-F91C", 63772>>, <<"CJK COMPATIBILITY IDEOGRAPH-F91D", 63773>>,
    <<"CJK COMPATIBILITY IDEOGRAPH-F91E", 63774>>, <<"CJK COMPATIBILITY IDEOGRAPH-F91F", 63775>>,
    <<"CJK COMPATIBILITY IDEOGRAPH-F920", 63776>>, <<"CJK COMPATIBILITY IDEOGRAPH-F921", 63777>>,
    <<"CJK COMPATIBILITY IDEOGRAPH-F922", 63778>>, <<"CJK COMPATIBILITY IDEOGRAPH-F923", 63779>>,
    <<"CJK COMPATIBILITY IDEOGRAPH-F924", 63780>>, <<"CJK COMPATIBILITY IDEOGRAPH-F925", 63781>>,
    <<"CJK COMPATIBILITY IDEOGRAPH-F926", 63782>>, <<"CJK COMPATIBILITY IDEOGRAPH-F927", 63783>>,
    <<"CJK COMPATIBILITY IDEOGRAPH-F928", 63784>>, <<"CJK COMPATIBILITY IDEOGRAPH-F929", 63785>>,
    <<"CJK COMPATIBILITY IDEOGRAPH-F92A", 63786>>, <<"CJK COMPATIBILITY IDEOGRAPH-F92B", 63787>>,
    <<"CJK COMPATIBILITY IDEOGRAPH-F92C", 63788>>, <<"CJK COMPATIBILITY IDEOGRAPH-F92D", 63789>>,
    <<"CJK COMPATIBILITY IDEOGRAPH-F92E", 63790>>, <<"CJK COMPATIBILITY IDEOGRAPH-F92F", 63791>>,
    <<"CJK COMPATIBILITY IDEOGRAPH-F930", 63792>>, <<"CJK COMPATIBILITY IDEOGRAPH-F931", 63793>>,
    <<"CJK COMPATIBILITY IDEOGRAPH-F932", 63794>>, <<"CJK COMPATIBILITY IDEOGRAPH-F933", 63795>>,
    <<"CJK COMPATIBILITY IDEOGRAPH-F934", 63796>>, <<"CJK COMPATIBILITY IDEOGRAPH-F935", 63797>>,
    <<"CJK COMPATIBILITY IDEOGRAPH-F936", 63798>>, <<"CJK COMPATIBILITY IDEOGRAPH-F937", 63799>>,
    <<"CJK COMPATIBILITY IDEOGRAPH-F938", 63800>>, <<"CJK COMPATIBILITY IDEOGRAPH-F939", 63801>>,
    <<"CJK COMPATIBILITY IDEOGRAPH-F93A", 63802>>, <<"CJK COMPATIBILITY IDEOGRAPH-F93B", 63803>>,
    <<"CJK COMPATIBILITY IDEOGRAPH-F93C", 63804>>, <<"CJK COMPATIBILITY IDEOGRAPH-F93D", 63805>>,
    <<"CJK COMPATIBILITY IDEOGRAPH-F93E", 63806>>, <<"CJK COMPATIBILITY IDEOGRAPH-F93F", 63807>>,
    <<"CJK COMPATIBILITY IDEOGRAPH-F940", 63808>>, <<"CJK COMPATIBILITY IDEOGRAPH-F941", 63809>>,
    <<"CJK COMPATIBILITY IDEOGRAPH-F942", 63810>>, <<"CJK COMPATIBILITY IDEOGRAPH-F943", 63811>>,
    <<"CJK COMPATIBILITY IDEOGRAPH-F944", 63812>>, <<"CJK COMPATIBILITY IDEOGRAPH-F945", 63813>>,
    <<"CJK COMPATIBILITY IDEOGRAPH-F946", 63814>>, <<"CJK COMPATIBILITY IDEOGRAPH-F947", 63815>>,
    <<"CJK COMPATIBILITY IDEOGRAPH-F948", 63816>>, <<"CJK COMPATIBILITY IDEOGRAPH-F949", 63817>>,
    <<"CJK COMPATIBILITY IDEOGRAPH-F94A", 63818>>, <<"CJK COMPATIBILITY IDEOGRAPH-F94B", 63819>>,
    <<"CJK COMPATIBILITY IDEOGRAPH-F94C", 63820>>, <<"CJK COMPATIBILITY IDEOGRAPH-F94D", 63821>>,
    <<"CJK COMPATIBILITY IDEOGRAPH-F94E", 63822>>, <<"CJK COMPATIBILITY IDEOGRAPH-F94F", 63823>>,
    <<"CJK COMPATIBILITY IDEOGRAPH-F950", 63824>>, <<"CJK COMPATIBILITY IDEOGRAPH-F951", 63825>>,
    <<"CJK COMPATIBILITY IDEOGRAPH-F952", 63826>>, <<"CJK COMPATIBILITY IDEOGRAPH-F953", 63827>>,
    <<"CJK COMPATIBILITY IDEOGRAPH-F954", 63828>>, <<"CJK COMPATIBILITY IDEOGRAPH-F955", 63829>>,
    <<"CJK COMPATIBILITY IDEOGRAPH-F956", 63830>>, <<"CJK COMPATIBILITY IDEOGRAPH-F957", 63831>>,
    <<"CJK COMPATIBILITY IDEOGRAPH-F958", 63832>>, <<"CJK COMPATIBILITY IDEOGRAPH-F959", 63833>>,
    <<"CJK COMPATIBILITY IDEOGRAPH-F95A", 63834>>, <<"CJK COMPATIBILITY IDEOGRAPH-F95B", 63835>>,
    <<"CJK COMPATIBILITY IDEOGRAPH-F95C", 63836>>, <<"CJK COMPATIBILITY IDEOGRAPH-F95D", 63837>>,
    <<"CJK COMPATIBILITY IDEOGRAPH-F95E", 63838>>, <<"CJK COMPATIBILITY IDEOGRAPH-F95F", 63839>>,
    <<"CJK COMPATIBILITY IDEOGRAPH-F960", 63840>>, <<"CJK COMPATIBILITY IDEOGRAPH-F961", 63841>>,
    <<"CJK COMPATIBILITY IDEOGRAPH-F962", 63842>>, <<"CJK COMPATIBILITY IDEOGRAPH-F963", 63843>>,
    <<"CJK COMPATIBILITY IDEOGRAPH-F964", 63844>>, <<"CJK COMPATIBILITY IDEOGRAPH-F965", 63845>>,
    <<"CJK COMPATIBILITY IDEOGRAPH-F966", 63846>>, <<"CJK COMPATIBILITY IDEOGRAPH-F967", 63847>>,
    <<"CJK COMPATIBILITY IDEOGRAPH-F968", 63848>>, <<"CJK COMPATIBILITY IDEOGRAPH-F969", 63849>>,
    <<"CJK COMPATIBILITY IDEOGRAPH-F96A", 63850>>, <<"CJK COMPATIBILITY IDEOGRAPH-F96B", 63851>>,
    <<"CJK COMPATIBILITY IDEOGRAPH-F96C", 63852>>, <<"CJK COMPATIBILITY IDEOGRAPH-F96D", 63853>>,
    <<"CJK COMPATIBILITY IDEOGRAPH-F96E", 63854>>, <<"CJK COMPATIBILITY IDEOGRAPH-F96F", 63855>>,
    <<"CJK COMPATIBILITY IDEOGRAPH-F970", 63856>>, <<"CJK COMPATIBILITY IDEOGRAPH-F971", 63857>>,
    <<"CJK COMPATIBILITY IDEOGRAPH-F972", 63858>>, <<"CJK COMPATIBILITY IDEOGRAPH-F973", 63859>>,
    <<"CJK COMPATIBILITY IDEOGRAPH-F974", 63860>>, <<"CJK COMPATIBILITY IDEOGRAPH-F975", 63861>>,
    <<"CJK COMPATIBILITY IDEOGRAPH-F976", 63862>>, <<"CJK COMPATIBILITY IDEOGRAPH-F977", 63863>>,
    <<"CJK COMPATIBILITY IDEOGRAPH-F978", 63864>>, <<"CJK COMPATIBILITY IDEOGRAPH-F979", 63865>>,
    <<"CJK COMPATIBILITY IDEOGRAPH-F97A", 63866>>, <<"CJK COMPATIBILITY IDEOGRAPH-F97B", 63867>>,
    <<"CJK COMPATIBILITY IDEOGRAPH-F97C", 63868>>, <<"CJK COMPATIBILITY IDEOGRAPH-F97D", 63869>>,
    <<"CJK COMPATIBILITY IDEOGRAPH-F97E", 63870>>, <<"CJK COMPATIBILITY IDEOGRAPH-F97F", 63871>>,
    <<"CJK COMPATIBILITY IDEOGRAPH-F980", 63872>>, <<"CJK COMPATIBILITY IDEOGRAPH-F981", 63873>>,
    <<"CJK COMPATIBILITY IDEOGRAPH-F982", 63874>>, <<"CJK COMPATIBILITY IDEOGRAPH-F983", 63875>>,
    <<"CJK COMPATIBILITY IDEOGRAPH-F984", 63876>>, <<"CJK COMPATIBILITY IDEOGRAPH-F985", 63877>>,
    <<"CJK COMPATIBILITY IDEOGRAPH-F986", 63878>>, <<"CJK COMPATIBILITY IDEOGRAPH-F987", 63879>>,
    <<"CJK COMPATIBILITY IDEOGRAPH-F988", 63880>>, <<"CJK COMPATIBILITY IDEOGRAPH-F989", 63881>>,
    <<"CJK COMPATIBILITY IDEOGRAPH-F98A", 63882>>, <<"CJK COMPATIBILITY IDEOGRAPH-F98B", 63883>>,
    <<"CJK COMPATIBILITY IDEOGRAPH-F98C", 63884>>, <<"CJK COMPATIBILITY IDEOGRAPH-F98D", 63885>>,
    <<"CJK COMPATIBILITY IDEOGRAPH-F98E", 63886>>, <<"CJK COMPATIBILITY IDEOGRAPH-F98F", 63887>>,
    <<"CJK COMPATIBILITY IDEOGRAPH-F990", 63888>>, <<"CJK COMPATIBILITY IDEOGRAPH-F991", 63889>>,
    <<"CJK COMPATIBILITY IDEOGRAPH-F992", 63890>>, <<"CJK COMPATIBILITY IDEOGRAPH-F993", 63891>>,
    <<"CJK COMPATIBILITY IDEOGRAPH-F994", 63892>>, <<"CJK COMPATIBILITY IDEOGRAPH-F995", 63893>>,
    <<"CJK COMPATIBILITY IDEOGRAPH-F996", 63894>>, <<"CJK COMPATIBILITY IDEOGRAPH-F997", 63895>>,
    <<"CJK COMPATIBILITY IDEOGRAPH-F998", 63896>>, <<"CJK COMPATIBILITY IDEOGRAPH-F999", 63897>>,
    <<"CJK COMPATIBILITY IDEOGRAPH-F99A", 63898>>, <<"CJK COMPATIBILITY IDEOGRAPH-F99B", 63899>>,
    <<"CJK COMPATIBILITY IDEOGRAPH-F99C", 63900>>, <<"CJK COMPATIBILITY IDEOGRAPH-F99D", 63901>>,
    <<"CJK COMPATIBILITY IDEOGRAPH-F99E", 63902>>, <<"CJK COMPATIBILITY IDEOGRAPH-F99F", 63903>>,
    <<"CJK COMPATIBILITY IDEOGRAPH-F9A0", 63904>>, <<"CJK COMPATIBILITY IDEOGRAPH-F9A1", 63905>>,
    <<"CJK COMPATIBILITY IDEOGRAPH-F9A2", 63906>>, <<"CJK COMPATIBILITY IDEOGRAPH-F9A3", 63907>>,
    <<"CJK COMPATIBILITY IDEOGRAPH-F9A4", 63908>>, <<"CJK COMPATIBILITY IDEOGRAPH-F9A5", 63909>>,
    <<"CJK COMPATIBILITY IDEOGRAPH-F9A6", 63910>>, <<"CJK COMPATIBILITY IDEOGRAPH-F9A7", 63911>>,
    <<"CJK COMPATIBILITY IDEOGRAPH-F9A8", 63912>>, <<"CJK COMPATIBILITY IDEOGRAPH-F9A9", 63913>>,
    <<"CJK COMPATIBILITY IDEOGRAPH-F9AA", 63914>>, <<"CJK COMPATIBILITY IDEOGRAPH-F9AB", 63915>>,
    <<"CJK COMPATIBILITY IDEOGRAPH-F9AC", 63916>>, <<"CJK COMPATIBILITY IDEOGRAPH-F9AD", 63917>>,
    <<"CJK COMPATIBILITY IDEOGRAPH-F9AE", 63918>>, <<"CJK COMPATIBILITY IDEOGRAPH-F9AF", 63919>>,
    <<"CJK COMPATIBILITY IDEOGRAPH-F9B0", 63920>>, <<"CJK COMPATIBILITY IDEOGRAPH-F9B1", 63921>>,
    <<"CJK COMPATIBILITY IDEOGRAPH-F9B2", 63922>>, <<"CJK COMPATIBILITY IDEOGRAPH-F9B3", 63923>>,
    <<"CJK COMPATIBILITY IDEOGRAPH-F9B4", 63924>>, <<"CJK COMPATIBILITY IDEOGRAPH-F9B5", 63925>>,
    <<"CJK COMPATIBILITY IDEOGRAPH-F9B6", 63926>>, <<"CJK COMPATIBILITY IDEOGRAPH-F9B7", 63927>>,
    <<"CJK COMPATIBILITY IDEOGRAPH-F9B8", 63928>>, <<"CJK COMPATIBILITY IDEOGRAPH-F9B9", 63929>>,
    <<"CJK COMPATIBILITY IDEOGRAPH-F9BA", 63930>>, <<"CJK COMPATIBILITY IDEOGRAPH-F9BB", 63931>>,
    <<"CJK COMPATIBILITY IDEOGRAPH-F9BC", 63932>>, <<"CJK COMPATIBILITY IDEOGRAPH-F9BD", 63933>>,
    <<"CJK COMPATIBILITY IDEOGRAPH-F9BE", 63934>>, <<"CJK COMPATIBILITY IDEOGRAPH-F9BF", 63935>>,
    <<"CJK COMPATIBILITY IDEOGRAPH-F9C0", 63936>>, <<"CJK COMPATIBILITY IDEOGRAPH-F9C1", 63937>>,
    <<"CJK COMPATIBILITY IDEOGRAPH-F9C2", 63938>>, <<"CJK COMPATIBILITY IDEOGRAPH-F9C3", 63939>>,
    <<"CJK COMPATIBILITY IDEOGRAPH-F9C4", 63940>>, <<"CJK COMPATIBILITY IDEOGRAPH-F9C5", 63941>>,
    <<"CJK COMPATIBILITY IDEOGRAPH-F9C6", 63942>>, <<"CJK COMPATIBILITY IDEOGRAPH-F9C7", 63943>>,
    <<"CJK COMPATIBILITY IDEOGRAPH-F9C8", 63944>>, <<"CJK COMPATIBILITY IDEOGRAPH-F9C9", 63945>>,
    <<"CJK COMPATIBILITY IDEOGRAPH-F9CA", 63946>>, <<"CJK COMPATIBILITY IDEOGRAPH-F9CB", 63947>>,
    <<"CJK COMPATIBILITY IDEOGRAPH-F9CC", 63948>>, <<"CJK COMPATIBILITY IDEOGRAPH-F9CD", 63949>>,
    <<"CJK COMPATIBILITY IDEOGRAPH-F9CE", 63950>>, <<"CJK COMPATIBILITY IDEOGRAPH-F9CF", 63951>>,
    <<"CJK COMPATIBILITY IDEOGRAPH-F9D0", 63952>>, <<"CJK COMPATIBILITY IDEOGRAPH-F9D1", 63953>>,
    <<"CJK COMPATIBILITY IDEOGRAPH-F9D2", 63954>>, <<"CJK COMPATIBILITY IDEOGRAPH-F9D3", 63955>>,
    <<"CJK COMPATIBILITY IDEOGRAPH-F9D4", 63956>>, <<"CJK COMPATIBILITY IDEOGRAPH-F9D5", 63957>>,
    <<"CJK COMPATIBILITY IDEOGRAPH-F9D6", 63958>>, <<"CJK COMPATIBILITY IDEOGRAPH-F9D7", 63959>>,
    <<"CJK COMPATIBILITY IDEOGRAPH-F9D8", 63960>>, <<"CJK COMPATIBILITY IDEOGRAPH-F9D9", 63961>>,
    <<"CJK COMPATIBILITY IDEOGRAPH-F9DA", 63962>>, <<"CJK COMPATIBILITY IDEOGRAPH-F9DB", 63963>>,
    <<"CJK COMPATIBILITY IDEOGRAPH-F9DC", 63964>>, <<"CJK COMPATIBILITY IDEOGRAPH-F9DD", 63965>>,
    <<"CJK COMPATIBILITY IDEOGRAPH-F9DE", 63966>>, <<"CJK COMPATIBILITY IDEOGRAPH-F9DF", 63967>>,
    <<"CJK COMPATIBILITY IDEOGRAPH-F9E0", 63968>>, <<"CJK COMPATIBILITY IDEOGRAPH-F9E1", 63969>>,
    <<"CJK COMPATIBILITY IDEOGRAPH-F9E2", 63970>>, <<"CJK COMPATIBILITY IDEOGRAPH-F9E3", 63971>>,
    <<"CJK COMPATIBILITY IDEOGRAPH-F9E4", 63972>>, <<"CJK COMPATIBILITY IDEOGRAPH-F9E5", 63973>>,
    <<"CJK COMPATIBILITY IDEOGRAPH-F9E6", 63974>>, <<"CJK COMPATIBILITY IDEOGRAPH-F9E7", 63975>>,
    <<"CJK COMPATIBILITY IDEOGRAPH-F9E8", 63976>>, <<"CJK COMPATIBILITY IDEOGRAPH-F9E9", 63977>>,
    <<"CJK COMPATIBILITY IDEOGRAPH-F9EA", 63978>>, <<"CJK COMPATIBILITY IDEOGRAPH-F9EB", 63979>>,
    <<"CJK COMPATIBILITY IDEOGRAPH-F9EC", 63980>>, <<"CJK COMPATIBILITY IDEOGRAPH-F9ED", 63981>>,
    <<"CJK COMPATIBILITY IDEOGRAPH-F9EE", 63982>>, <<"CJK COMPATIBILITY IDEOGRAPH-F9EF", 63983>>,
    <<"CJK COMPATIBILITY IDEOGRAPH-F9F0", 63984>>, <<"CJK COMPATIBILITY IDEOGRAPH-F9F1", 63985>>,
    <<"CJK COMPATIBILITY IDEOGRAPH-F9F2", 63986>>, <<"CJK COMPATIBILITY IDEOGRAPH-F9F3", 63987>>,
    <<"CJK COMPATIBILITY IDEOGRAPH-F9F4", 63988>>, <<"CJK COMPATIBILITY IDEOGRAPH-F9F5", 63989>>,
    <<"CJK COMPATIBILITY IDEOGRAPH-F9F6", 63990>>, <<"CJK COMPATIBILITY IDEOGRAPH-F9F7", 63991>>,
    <<"CJK COMPATIBILITY IDEOGRAPH-F9F8", 63992>>, <<"CJK COMPATIBILITY IDEOGRAPH-F9F9", 63993>>,
    <<"CJK COMPATIBILITY IDEOGRAPH-F9FA", 63994>>, <<"CJK COMPATIBILITY IDEOGRAPH-F9FB", 63995>>,
    <<"CJK COMPATIBILITY IDEOGRAPH-F9FC", 63996>>, <<"CJK COMPATIBILITY IDEOGRAPH-F9FD", 63997>>,
    <<"CJK COMPATIBILITY IDEOGRAPH-F9FE", 63998>>, <<"CJK COMPATIBILITY IDEOGRAPH-F9FF", 63999>>,
    <<"CJK COMPATIBILITY IDEOGRAPH-FA00", 64000>>, <<"CJK COMPATIBILITY IDEOGRAPH-FA01", 64001>>,
    <<"CJK COMPATIBILITY IDEOGRAPH-FA02", 64002>>, <<"CJK COMPATIBILITY IDEOGRAPH-FA03", 64003>>,
    <<"CJK COMPATIBILITY IDEOGRAPH-FA04", 64004>>, <<"CJK COMPATIBILITY IDEOGRAPH-FA05", 64005>>,
    <<"CJK COMPATIBILITY IDEOGRAPH-FA06", 64006>>, <<"CJK COMPATIBILITY IDEOGRAPH-FA07", 64007>>,
    <<"CJK COMPATIBILITY IDEOGRAPH-FA08", 64008>>, <<"CJK COMPATIBILITY IDEOGRAPH-FA09", 64009>>,
    <<"CJK COMPATIBILITY IDEOGRAPH-FA0A", 64010>>, <<"CJK COMPATIBILITY IDEOGRAPH-FA0B", 64011>>,
    <<"CJK COMPATIBILITY IDEOGRAPH-FA0C", 64012>>, <<"CJK COMPATIBILITY IDEOGRAPH-FA0D", 64013>>,
    <<"CJK COMPATIBILITY IDEOGRAPH-FA0E", 64014>>, <<"CJK COMPATIBILITY IDEOGRAPH-FA0F", 64015>>,
    <<"CJK COMPATIBILITY IDEOGRAPH-FA10", 64016>>, <<"CJK COMPATIBILITY IDEOGRAPH-FA11", 64017>>,
    <<"CJK COMPATIBILITY IDEOGRAPH-FA12", 64018>>, <<"CJK COMPATIBILITY IDEOGRAPH-FA13", 64019>>,
    <<"CJK COMPATIBILITY IDEOGRAPH-FA14", 64020>>, <<"CJK COMPATIBILITY IDEOGRAPH-FA15", 64021>>,
    <<"CJK COMPATIBILITY IDEOGRAPH-FA16", 64022>>, <<"CJK COMPATIBILITY IDEOGRAPH-FA17", 64023>>,
    <<"CJK COMPATIBILITY IDEOGRAPH-FA18", 64024>>, <<"CJK COMPATIBILITY IDEOGRAPH-FA19", 64025>>,
    <<"CJK COMPATIBILITY IDEOGRAPH-FA1A", 64026>>, <<"CJK COMPATIBILITY IDEOGRAPH-FA1B", 64027>>,
    <<"CJK COMPATIBILITY IDEOGRAPH-FA1C", 64028>>, <<"CJK COMPATIBILITY IDEOGRAPH-FA1D", 64029>>,
    <<"CJK COMPATIBILITY IDEOGRAPH-FA1E", 64030>>, <<"CJK COMPATIBILITY IDEOGRAPH-FA1F", 64031>>,
    <<"CJK COMPATIBILITY IDEOGRAPH-FA20", 64032>>, <<"CJK COMPATIBILITY IDEOGRAPH-FA21", 64033>>,
    <<"CJK COMPATIBILITY IDEOGRAPH-FA22", 64034>>, <<"CJK COMPATIBILITY IDEOGRAPH-FA23", 64035>>,
    <<"CJK COMPATIBILITY IDEOGRAPH-FA24", 64036>>, <<"CJK COMPATIBILITY IDEOGRAPH-FA25", 64037>>,
    <<"CJK COMPATIBILITY IDEOGRAPH-FA26", 64038>>, <<"CJK COMPATIBILITY IDEOGRAPH-FA27", 64039>>,
    <<"CJK COMPATIBILITY IDEOGRAPH-FA28", 64040>>, <<"CJK COMPATIBILITY IDEOGRAPH-FA29", 64041>>,
    <<"CJK COMPATIBILITY IDEOGRAPH-FA2A", 64042>>, <<"CJK COMPATIBILITY IDEOGRAPH-FA2B", 64043>>,
    <<"CJK COMPATIBILITY IDEOGRAPH-FA2C", 64044>>, <<"CJK COMPATIBILITY IDEOGRAPH-FA2D", 64045>>,
    <<"CJK COMPATIBILITY IDEOGRAPH-FA2E", 64046>>, <<"CJK COMPATIBILITY IDEOGRAPH-FA2F", 64047>>,
    <<"CJK COMPATIBILITY IDEOGRAPH-FA30", 64048>>, <<"CJK COMPATIBILITY IDEOGRAPH-FA31", 64049>>,
    <<"CJK COMPATIBILITY IDEOGRAPH-FA32", 64050>>, <<"CJK COMPATIBILITY IDEOGRAPH-FA33", 64051>>,
    <<"CJK COMPATIBILITY IDEOGRAPH-FA34", 64052>>, <<"CJK COMPATIBILITY IDEOGRAPH-FA35", 64053>>,
    <<"CJK COMPATIBILITY IDEOGRAPH-FA36", 64054>>, <<"CJK COMPATIBILITY IDEOGRAPH-FA37", 64055>>,
    <<"CJK COMPATIBILITY IDEOGRAPH-FA38", 64056>>, <<"CJK COMPATIBILITY IDEOGRAPH-FA39", 64057>>,
    <<"CJK COMPATIBILITY IDEOGRAPH-FA3A", 64058>>, <<"CJK COMPATIBILITY IDEOGRAPH-FA3B", 64059>>,
    <<"CJK COMPATIBILITY IDEOGRAPH-FA3C", 64060>>, <<"CJK COMPATIBILITY IDEOGRAPH-FA3D", 64061>>,
    <<"CJK COMPATIBILITY IDEOGRAPH-FA3E", 64062>>, <<"CJK COMPATIBILITY IDEOGRAPH-FA3F", 64063>>,
    <<"CJK COMPATIBILITY IDEOGRAPH-FA40", 64064>>, <<"CJK COMPATIBILITY IDEOGRAPH-FA41", 64065>>,
    <<"CJK COMPATIBILITY IDEOGRAPH-FA42", 64066>>, <<"CJK COMPATIBILITY IDEOGRAPH-FA43", 64067>>,
    <<"CJK COMPATIBILITY IDEOGRAPH-FA44", 64068>>, <<"CJK COMPATIBILITY IDEOGRAPH-FA45", 64069>>,
    <<"CJK COMPATIBILITY IDEOGRAPH-FA46", 64070>>, <<"CJK COMPATIBILITY IDEOGRAPH-FA47", 64071>>,
    <<"CJK COMPATIBILITY IDEOGRAPH-FA48", 64072>>, <<"CJK COMPATIBILITY IDEOGRAPH-FA49", 64073>>,
    <<"CJK COMPATIBILITY IDEOGRAPH-FA4A", 64074>>, <<"CJK COMPATIBILITY IDEOGRAPH-FA4B", 64075>>,
    <<"CJK COMPATIBILITY IDEOGRAPH-FA4C", 64076>>, <<"CJK COMPATIBILITY IDEOGRAPH-FA4D", 64077>>,
    <<"CJK COMPATIBILITY IDEOGRAPH-FA4E", 64078>>, <<"CJK COMPATIBILITY IDEOGRAPH-FA4F", 64079>>,
    <<"CJK COMPATIBILITY IDEOGRAPH-FA50", 64080>>, <<"CJK COMPATIBILITY IDEOGRAPH-FA51", 64081>>,
    <<"CJK COMPATIBILITY IDEOGRAPH-FA52", 64082>>, <<"CJK COMPATIBILITY IDEOGRAPH-FA53", 64083>>,
    <<"CJK COMPATIBILITY IDEOGRAPH-FA54", 64084>>, <<"CJK COMPATIBILITY IDEOGRAPH-FA55", 64085>>,
    <<"CJK COMPATIBILITY IDEOGRAPH-FA56", 64086>>, <<"CJK COMPATIBILITY IDEOGRAPH-FA57", 64087>>,
    <<"CJK COMPATIBILITY IDEOGRAPH-FA58", 64088>>, <<"CJK COMPATIBILITY IDEOGRAPH-FA59", 64089>>,
    <<"CJK COMPATIBILITY IDEOGRAPH-FA5A", 64090>>, <<"CJK COMPATIBILITY IDEOGRAPH-FA5B", 64091>>,
    <<"CJK COMPATIBILITY IDEOGRAPH-FA5C", 64092>>, <<"CJK COMPATIBILITY IDEOGRAPH-FA5D", 64093>>,
    <<"CJK COMPATIBILITY IDEOGRAPH-FA5E", 64094>>, <<"CJK COMPATIBILITY IDEOGRAPH-FA5F", 64095>>,
    <<"CJK COMPATIBILITY IDEOGRAPH-FA60", 64096>>, <<"CJK COMPATIBILITY IDEOGRAPH-FA61", 64097>>,
    <<"CJK COMPATIBILITY IDEOGRAPH-FA62", 64098>>, <<"CJK COMPATIBILITY IDEOGRAPH-FA63", 64099>>,
    <<"CJK COMPATIBILITY IDEOGRAPH-FA64", 64100>>, <<"CJK COMPATIBILITY IDEOGRAPH-FA65", 64101>>,
    <<"CJK COMPATIBILITY IDEOGRAPH-FA66", 64102>>, <<"CJK COMPATIBILITY IDEOGRAPH-FA67", 64103>>,
    <<"CJK COMPATIBILITY IDEOGRAPH-FA68", 64104>>, <<"CJK COMPATIBILITY IDEOGRAPH-FA69", 64105>>,
    <<"CJK COMPATIBILITY IDEOGRAPH-FA6A", 64106>>, <<"CJK COMPATIBILITY IDEOGRAPH-FA6B", 64107>>,
    <<"CJK COMPATIBILITY IDEOGRAPH-FA6C", 64108>>, <<"CJK COMPATIBILITY IDEOGRAPH-FA6D", 64109>>,
    <<"CJK COMPATIBILITY IDEOGRAPH-FA70", 64112>>, <<"CJK COMPATIBILITY IDEOGRAPH-FA71", 64113>>,
    <<"CJK COMPATIBILITY IDEOGRAPH-FA72", 64114>>, <<"CJK COMPATIBILITY IDEOGRAPH-FA73", 64115>>,
    <<"CJK COMPATIBILITY IDEOGRAPH-FA74", 64116>>, <<"CJK COMPATIBILITY IDEOGRAPH-FA75", 64117>>,
    <<"CJK COMPATIBILITY IDEOGRAPH-FA76", 64118>>, <<"CJK COMPATIBILITY IDEOGRAPH-FA77", 64119>>,
    <<"CJK COMPATIBILITY IDEOGRAPH-FA78", 64120>>, <<"CJK COMPATIBILITY IDEOGRAPH-FA79", 64121>>,
    <<"CJK COMPATIBILITY IDEOGRAPH-FA7A", 64122>>, <<"CJK COMPATIBILITY IDEOGRAPH-FA7B", 64123>>,
    <<"CJK COMPATIBILITY IDEOGRAPH-FA7C", 64124>>, <<"CJK COMPATIBILITY IDEOGRAPH-FA7D", 64125>>,
    <<"CJK COMPATIBILITY IDEOGRAPH-FA7E", 64126>>, <<"CJK COMPATIBILITY IDEOGRAPH-FA7F", 64127>>,
    <<"CJK COMPATIBILITY IDEOGRAPH-FA80", 64128>>, <<"CJK COMPATIBILITY IDEOGRAPH-FA81", 64129>>,
    <<"CJK COMPATIBILITY IDEOGRAPH-FA82", 64130>>, <<"CJK COMPATIBILITY IDEOGRAPH-FA83", 64131>>,
    <<"CJK COMPATIBILITY IDEOGRAPH-FA84", 64132>>, <<"CJK COMPATIBILITY IDEOGRAPH-FA85", 64133>>,
    <<"CJK COMPATIBILITY IDEOGRAPH-FA86", 64134>>, <<"CJK COMPATIBILITY IDEOGRAPH-FA87", 64135>>,
    <<"CJK COMPATIBILITY IDEOGRAPH-FA88", 64136>>, <<"CJK COMPATIBILITY IDEOGRAPH-FA89", 64137>>,
    <<"CJK COMPATIBILITY IDEOGRAPH-FA8A", 64138>>, <<"CJK COMPATIBILITY IDEOGRAPH-FA8B", 64139>>,
    <<"CJK COMPATIBILITY IDEOGRAPH-FA8C", 64140>>, <<"CJK COMPATIBILITY IDEOGRAPH-FA8D", 64141>>,
    <<"CJK COMPATIBILITY IDEOGRAPH-FA8E", 64142>>, <<"CJK COMPATIBILITY IDEOGRAPH-FA8F", 64143>>,
    <<"CJK COMPATIBILITY IDEOGRAPH-FA90", 64144>>, <<"CJK COMPATIBILITY IDEOGRAPH-FA91", 64145>>,
    <<"CJK COMPATIBILITY IDEOGRAPH-FA92", 64146>>, <<"CJK COMPATIBILITY IDEOGRAPH-FA93", 64147>>,
    <<"CJK COMPATIBILITY IDEOGRAPH-FA94", 64148>>, <<"CJK COMPATIBILITY IDEOGRAPH-FA95", 64149>>,
    <<"CJK COMPATIBILITY IDEOGRAPH-FA96", 64150>>, <<"CJK COMPATIBILITY IDEOGRAPH-FA97", 64151>>,
    <<"CJK COMPATIBILITY IDEOGRAPH-FA98", 64152>>, <<"CJK COMPATIBILITY IDEOGRAPH-FA99", 64153>>,
    <<"CJK COMPATIBILITY IDEOGRAPH-FA9A", 64154>>, <<"CJK COMPATIBILITY IDEOGRAPH-FA9B", 64155>>,
    <<"CJK COMPATIBILITY IDEOGRAPH-FA9C", 64156>>, <<"CJK COMPATIBILITY IDEOGRAPH-FA9D", 64157>>,
    <<"CJK COMPATIBILITY IDEOGRAPH-FA9E", 64158>>, <<"CJK COMPATIBILITY IDEOGRAPH-FA9F", 64159>>,
    <<"CJK COMPATIBILITY IDEOGRAPH-FAA0", 64160>>, <<"CJK COMPATIBILITY IDEOGRAPH-FAA1", 64161>>,
    <<"CJK COMPATIBILITY IDEOGRAPH-FAA2", 64162>>, <<"CJK COMPATIBILITY IDEOGRAPH-FAA3", 64163>>,
    <<"CJK COMPATIBILITY IDEOGRAPH-FAA4", 64164>>, <<"CJK COMPATIBILITY IDEOGRAPH-FAA5", 64165>>,
    <<"CJK COMPATIBILITY IDEOGRAPH-FAA6", 64166>>, <<"CJK COMPATIBILITY IDEOGRAPH-FAA7", 64167>>,
    <<"CJK COMPATIBILITY IDEOGRAPH-FAA8", 64168>>, <<"CJK COMPATIBILITY IDEOGRAPH-FAA9", 64169>>,
    <<"CJK COMPATIBILITY IDEOGRAPH-FAAA", 64170>>, <<"CJK COMPATIBILITY IDEOGRAPH-FAAB", 64171>>,
    <<"CJK COMPATIBILITY IDEOGRAPH-FAAC", 64172>>, <<"CJK COMPATIBILITY IDEOGRAPH-FAAD", 64173>>,
    <<"CJK COMPATIBILITY IDEOGRAPH-FAAE", 64174>>, <<"CJK COMPATIBILITY IDEOGRAPH-FAAF", 64175>>,
    <<"CJK COMPATIBILITY IDEOGRAPH-FAB0", 64176>>, <<"CJK COMPATIBILITY IDEOGRAPH-FAB1", 64177>>,
    <<"CJK COMPATIBILITY IDEOGRAPH-FAB2", 64178>>, <<"CJK COMPATIBILITY IDEOGRAPH-FAB3", 64179>>,
    <<"CJK COMPATIBILITY IDEOGRAPH-FAB4", 64180>>, <<"CJK COMPATIBILITY IDEOGRAPH-FAB5", 64181>>,
    <<"CJK COMPATIBILITY IDEOGRAPH-FAB6", 64182>>, <<"CJK COMPATIBILITY IDEOGRAPH-FAB7", 64183>>,
    <<"CJK COMPATIBILITY IDEOGRAPH-FAB8", 64184>>, <<"CJK COMPATIBILITY IDEOGRAPH-FAB9", 64185>>,
    <<"CJK COMPATIBILITY IDEOGRAPH-FABA", 64186>>, <<"CJK COMPATIBILITY IDEOGRAPH-FABB", 64187>>,
    <<"CJK COMPATIBILITY IDEOGRAPH-FABC", 64188>>, <<"CJK COMPATIBILITY IDEOGRAPH-FABD", 64189>>,
    <<"CJK COMPATIBILITY IDEOGRAPH-FABE", 64190>>, <<"CJK COMPATIBILITY IDEOGRAPH-FABF", 64191>>,
    <<"CJK COMPATIBILITY IDEOGRAPH-FAC0", 64192>>, <<"CJK COMPATIBILITY IDEOGRAPH-FAC1", 64193>>,
    <<"CJK COMPATIBILITY IDEOGRAPH-FAC2", 64194>>, <<"CJK COMPATIBILITY IDEOGRAPH-FAC3", 64195>>,
    <<"CJK COMPATIBILITY IDEOGRAPH-FAC4", 64196>>, <<"CJK COMPATIBILITY IDEOGRAPH-FAC5", 64197>>,
    <<"CJK COMPATIBILITY IDEOGRAPH-FAC6", 64198>>, <<"CJK COMPATIBILITY IDEOGRAPH-FAC7", 64199>>,
    <<"CJK COMPATIBILITY IDEOGRAPH-FAC8", 64200>>, <<"CJK COMPATIBILITY IDEOGRAPH-FAC9", 64201>>,
    <<"CJK COMPATIBILITY IDEOGRAPH-FACA", 64202>>, <<"CJK COMPATIBILITY IDEOGRAPH-FACB", 64203>>,
    <<"CJK COMPATIBILITY IDEOGRAPH-FACC", 64204>>, <<"CJK COMPATIBILITY IDEOGRAPH-FACD", 64205>>,
    <<"CJK COMPATIBILITY IDEOGRAPH-FACE", 64206>>, <<"CJK COMPATIBILITY IDEOGRAPH-FACF", 64207>>,
    <<"CJK COMPATIBILITY IDEOGRAPH-FAD0", 64208>>, <<"CJK COMPATIBILITY IDEOGRAPH-FAD1", 64209>>,
    <<"CJK COMPATIBILITY IDEOGRAPH-FAD2", 64210>>, <<"CJK COMPATIBILITY IDEOGRAPH-FAD3", 64211>>,
    <<"CJK COMPATIBILITY IDEOGRAPH-FAD4", 64212>>, <<"CJK COMPATIBILITY IDEOGRAPH-FAD5", 64213>>,
    <<"CJK COMPATIBILITY IDEOGRAPH-FAD6", 64214>>, <<"CJK COMPATIBILITY IDEOGRAPH-FAD7", 64215>>,
    <<"CJK COMPATIBILITY IDEOGRAPH-FAD8", 64216>>, <<"CJK COMPATIBILITY IDEOGRAPH-FAD9", 64217>>,
    <<"LATIN SMALL LIGATURE FF", 64256>>, <<"LATIN SMALL LIGATURE FI", 64257>>,
    <<"LATIN SMALL LIGATURE FL", 64258>>, <<"LATIN SMALL LIGATURE FFI", 64259>>,
    <<"LATIN SMALL LIGATURE FFL", 64260>>, <<"LATIN SMALL LIGATURE LONG S T", 64261>>,
    <<"LATIN SMALL LIGATURE ST", 64262>>, <<"ARMENIAN SMALL LIGATURE MEN NOW", 64275>>,
    <<"ARMENIAN SMALL LIGATURE MEN ECH", 64276>>, <<"ARMENIAN SMALL LIGATURE MEN INI", 64277>>,
    <<"ARMENIAN SMALL LIGATURE VEW NOW", 64278>>, <<"ARMENIAN SMALL LIGATURE MEN XEH", 64279>>,
    <<"HEBREW LETTER YOD WITH HIRIQ", 64285>>, <<"HEBREW POINT JUDEO-SPANISH VARIKA", 64286>>,
    <<"HEBREW LIGATURE YIDDISH YOD YOD PATAH", 64287>>, <<"HEBREW LETTER ALTERNATIVE AYIN", 64288>>,
    <<"HEBREW LETTER WIDE ALEF", 64289>>, <<"HEBREW LETTER WIDE DALET", 64290>>,
    <<"HEBREW LETTER WIDE HE", 64291>>, <<"HEBREW LETTER WIDE KAF", 64292>>,
    <<"HEBREW LETTER WIDE LAMED", 64293>>, <<"HEBREW LETTER WIDE FINAL MEM", 64294>>,
    <<"HEBREW LETTER WIDE RESH", 64295>>, <<"HEBREW LETTER WIDE TAV", 64296>>,
    <<"HEBREW LETTER ALTERNATIVE PLUS SIGN", 64297>>, <<"HEBREW LETTER SHIN WITH SHIN DOT", 64298>>,
    <<"HEBREW LETTER SHIN WITH SIN DOT", 64299>>,
    <<"HEBREW LETTER SHIN WITH DAGESH AND SHIN DOT", 64300>>,
    <<"HEBREW LETTER SHIN WITH DAGESH AND SIN DOT", 64301>>,
    <<"HEBREW LETTER ALEF WITH PATAH", 64302>>, <<"HEBREW LETTER ALEF WITH QAMATS", 64303>>,
    <<"HEBREW LETTER ALEF WITH MAPIQ", 64304>>, <<"HEBREW LETTER BET WITH DAGESH", 64305>>,
    <<"HEBREW LETTER GIMEL WITH DAGESH", 64306>>, <<"HEBREW LETTER DALET WITH DAGESH", 64307>>,
    <<"HEBREW LETTER HE WITH MAPIQ", 64308>>, <<"HEBREW LETTER VAV WITH DAGESH", 64309>>,
    <<"HEBREW LETTER ZAYIN WITH DAGESH", 64310>>, <<"HEBREW LETTER TET WITH DAGESH", 64312>>,
    <<"HEBREW LETTER YOD WITH DAGESH", 64313>>, <<"HEBREW LETTER FINAL KAF WITH DAGESH", 64314>>,
    <<"HEBREW LETTER KAF WITH DAGESH", 64315>>, <<"HEBREW LETTER LAMED WITH DAGESH", 64316>>,
    <<"HEBREW LETTER MEM WITH DAGESH", 64318>>, <<"HEBREW LETTER NUN WITH DAGESH", 64320>>,
    <<"HEBREW LETTER SAMEKH WITH DAGESH", 64321>>, <<"HEBREW LETTER FINAL PE WITH DAGESH", 64323>>,
    <<"HEBREW LETTER PE WITH DAGESH", 64324>>, <<"HEBREW LETTER TSADI WITH DAGESH", 64326>>,
    <<"HEBREW LETTER QOF WITH DAGESH", 64327>>, <<"HEBREW LETTER RESH WITH DAGESH", 64328>>,
    <<"HEBREW LETTER SHIN WITH DAGESH", 64329>>, <<"HEBREW LETTER TAV WITH DAGESH", 64330>>,
    <<"HEBREW LETTER VAV WITH HOLAM", 64331>>, <<"HEBREW LETTER BET WITH RAFE", 64332>>,
    <<"HEBREW LETTER KAF WITH RAFE", 64333>>, <<"HEBREW LETTER PE WITH RAFE", 64334>>,
    <<"HEBREW LIGATURE ALEF LAMED", 64335>>, <<"ARABIC LETTER ALEF WASLA ISOLATED FORM", 64336>>,
    <<"ARABIC LETTER ALEF WASLA FINAL FORM", 64337>>, <<"ARABIC LETTER BEEH ISOLATED FORM", 64338>>,
    <<"ARABIC LETTER BEEH FINAL FORM", 64339>>, <<"ARABIC LETTER BEEH INITIAL FORM", 64340>>,
    <<"ARABIC LETTER BEEH MEDIAL FORM", 64341>>, <<"ARABIC LETTER PEH ISOLATED FORM", 64342>>,
    <<"ARABIC LETTER PEH FINAL FORM", 64343>>, <<"ARABIC LETTER PEH INITIAL FORM", 64344>>,
    <<"ARABIC LETTER PEH MEDIAL FORM", 64345>>, <<"ARABIC LETTER BEHEH ISOLATED FORM", 64346>>,
    <<"ARABIC LETTER BEHEH FINAL FORM", 64347>>, <<"ARABIC LETTER BEHEH INITIAL FORM", 64348>>,
    <<"ARABIC LETTER BEHEH MEDIAL FORM", 64349>>, <<"ARABIC LETTER TTEHEH ISOLATED FORM", 64350>>,
    <<"ARABIC LETTER TTEHEH FINAL FORM", 64351>>, <<"ARABIC LETTER TTEHEH INITIAL FORM", 64352>>,
    <<"ARABIC LETTER TTEHEH MEDIAL FORM", 64353>>, <<"ARABIC LETTER TEHEH ISOLATED FORM", 64354>>,
    <<"ARABIC LETTER TEHEH FINAL FORM", 64355>>, <<"ARABIC LETTER TEHEH INITIAL FORM", 64356>>,
    <<"ARABIC LETTER TEHEH MEDIAL FORM", 64357>>, <<"ARABIC LETTER TTEH ISOLATED FORM", 64358>>,
    <<"ARABIC LETTER TTEH FINAL FORM", 64359>>, <<"ARABIC LETTER TTEH INITIAL FORM", 64360>>,
    <<"ARABIC LETTER TTEH MEDIAL FORM", 64361>>, <<"ARABIC LETTER VEH ISOLATED FORM", 64362>>,
    <<"ARABIC LETTER VEH FINAL FORM", 64363>>, <<"ARABIC LETTER VEH INITIAL FORM", 64364>>,
    <<"ARABIC LETTER VEH MEDIAL FORM", 64365>>, <<"ARABIC LETTER PEHEH ISOLATED FORM", 64366>>,
    <<"ARABIC LETTER PEHEH FINAL FORM", 64367>>, <<"ARABIC LETTER PEHEH INITIAL FORM", 64368>>,
    <<"ARABIC LETTER PEHEH MEDIAL FORM", 64369>>, <<"ARABIC LETTER DYEH ISOLATED FORM", 64370>>,
    <<"ARABIC LETTER DYEH FINAL FORM", 64371>>, <<"ARABIC LETTER DYEH INITIAL FORM", 64372>>,
    <<"ARABIC LETTER DYEH MEDIAL FORM", 64373>>, <<"ARABIC LETTER NYEH ISOLATED FORM", 64374>>,
    <<"ARABIC LETTER NYEH FINAL FORM", 64375>>, <<"ARABIC LETTER NYEH INITIAL FORM", 64376>>,
    <<"ARABIC LETTER NYEH MEDIAL FORM", 64377>>, <<"ARABIC LETTER TCHEH ISOLATED FORM", 64378>>,
    <<"ARABIC LETTER TCHEH FINAL FORM", 64379>>, <<"ARABIC LETTER TCHEH INITIAL FORM", 64380>>,
    <<"ARABIC LETTER TCHEH MEDIAL FORM", 64381>>, <<"ARABIC LETTER TCHEHEH ISOLATED FORM", 64382>>,
    <<"ARABIC LETTER TCHEHEH FINAL FORM", 64383>>, <<"ARABIC LETTER TCHEHEH INITIAL FORM", 64384>>,
    <<"ARABIC LETTER TCHEHEH MEDIAL FORM", 64385>>, <<"ARABIC LETTER DDAHAL ISOLATED FORM", 64386>>,
    <<"ARABIC LETTER DDAHAL FINAL FORM", 64387>>, <<"ARABIC LETTER DAHAL ISOLATED FORM", 64388>>,
    <<"ARABIC LETTER DAHAL FINAL FORM", 64389>>, <<"ARABIC LETTER DUL ISOLATED FORM", 64390>>,
    <<"ARABIC LETTER DUL FINAL FORM", 64391>>, <<"ARABIC LETTER DDAL ISOLATED FORM", 64392>>,
    <<"ARABIC LETTER DDAL FINAL FORM", 64393>>, <<"ARABIC LETTER JEH ISOLATED FORM", 64394>>,
    <<"ARABIC LETTER JEH FINAL FORM", 64395>>, <<"ARABIC LETTER RREH ISOLATED FORM", 64396>>,
    <<"ARABIC LETTER RREH FINAL FORM", 64397>>, <<"ARABIC LETTER KEHEH ISOLATED FORM", 64398>>,
    <<"ARABIC LETTER KEHEH FINAL FORM", 64399>>, <<"ARABIC LETTER KEHEH INITIAL FORM", 64400>>,
    <<"ARABIC LETTER KEHEH MEDIAL FORM", 64401>>, <<"ARABIC LETTER GAF ISOLATED FORM", 64402>>,
    <<"ARABIC LETTER GAF FINAL FORM", 64403>>, <<"ARABIC LETTER GAF INITIAL FORM", 64404>>,
    <<"ARABIC LETTER GAF MEDIAL FORM", 64405>>, <<"ARABIC LETTER GUEH ISOLATED FORM", 64406>>,
    <<"ARABIC LETTER GUEH FINAL FORM", 64407>>, <<"ARABIC LETTER GUEH INITIAL FORM", 64408>>,
    <<"ARABIC LETTER GUEH MEDIAL FORM", 64409>>, <<"ARABIC LETTER NGOEH ISOLATED FORM", 64410>>,
    <<"ARABIC LETTER NGOEH FINAL FORM", 64411>>, <<"ARABIC LETTER NGOEH INITIAL FORM", 64412>>,
    <<"ARABIC LETTER NGOEH MEDIAL FORM", 64413>>, <<"ARABIC LETTER NOON GHUNNA ISOLATED FORM", 64414>>,
    <<"ARABIC LETTER NOON GHUNNA FINAL FORM", 64415>>, <<"ARABIC LETTER RNOON ISOLATED FORM", 64416>>,
    <<"ARABIC LETTER RNOON FINAL FORM", 64417>>, <<"ARABIC LETTER RNOON INITIAL FORM", 64418>>,
    <<"ARABIC LETTER RNOON MEDIAL FORM", 64419>>,
    <<"ARABIC LETTER HEH WITH YEH ABOVE ISOLATED FORM", 64420>>,
    <<"ARABIC LETTER HEH WITH YEH ABOVE FINAL FORM", 64421>>,
    <<"ARABIC LETTER HEH GOAL ISOLATED FORM", 64422>>, <<"ARABIC LETTER HEH GOAL FINAL FORM", 64423>>,
    <<"ARABIC LETTER HEH GOAL INITIAL FORM", 64424>>, <<"ARABIC LETTER HEH GOAL MEDIAL FORM", 64425>>,
    <<"ARABIC LETTER HEH DOACHASHMEE ISOLATED FORM", 64426>>,
    <<"ARABIC LETTER HEH DOACHASHMEE FINAL FORM", 64427>>,
    <<"ARABIC LETTER HEH DOACHASHMEE INITIAL FORM", 64428>>,
    <<"ARABIC LETTER HEH DOACHASHMEE MEDIAL FORM", 64429>>,
    <<"ARABIC LETTER YEH BARREE ISOLATED FORM", 64430>>,
    <<"ARABIC LETTER YEH BARREE FINAL FORM", 64431>>,
    <<"ARABIC LETTER YEH BARREE WITH HAMZA ABOVE ISOLATED FORM", 64432>>,
    <<"ARABIC LETTER YEH BARREE WITH HAMZA ABOVE FINAL FORM", 64433>>,
    <<"ARABIC SYMBOL DOT ABOVE", 64434>>, <<"ARABIC SYMBOL DOT BELOW", 64435>>,
    <<"ARABIC SYMBOL TWO DOTS ABOVE", 64436>>, <<"ARABIC SYMBOL TWO DOTS BELOW", 64437>>,
    <<"ARABIC SYMBOL THREE DOTS ABOVE", 64438>>, <<"ARABIC SYMBOL THREE DOTS BELOW", 64439>>,
    <<"ARABIC SYMBOL THREE DOTS POINTING DOWNWARDS ABOVE", 64440>>,
    <<"ARABIC SYMBOL THREE DOTS POINTING DOWNWARDS BELOW", 64441>>,
    <<"ARABIC SYMBOL FOUR DOTS ABOVE", 64442>>, <<"ARABIC SYMBOL FOUR DOTS BELOW", 64443>>,
    <<"ARABIC SYMBOL DOUBLE VERTICAL BAR BELOW", 64444>>,
    <<"ARABIC SYMBOL TWO DOTS VERTICALLY ABOVE", 64445>>,
    <<"ARABIC SYMBOL TWO DOTS VERTICALLY BELOW", 64446>>, <<"ARABIC SYMBOL RING", 64447>>,
    <<"ARABIC SYMBOL SMALL TAH ABOVE", 64448>>, <<"ARABIC SYMBOL SMALL TAH BELOW", 64449>>,
    <<"ARABIC SYMBOL WASLA ABOVE", 64450>>, <<"ARABIC LETTER NG ISOLATED FORM", 64467>>,
    <<"ARABIC LETTER NG FINAL FORM", 64468>>, <<"ARABIC LETTER NG INITIAL FORM", 64469>>,
    <<"ARABIC LETTER NG MEDIAL FORM", 64470>>, <<"ARABIC LETTER U ISOLATED FORM", 64471>>,
    <<"ARABIC LETTER U FINAL FORM", 64472>>, <<"ARABIC LETTER OE ISOLATED FORM", 64473>>,
    <<"ARABIC LETTER OE FINAL FORM", 64474>>, <<"ARABIC LETTER YU ISOLATED FORM", 64475>>,
    <<"ARABIC LETTER YU FINAL FORM", 64476>>,
    <<"ARABIC LETTER U WITH HAMZA ABOVE ISOLATED FORM", 64477>>,
    <<"ARABIC LETTER VE ISOLATED FORM", 64478>>, <<"ARABIC LETTER VE FINAL FORM", 64479>>,
    <<"ARABIC LETTER KIRGHIZ OE ISOLATED FORM", 64480>>,
    <<"ARABIC LETTER KIRGHIZ OE FINAL FORM", 64481>>,
    <<"ARABIC LETTER KIRGHIZ YU ISOLATED FORM", 64482>>,
    <<"ARABIC LETTER KIRGHIZ YU FINAL FORM", 64483>>, <<"ARABIC LETTER E ISOLATED FORM", 64484>>,
    <<"ARABIC LETTER E FINAL FORM", 64485>>, <<"ARABIC LETTER E INITIAL FORM", 64486>>,
    <<"ARABIC LETTER E MEDIAL FORM", 64487>>,
    <<"ARABIC LETTER UIGHUR KAZAKH KIRGHIZ ALEF MAKSURA INITIAL FORM", 64488>>,
    <<"ARABIC LETTER UIGHUR KAZAKH KIRGHIZ ALEF MAKSURA MEDIAL FORM", 64489>>,
    <<"ARABIC LIGATURE YEH WITH HAMZA ABOVE WITH ALEF ISOLATED FORM", 64490>>,
    <<"ARABIC LIGATURE YEH WITH HAMZA ABOVE WITH ALEF FINAL FORM", 64491>>,
    <<"ARABIC LIGATURE YEH WITH HAMZA ABOVE WITH AE ISOLATED FORM", 64492>>,
    <<"ARABIC LIGATURE YEH WITH HAMZA ABOVE WITH AE FINAL FORM", 64493>>,
    <<"ARABIC LIGATURE YEH WITH HAMZA ABOVE WITH WAW ISOLATED FORM", 64494>>,
    <<"ARABIC LIGATURE YEH WITH HAMZA ABOVE WITH WAW FINAL FORM", 64495>>,
    <<"ARABIC LIGATURE YEH WITH HAMZA ABOVE WITH U ISOLATED FORM", 64496>>,
    <<"ARABIC LIGATURE YEH WITH HAMZA ABOVE WITH U FINAL FORM", 64497>>,
    <<"ARABIC LIGATURE YEH WITH HAMZA ABOVE WITH OE ISOLATED FORM", 64498>>,
    <<"ARABIC LIGATURE YEH WITH HAMZA ABOVE WITH OE FINAL FORM", 64499>>,
    <<"ARABIC LIGATURE YEH WITH HAMZA ABOVE WITH YU ISOLATED FORM", 64500>>,
    <<"ARABIC LIGATURE YEH WITH HAMZA ABOVE WITH YU FINAL FORM", 64501>>,
    <<"ARABIC LIGATURE YEH WITH HAMZA ABOVE WITH E ISOLATED FORM", 64502>>,
    <<"ARABIC LIGATURE YEH WITH HAMZA ABOVE WITH E FINAL FORM", 64503>>,
    <<"ARABIC LIGATURE YEH WITH HAMZA ABOVE WITH E INITIAL FORM", 64504>>,
    <<"ARABIC LIGATURE UIGHUR KIRGHIZ YEH WITH HAMZA ABOVE WITH ALEF MAKSURA ISOLATED FORM", 64505>>,
    <<"ARABIC LIGATURE UIGHUR KIRGHIZ YEH WITH HAMZA ABOVE WITH ALEF MAKSURA FINAL FORM", 64506>>,
    <<"ARABIC LIGATURE UIGHUR KIRGHIZ YEH WITH HAMZA ABOVE WITH ALEF MAKSURA INITIAL FORM", 64507>>,
    <<"ARABIC LETTER FARSI YEH ISOLATED FORM", 64508>>,
    <<"ARABIC LETTER FARSI YEH FINAL FORM", 64509>>, <<"ARABIC LETTER FARSI YEH INITIAL FORM", 64510>>,
    <<"ARABIC LETTER FARSI YEH MEDIAL FORM", 64511>>,
    <<"ARABIC LIGATURE YEH WITH HAMZA ABOVE WITH JEEM ISOLATED FORM", 64512>>,
    <<"ARABIC LIGATURE YEH WITH HAMZA ABOVE WITH HAH ISOLATED FORM", 64513>>,
    <<"ARABIC LIGATURE YEH WITH HAMZA ABOVE WITH MEEM ISOLATED FORM", 64514>>,
    <<"ARABIC LIGATURE YEH WITH HAMZA ABOVE WITH ALEF MAKSURA ISOLATED FORM", 64515>>,
    <<"ARABIC LIGATURE YEH WITH HAMZA ABOVE WITH YEH ISOLATED FORM", 64516>>,
    <<"ARABIC LIGATURE BEH WITH JEEM ISOLATED FORM", 64517>>,
    <<"ARABIC LIGATURE BEH WITH HAH ISOLATED FORM", 64518>>,
    <<"ARABIC LIGATURE BEH WITH KHAH ISOLATED FORM", 64519>>,
    <<"ARABIC LIGATURE BEH WITH MEEM ISOLATED FORM", 64520>>,
    <<"ARABIC LIGATURE BEH WITH ALEF MAKSURA ISOLATED FORM", 64521>>,
    <<"ARABIC LIGATURE BEH WITH YEH ISOLATED FORM", 64522>>,
    <<"ARABIC LIGATURE TEH WITH JEEM ISOLATED FORM", 64523>>,
    <<"ARABIC LIGATURE TEH WITH HAH ISOLATED FORM", 64524>>,
    <<"ARABIC LIGATURE TEH WITH KHAH ISOLATED FORM", 64525>>,
    <<"ARABIC LIGATURE TEH WITH MEEM ISOLATED FORM", 64526>>,
    <<"ARABIC LIGATURE TEH WITH ALEF MAKSURA ISOLATED FORM", 64527>>,
    <<"ARABIC LIGATURE TEH WITH YEH ISOLATED FORM", 64528>>,
    <<"ARABIC LIGATURE THEH WITH JEEM ISOLATED FORM", 64529>>,
    <<"ARABIC LIGATURE THEH WITH MEEM ISOLATED FORM", 64530>>,
    <<"ARABIC LIGATURE THEH WITH ALEF MAKSURA ISOLATED FORM", 64531>>,
    <<"ARABIC LIGATURE THEH WITH YEH ISOLATED FORM", 64532>>,
    <<"ARABIC LIGATURE JEEM WITH HAH ISOLATED FORM", 64533>>,
    <<"ARABIC LIGATURE JEEM WITH MEEM ISOLATED FORM", 64534>>,
    <<"ARABIC LIGATURE HAH WITH JEEM ISOLATED FORM", 64535>>,
    <<"ARABIC LIGATURE HAH WITH MEEM ISOLATED FORM", 64536>>,
    <<"ARABIC LIGATURE KHAH WITH JEEM ISOLATED FORM", 64537>>,
    <<"ARABIC LIGATURE KHAH WITH HAH ISOLATED FORM", 64538>>,
    <<"ARABIC LIGATURE KHAH WITH MEEM ISOLATED FORM", 64539>>,
    <<"ARABIC LIGATURE SEEN WITH JEEM ISOLATED FORM", 64540>>,
    <<"ARABIC LIGATURE SEEN WITH HAH ISOLATED FORM", 64541>>,
    <<"ARABIC LIGATURE SEEN WITH KHAH ISOLATED FORM", 64542>>,
    <<"ARABIC LIGATURE SEEN WITH MEEM ISOLATED FORM", 64543>>,
    <<"ARABIC LIGATURE SAD WITH HAH ISOLATED FORM", 64544>>,
    <<"ARABIC LIGATURE SAD WITH MEEM ISOLATED FORM", 64545>>,
    <<"ARABIC LIGATURE DAD WITH JEEM ISOLATED FORM", 64546>>,
    <<"ARABIC LIGATURE DAD WITH HAH ISOLATED FORM", 64547>>,
    <<"ARABIC LIGATURE DAD WITH KHAH ISOLATED FORM", 64548>>,
    <<"ARABIC LIGATURE DAD WITH MEEM ISOLATED FORM", 64549>>,
    <<"ARABIC LIGATURE TAH WITH HAH ISOLATED FORM", 64550>>,
    <<"ARABIC LIGATURE TAH WITH MEEM ISOLATED FORM", 64551>>,
    <<"ARABIC LIGATURE ZAH WITH MEEM ISOLATED FORM", 64552>>,
    <<"ARABIC LIGATURE AIN WITH JEEM ISOLATED FORM", 64553>>,
    <<"ARABIC LIGATURE AIN WITH MEEM ISOLATED FORM", 64554>>,
    <<"ARABIC LIGATURE GHAIN WITH JEEM ISOLATED FORM", 64555>>,
    <<"ARABIC LIGATURE GHAIN WITH MEEM ISOLATED FORM", 64556>>,
    <<"ARABIC LIGATURE FEH WITH JEEM ISOLATED FORM", 64557>>,
    <<"ARABIC LIGATURE FEH WITH HAH ISOLATED FORM", 64558>>,
    <<"ARABIC LIGATURE FEH WITH KHAH ISOLATED FORM", 64559>>,
    <<"ARABIC LIGATURE FEH WITH MEEM ISOLATED FORM", 64560>>,
    <<"ARABIC LIGATURE FEH WITH ALEF MAKSURA ISOLATED FORM", 64561>>,
    <<"ARABIC LIGATURE FEH WITH YEH ISOLATED FORM", 64562>>,
    <<"ARABIC LIGATURE QAF WITH HAH ISOLATED FORM", 64563>>,
    <<"ARABIC LIGATURE QAF WITH MEEM ISOLATED FORM", 64564>>,
    <<"ARABIC LIGATURE QAF WITH ALEF MAKSURA ISOLATED FORM", 64565>>,
    <<"ARABIC LIGATURE QAF WITH YEH ISOLATED FORM", 64566>>,
    <<"ARABIC LIGATURE KAF WITH ALEF ISOLATED FORM", 64567>>,
    <<"ARABIC LIGATURE KAF WITH JEEM ISOLATED FORM", 64568>>,
    <<"ARABIC LIGATURE KAF WITH HAH ISOLATED FORM", 64569>>,
    <<"ARABIC LIGATURE KAF WITH KHAH ISOLATED FORM", 64570>>,
    <<"ARABIC LIGATURE KAF WITH LAM ISOLATED FORM", 64571>>,
    <<"ARABIC LIGATURE KAF WITH MEEM ISOLATED FORM", 64572>>,
    <<"ARABIC LIGATURE KAF WITH ALEF MAKSURA ISOLATED FORM", 64573>>,
    <<"ARABIC LIGATURE KAF WITH YEH ISOLATED FORM", 64574>>,
    <<"ARABIC LIGATURE LAM WITH JEEM ISOLATED FORM", 64575>>,
    <<"ARABIC LIGATURE LAM WITH HAH ISOLATED FORM", 64576>>,
    <<"ARABIC LIGATURE LAM WITH KHAH ISOLATED FORM", 64577>>,
    <<"ARABIC LIGATURE LAM WITH MEEM ISOLATED FORM", 64578>>,
    <<"ARABIC LIGATURE LAM WITH ALEF MAKSURA ISOLATED FORM", 64579>>,
    <<"ARABIC LIGATURE LAM WITH YEH ISOLATED FORM", 64580>>,
    <<"ARABIC LIGATURE MEEM WITH JEEM ISOLATED FORM", 64581>>,
    <<"ARABIC LIGATURE MEEM WITH HAH ISOLATED FORM", 64582>>,
    <<"ARABIC LIGATURE MEEM WITH KHAH ISOLATED FORM", 64583>>,
    <<"ARABIC LIGATURE MEEM WITH MEEM ISOLATED FORM", 64584>>,
    <<"ARABIC LIGATURE MEEM WITH ALEF MAKSURA ISOLATED FORM", 64585>>,
    <<"ARABIC LIGATURE MEEM WITH YEH ISOLATED FORM", 64586>>,
    <<"ARABIC LIGATURE NOON WITH JEEM ISOLATED FORM", 64587>>,
    <<"ARABIC LIGATURE NOON WITH HAH ISOLATED FORM", 64588>>,
    <<"ARABIC LIGATURE NOON WITH KHAH ISOLATED FORM", 64589>>,
    <<"ARABIC LIGATURE NOON WITH MEEM ISOLATED FORM", 64590>>,
    <<"ARABIC LIGATURE NOON WITH ALEF MAKSURA ISOLATED FORM", 64591>>,
    <<"ARABIC LIGATURE NOON WITH YEH ISOLATED FORM", 64592>>,
    <<"ARABIC LIGATURE HEH WITH JEEM ISOLATED FORM", 64593>>,
    <<"ARABIC LIGATURE HEH WITH MEEM ISOLATED FORM", 64594>>,
    <<"ARABIC LIGATURE HEH WITH ALEF MAKSURA ISOLATED FORM", 64595>>,
    <<"ARABIC LIGATURE HEH WITH YEH ISOLATED FORM", 64596>>,
    <<"ARABIC LIGATURE YEH WITH JEEM ISOLATED FORM", 64597>>,
    <<"ARABIC LIGATURE YEH WITH HAH ISOLATED FORM", 64598>>,
    <<"ARABIC LIGATURE YEH WITH KHAH ISOLATED FORM", 64599>>,
    <<"ARABIC LIGATURE YEH WITH MEEM ISOLATED FORM", 64600>>,
    <<"ARABIC LIGATURE YEH WITH ALEF MAKSURA ISOLATED FORM", 64601>>,
    <<"ARABIC LIGATURE YEH WITH YEH ISOLATED FORM", 64602>>,
    <<"ARABIC LIGATURE THAL WITH SUPERSCRIPT ALEF ISOLATED FORM", 64603>>,
    <<"ARABIC LIGATURE REH WITH SUPERSCRIPT ALEF ISOLATED FORM", 64604>>,
    <<"ARABIC LIGATURE ALEF MAKSURA WITH SUPERSCRIPT ALEF ISOLATED FORM", 64605>>,
    <<"ARABIC LIGATURE SHADDA WITH DAMMATAN ISOLATED FORM", 64606>>,
    <<"ARABIC LIGATURE SHADDA WITH KASRATAN ISOLATED FORM", 64607>>,
    <<"ARABIC LIGATURE SHADDA WITH FATHA ISOLATED FORM", 64608>>,
    <<"ARABIC LIGATURE SHADDA WITH DAMMA ISOLATED FORM", 64609>>,
    <<"ARABIC LIGATURE SHADDA WITH KASRA ISOLATED FORM", 64610>>,
    <<"ARABIC LIGATURE SHADDA WITH SUPERSCRIPT ALEF ISOLATED FORM", 64611>>,
    <<"ARABIC LIGATURE YEH WITH HAMZA ABOVE WITH REH FINAL FORM", 64612>>,
    <<"ARABIC LIGATURE YEH WITH HAMZA ABOVE WITH ZAIN FINAL FORM", 64613>>,
    <<"ARABIC LIGATURE YEH WITH HAMZA ABOVE WITH MEEM FINAL FORM", 64614>>,
    <<"ARABIC LIGATURE YEH WITH HAMZA ABOVE WITH NOON FINAL FORM", 64615>>,
    <<"ARABIC LIGATURE YEH WITH HAMZA ABOVE WITH ALEF MAKSURA FINAL FORM", 64616>>,
    <<"ARABIC LIGATURE YEH WITH HAMZA ABOVE WITH YEH FINAL FORM", 64617>>,
    <<"ARABIC LIGATURE BEH WITH REH FINAL FORM", 64618>>,
    <<"ARABIC LIGATURE BEH WITH ZAIN FINAL FORM", 64619>>,
    <<"ARABIC LIGATURE BEH WITH MEEM FINAL FORM", 64620>>,
    <<"ARABIC LIGATURE BEH WITH NOON FINAL FORM", 64621>>,
    <<"ARABIC LIGATURE BEH WITH ALEF MAKSURA FINAL FORM", 64622>>,
    <<"ARABIC LIGATURE BEH WITH YEH FINAL FORM", 64623>>,
    <<"ARABIC LIGATURE TEH WITH REH FINAL FORM", 64624>>,
    <<"ARABIC LIGATURE TEH WITH ZAIN FINAL FORM", 64625>>,
    <<"ARABIC LIGATURE TEH WITH MEEM FINAL FORM", 64626>>,
    <<"ARABIC LIGATURE TEH WITH NOON FINAL FORM", 64627>>,
    <<"ARABIC LIGATURE TEH WITH ALEF MAKSURA FINAL FORM", 64628>>,
    <<"ARABIC LIGATURE TEH WITH YEH FINAL FORM", 64629>>,
    <<"ARABIC LIGATURE THEH WITH REH FINAL FORM", 64630>>,
    <<"ARABIC LIGATURE THEH WITH ZAIN FINAL FORM", 64631>>,
    <<"ARABIC LIGATURE THEH WITH MEEM FINAL FORM", 64632>>,
    <<"ARABIC LIGATURE THEH WITH NOON FINAL FORM", 64633>>,
    <<"ARABIC LIGATURE THEH WITH ALEF MAKSURA FINAL FORM", 64634>>,
    <<"ARABIC LIGATURE THEH WITH YEH FINAL FORM", 64635>>,
    <<"ARABIC LIGATURE FEH WITH ALEF MAKSURA FINAL FORM", 64636>>,
    <<"ARABIC LIGATURE FEH WITH YEH FINAL FORM", 64637>>,
    <<"ARABIC LIGATURE QAF WITH ALEF MAKSURA FINAL FORM", 64638>>,
    <<"ARABIC LIGATURE QAF WITH YEH FINAL FORM", 64639>>,
    <<"ARABIC LIGATURE KAF WITH ALEF FINAL FORM", 64640>>,
    <<"ARABIC LIGATURE KAF WITH LAM FINAL FORM", 64641>>,
    <<"ARABIC LIGATURE KAF WITH MEEM FINAL FORM", 64642>>,
    <<"ARABIC LIGATURE KAF WITH ALEF MAKSURA FINAL FORM", 64643>>,
    <<"ARABIC LIGATURE KAF WITH YEH FINAL FORM", 64644>>,
    <<"ARABIC LIGATURE LAM WITH MEEM FINAL FORM", 64645>>,
    <<"ARABIC LIGATURE LAM WITH ALEF MAKSURA FINAL FORM", 64646>>,
    <<"ARABIC LIGATURE LAM WITH YEH FINAL FORM", 64647>>,
    <<"ARABIC LIGATURE MEEM WITH ALEF FINAL FORM", 64648>>,
    <<"ARABIC LIGATURE MEEM WITH MEEM FINAL FORM", 64649>>,
    <<"ARABIC LIGATURE NOON WITH REH FINAL FORM", 64650>>,
    <<"ARABIC LIGATURE NOON WITH ZAIN FINAL FORM", 64651>>,
    <<"ARABIC LIGATURE NOON WITH MEEM FINAL FORM", 64652>>,
    <<"ARABIC LIGATURE NOON WITH NOON FINAL FORM", 64653>>,
    <<"ARABIC LIGATURE NOON WITH ALEF MAKSURA FINAL FORM", 64654>>,
    <<"ARABIC LIGATURE NOON WITH YEH FINAL FORM", 64655>>,
    <<"ARABIC LIGATURE ALEF MAKSURA WITH SUPERSCRIPT ALEF FINAL FORM", 64656>>,
    <<"ARABIC LIGATURE YEH WITH REH FINAL FORM", 64657>>,
    <<"ARABIC LIGATURE YEH WITH ZAIN FINAL FORM", 64658>>,
    <<"ARABIC LIGATURE YEH WITH MEEM FINAL FORM", 64659>>,
    <<"ARABIC LIGATURE YEH WITH NOON FINAL FORM", 64660>>,
    <<"ARABIC LIGATURE YEH WITH ALEF MAKSURA FINAL FORM", 64661>>,
    <<"ARABIC LIGATURE YEH WITH YEH FINAL FORM", 64662>>,
    <<"ARABIC LIGATURE YEH WITH HAMZA ABOVE WITH JEEM INITIAL FORM", 64663>>,
    <<"ARABIC LIGATURE YEH WITH HAMZA ABOVE WITH HAH INITIAL FORM", 64664>>,
    <<"ARABIC LIGATURE YEH WITH HAMZA ABOVE WITH KHAH INITIAL FORM", 64665>>,
    <<"ARABIC LIGATURE YEH WITH HAMZA ABOVE WITH MEEM INITIAL FORM", 64666>>,
    <<"ARABIC LIGATURE YEH WITH HAMZA ABOVE WITH HEH INITIAL FORM", 64667>>,
    <<"ARABIC LIGATURE BEH WITH JEEM INITIAL FORM", 64668>>,
    <<"ARABIC LIGATURE BEH WITH HAH INITIAL FORM", 64669>>,
    <<"ARABIC LIGATURE BEH WITH KHAH INITIAL FORM", 64670>>,
    <<"ARABIC LIGATURE BEH WITH MEEM INITIAL FORM", 64671>>,
    <<"ARABIC LIGATURE BEH WITH HEH INITIAL FORM", 64672>>,
    <<"ARABIC LIGATURE TEH WITH JEEM INITIAL FORM", 64673>>,
    <<"ARABIC LIGATURE TEH WITH HAH INITIAL FORM", 64674>>,
    <<"ARABIC LIGATURE TEH WITH KHAH INITIAL FORM", 64675>>,
    <<"ARABIC LIGATURE TEH WITH MEEM INITIAL FORM", 64676>>,
    <<"ARABIC LIGATURE TEH WITH HEH INITIAL FORM", 64677>>,
    <<"ARABIC LIGATURE THEH WITH MEEM INITIAL FORM", 64678>>,
    <<"ARABIC LIGATURE JEEM WITH HAH INITIAL FORM", 64679>>,
    <<"ARABIC LIGATURE JEEM WITH MEEM INITIAL FORM", 64680>>,
    <<"ARABIC LIGATURE HAH WITH JEEM INITIAL FORM", 64681>>,
    <<"ARABIC LIGATURE HAH WITH MEEM INITIAL FORM", 64682>>,
    <<"ARABIC LIGATURE KHAH WITH JEEM INITIAL FORM", 64683>>,
    <<"ARABIC LIGATURE KHAH WITH MEEM INITIAL FORM", 64684>>,
    <<"ARABIC LIGATURE SEEN WITH JEEM INITIAL FORM", 64685>>,
    <<"ARABIC LIGATURE SEEN WITH HAH INITIAL FORM", 64686>>,
    <<"ARABIC LIGATURE SEEN WITH KHAH INITIAL FORM", 64687>>,
    <<"ARABIC LIGATURE SEEN WITH MEEM INITIAL FORM", 64688>>,
    <<"ARABIC LIGATURE SAD WITH HAH INITIAL FORM", 64689>>,
    <<"ARABIC LIGATURE SAD WITH KHAH INITIAL FORM", 64690>>,
    <<"ARABIC LIGATURE SAD WITH MEEM INITIAL FORM", 64691>>,
    <<"ARABIC LIGATURE DAD WITH JEEM INITIAL FORM", 64692>>,
    <<"ARABIC LIGATURE DAD WITH HAH INITIAL FORM", 64693>>,
    <<"ARABIC LIGATURE DAD WITH KHAH INITIAL FORM", 64694>>,
    <<"ARABIC LIGATURE DAD WITH MEEM INITIAL FORM", 64695>>,
    <<"ARABIC LIGATURE TAH WITH HAH INITIAL FORM", 64696>>,
    <<"ARABIC LIGATURE ZAH WITH MEEM INITIAL FORM", 64697>>,
    <<"ARABIC LIGATURE AIN WITH JEEM INITIAL FORM", 64698>>,
    <<"ARABIC LIGATURE AIN WITH MEEM INITIAL FORM", 64699>>,
    <<"ARABIC LIGATURE GHAIN WITH JEEM INITIAL FORM", 64700>>,
    <<"ARABIC LIGATURE GHAIN WITH MEEM INITIAL FORM", 64701>>,
    <<"ARABIC LIGATURE FEH WITH JEEM INITIAL FORM", 64702>>,
    <<"ARABIC LIGATURE FEH WITH HAH INITIAL FORM", 64703>>,
    <<"ARABIC LIGATURE FEH WITH KHAH INITIAL FORM", 64704>>,
    <<"ARABIC LIGATURE FEH WITH MEEM INITIAL FORM", 64705>>,
    <<"ARABIC LIGATURE QAF WITH HAH INITIAL FORM", 64706>>,
    <<"ARABIC LIGATURE QAF WITH MEEM INITIAL FORM", 64707>>,
    <<"ARABIC LIGATURE KAF WITH JEEM INITIAL FORM", 64708>>,
    <<"ARABIC LIGATURE KAF WITH HAH INITIAL FORM", 64709>>,
    <<"ARABIC LIGATURE KAF WITH KHAH INITIAL FORM", 64710>>,
    <<"ARABIC LIGATURE KAF WITH LAM INITIAL FORM", 64711>>,
    <<"ARABIC LIGATURE KAF WITH MEEM INITIAL FORM", 64712>>,
    <<"ARABIC LIGATURE LAM WITH JEEM INITIAL FORM", 64713>>,
    <<"ARABIC LIGATURE LAM WITH HAH INITIAL FORM", 64714>>,
    <<"ARABIC LIGATURE LAM WITH KHAH INITIAL FORM", 64715>>,
    <<"ARABIC LIGATURE LAM WITH MEEM INITIAL FORM", 64716>>,
    <<"ARABIC LIGATURE LAM WITH HEH INITIAL FORM", 64717>>,
    <<"ARABIC LIGATURE MEEM WITH JEEM INITIAL FORM", 64718>>,
    <<"ARABIC LIGATURE MEEM WITH HAH INITIAL FORM", 64719>>,
    <<"ARABIC LIGATURE MEEM WITH KHAH INITIAL FORM", 64720>>,
    <<"ARABIC LIGATURE MEEM WITH MEEM INITIAL FORM", 64721>>,
    <<"ARABIC LIGATURE NOON WITH JEEM INITIAL FORM", 64722>>,
    <<"ARABIC LIGATURE NOON WITH HAH INITIAL FORM", 64723>>,
    <<"ARABIC LIGATURE NOON WITH KHAH INITIAL FORM", 64724>>,
    <<"ARABIC LIGATURE NOON WITH MEEM INITIAL FORM", 64725>>,
    <<"ARABIC LIGATURE NOON WITH HEH INITIAL FORM", 64726>>,
    <<"ARABIC LIGATURE HEH WITH JEEM INITIAL FORM", 64727>>,
    <<"ARABIC LIGATURE HEH WITH MEEM INITIAL FORM", 64728>>,
    <<"ARABIC LIGATURE HEH WITH SUPERSCRIPT ALEF INITIAL FORM", 64729>>,
    <<"ARABIC LIGATURE YEH WITH JEEM INITIAL FORM", 64730>>,
    <<"ARABIC LIGATURE YEH WITH HAH INITIAL FORM", 64731>>,
    <<"ARABIC LIGATURE YEH WITH KHAH INITIAL FORM", 64732>>,
    <<"ARABIC LIGATURE YEH WITH MEEM INITIAL FORM", 64733>>,
    <<"ARABIC LIGATURE YEH WITH HEH INITIAL FORM", 64734>>,
    <<"ARABIC LIGATURE YEH WITH HAMZA ABOVE WITH MEEM MEDIAL FORM", 64735>>,
    <<"ARABIC LIGATURE YEH WITH HAMZA ABOVE WITH HEH MEDIAL FORM", 64736>>,
    <<"ARABIC LIGATURE BEH WITH MEEM MEDIAL FORM", 64737>>,
    <<"ARABIC LIGATURE BEH WITH HEH MEDIAL FORM", 64738>>,
    <<"ARABIC LIGATURE TEH WITH MEEM MEDIAL FORM", 64739>>,
    <<"ARABIC LIGATURE TEH WITH HEH MEDIAL FORM", 64740>>,
    <<"ARABIC LIGATURE THEH WITH MEEM MEDIAL FORM", 64741>>,
    <<"ARABIC LIGATURE THEH WITH HEH MEDIAL FORM", 64742>>,
    <<"ARABIC LIGATURE SEEN WITH MEEM MEDIAL FORM", 64743>>,
    <<"ARABIC LIGATURE SEEN WITH HEH MEDIAL FORM", 64744>>,
    <<"ARABIC LIGATURE SHEEN WITH MEEM MEDIAL FORM", 64745>>,
    <<"ARABIC LIGATURE SHEEN WITH HEH MEDIAL FORM", 64746>>,
    <<"ARABIC LIGATURE KAF WITH LAM MEDIAL FORM", 64747>>,
    <<"ARABIC LIGATURE KAF WITH MEEM MEDIAL FORM", 64748>>,
    <<"ARABIC LIGATURE LAM WITH MEEM MEDIAL FORM", 64749>>,
    <<"ARABIC LIGATURE NOON WITH MEEM MEDIAL FORM", 64750>>,
    <<"ARABIC LIGATURE NOON WITH HEH MEDIAL FORM", 64751>>,
    <<"ARABIC LIGATURE YEH WITH MEEM MEDIAL FORM", 64752>>,
    <<"ARABIC LIGATURE YEH WITH HEH MEDIAL FORM", 64753>>,
    <<"ARABIC LIGATURE SHADDA WITH FATHA MEDIAL FORM", 64754>>,
    <<"ARABIC LIGATURE SHADDA WITH DAMMA MEDIAL FORM", 64755>>,
    <<"ARABIC LIGATURE SHADDA WITH KASRA MEDIAL FORM", 64756>>,
    <<"ARABIC LIGATURE TAH WITH ALEF MAKSURA ISOLATED FORM", 64757>>,
    <<"ARABIC LIGATURE TAH WITH YEH ISOLATED FORM", 64758>>,
    <<"ARABIC LIGATURE AIN WITH ALEF MAKSURA ISOLATED FORM", 64759>>,
    <<"ARABIC LIGATURE AIN WITH YEH ISOLATED FORM", 64760>>,
    <<"ARABIC LIGATURE GHAIN WITH ALEF MAKSURA ISOLATED FORM", 64761>>,
    <<"ARABIC LIGATURE GHAIN WITH YEH ISOLATED FORM", 64762>>,
    <<"ARABIC LIGATURE SEEN WITH ALEF MAKSURA ISOLATED FORM", 64763>>,
    <<"ARABIC LIGATURE SEEN WITH YEH ISOLATED FORM", 64764>>,
    <<"ARABIC LIGATURE SHEEN WITH ALEF MAKSURA ISOLATED FORM", 64765>>,
    <<"ARABIC LIGATURE SHEEN WITH YEH ISOLATED FORM", 64766>>,
    <<"ARABIC LIGATURE HAH WITH ALEF MAKSURA ISOLATED FORM", 64767>>,
    <<"ARABIC LIGATURE HAH WITH YEH ISOLATED FORM", 64768>>,
    <<"ARABIC LIGATURE JEEM WITH ALEF MAKSURA ISOLATED FORM", 64769>>,
    <<"ARABIC LIGATURE JEEM WITH YEH ISOLATED FORM", 64770>>,
    <<"ARABIC LIGATURE KHAH WITH ALEF MAKSURA ISOLATED FORM", 64771>>,
    <<"ARABIC LIGATURE KHAH WITH YEH ISOLATED FORM", 64772>>,
    <<"ARABIC LIGATURE SAD WITH ALEF MAKSURA ISOLATED FORM", 64773>>,
    <<"ARABIC LIGATURE SAD WITH YEH ISOLATED FORM", 64774>>,
    <<"ARABIC LIGATURE DAD WITH ALEF MAKSURA ISOLATED FORM", 64775>>,
    <<"ARABIC LIGATURE DAD WITH YEH ISOLATED FORM", 64776>>,
    <<"ARABIC LIGATURE SHEEN WITH JEEM ISOLATED FORM", 64777>>,
    <<"ARABIC LIGATURE SHEEN WITH HAH ISOLATED FORM", 64778>>,
    <<"ARABIC LIGATURE SHEEN WITH KHAH ISOLATED FORM", 64779>>,
    <<"ARABIC LIGATURE SHEEN WITH MEEM ISOLATED FORM", 64780>>,
    <<"ARABIC LIGATURE SHEEN WITH REH ISOLATED FORM", 64781>>,
    <<"ARABIC LIGATURE SEEN WITH REH ISOLATED FORM", 64782>>,
    <<"ARABIC LIGATURE SAD WITH REH ISOLATED FORM", 64783>>,
    <<"ARABIC LIGATURE DAD WITH REH ISOLATED FORM", 64784>>,
    <<"ARABIC LIGATURE TAH WITH ALEF MAKSURA FINAL FORM", 64785>>,
    <<"ARABIC LIGATURE TAH WITH YEH FINAL FORM", 64786>>,
    <<"ARABIC LIGATURE AIN WITH ALEF MAKSURA FINAL FORM", 64787>>,
    <<"ARABIC LIGATURE AIN WITH YEH FINAL FORM", 64788>>,
    <<"ARABIC LIGATURE GHAIN WITH ALEF MAKSURA FINAL FORM", 64789>>,
    <<"ARABIC LIGATURE GHAIN WITH YEH FINAL FORM", 64790>>,
    <<"ARABIC LIGATURE SEEN WITH ALEF MAKSURA FINAL FORM", 64791>>,
    <<"ARABIC LIGATURE SEEN WITH YEH FINAL FORM", 64792>>,
    <<"ARABIC LIGATURE SHEEN WITH ALEF MAKSURA FINAL FORM", 64793>>,
    <<"ARABIC LIGATURE SHEEN WITH YEH FINAL FORM", 64794>>,
    <<"ARABIC LIGATURE HAH WITH ALEF MAKSURA FINAL FORM", 64795>>,
    <<"ARABIC LIGATURE HAH WITH YEH FINAL FORM", 64796>>,
    <<"ARABIC LIGATURE JEEM WITH ALEF MAKSURA FINAL FORM", 64797>>,
    <<"ARABIC LIGATURE JEEM WITH YEH FINAL FORM", 64798>>,
    <<"ARABIC LIGATURE KHAH WITH ALEF MAKSURA FINAL FORM", 64799>>,
    <<"ARABIC LIGATURE KHAH WITH YEH FINAL FORM", 64800>>,
    <<"ARABIC LIGATURE SAD WITH ALEF MAKSURA FINAL FORM", 64801>>,
    <<"ARABIC LIGATURE SAD WITH YEH FINAL FORM", 64802>>,
    <<"ARABIC LIGATURE DAD WITH ALEF MAKSURA FINAL FORM", 64803>>,
    <<"ARABIC LIGATURE DAD WITH YEH FINAL FORM", 64804>>,
    <<"ARABIC LIGATURE SHEEN WITH JEEM FINAL FORM", 64805>>,
    <<"ARABIC LIGATURE SHEEN WITH HAH FINAL FORM", 64806>>,
    <<"ARABIC LIGATURE SHEEN WITH KHAH FINAL FORM", 64807>>,
    <<"ARABIC LIGATURE SHEEN WITH MEEM FINAL FORM", 64808>>,
    <<"ARABIC LIGATURE SHEEN WITH REH FINAL FORM", 64809>>,
    <<"ARABIC LIGATURE SEEN WITH REH FINAL FORM", 64810>>,
    <<"ARABIC LIGATURE SAD WITH REH FINAL FORM", 64811>>,
    <<"ARABIC LIGATURE DAD WITH REH FINAL FORM", 64812>>,
    <<"ARABIC LIGATURE SHEEN WITH JEEM INITIAL FORM", 64813>>,
    <<"ARABIC LIGATURE SHEEN WITH HAH INITIAL FORM", 64814>>,
    <<"ARABIC LIGATURE SHEEN WITH KHAH INITIAL FORM", 64815>>,
    <<"ARABIC LIGATURE SHEEN WITH MEEM INITIAL FORM", 64816>>,
    <<"ARABIC LIGATURE SEEN WITH HEH INITIAL FORM", 64817>>,
    <<"ARABIC LIGATURE SHEEN WITH HEH INITIAL FORM", 64818>>,
    <<"ARABIC LIGATURE TAH WITH MEEM INITIAL FORM", 64819>>,
    <<"ARABIC LIGATURE SEEN WITH JEEM MEDIAL FORM", 64820>>,
    <<"ARABIC LIGATURE SEEN WITH HAH MEDIAL FORM", 64821>>,
    <<"ARABIC LIGATURE SEEN WITH KHAH MEDIAL FORM", 64822>>,
    <<"ARABIC LIGATURE SHEEN WITH JEEM MEDIAL FORM", 64823>>,
    <<"ARABIC LIGATURE SHEEN WITH HAH MEDIAL FORM", 64824>>,
    <<"ARABIC LIGATURE SHEEN WITH KHAH MEDIAL FORM", 64825>>,
    <<"ARABIC LIGATURE TAH WITH MEEM MEDIAL FORM", 64826>>,
    <<"ARABIC LIGATURE ZAH WITH MEEM MEDIAL FORM", 64827>>,
    <<"ARABIC LIGATURE ALEF WITH FATHATAN FINAL FORM", 64828>>,
    <<"ARABIC LIGATURE ALEF WITH FATHATAN ISOLATED FORM", 64829>>,
    <<"ORNATE LEFT PARENTHESIS", 64830>>, <<"ORNATE RIGHT PARENTHESIS", 64831>>,
    <<"ARABIC LIGATURE RAHIMAHU ALLAAH", 64832>>, <<"ARABIC LIGATURE RADI ALLAAHU ANH", 64833>>,
    <<"ARABIC LIGATURE RADI ALLAAHU ANHAA", 64834>>, <<"ARABIC LIGATURE RADI ALLAAHU ANHUM", 64835>>,
    <<"ARABIC LIGATURE RADI ALLAAHU ANHUMAA", 64836>>,
    <<"ARABIC LIGATURE RADI ALLAAHU ANHUNNA", 64837>>,
    <<"ARABIC LIGATURE SALLALLAAHU ALAYHI WA-AALIH", 64838>>,
    <<"ARABIC LIGATURE ALAYHI AS-SALAAM", 64839>>, <<"ARABIC LIGATURE ALAYHIM AS-SALAAM", 64840>>,
    <<"ARABIC LIGATURE ALAYHIMAA AS-SALAAM", 64841>>,
    <<"ARABIC LIGATURE ALAYHI AS-SALAATU WAS-SALAAM", 64842>>,
    <<"ARABIC LIGATURE QUDDISA SIRRAH", 64843>>,
    <<"ARABIC LIGATURE SALLALLAHU ALAYHI WAAALIHEE WA-SALLAM", 64844>>,
    <<"ARABIC LIGATURE ALAYHAA AS-SALAAM", 64845>>, <<"ARABIC LIGATURE TABAARAKA WA-TAAALAA", 64846>>,
    <<"ARABIC LIGATURE RAHIMAHUM ALLAAH", 64847>>,
    <<"ARABIC LIGATURE TEH WITH JEEM WITH MEEM INITIAL FORM", 64848>>,
    <<"ARABIC LIGATURE TEH WITH HAH WITH JEEM FINAL FORM", 64849>>,
    <<"ARABIC LIGATURE TEH WITH HAH WITH JEEM INITIAL FORM", 64850>>,
    <<"ARABIC LIGATURE TEH WITH HAH WITH MEEM INITIAL FORM", 64851>>,
    <<"ARABIC LIGATURE TEH WITH KHAH WITH MEEM INITIAL FORM", 64852>>,
    <<"ARABIC LIGATURE TEH WITH MEEM WITH JEEM INITIAL FORM", 64853>>,
    <<"ARABIC LIGATURE TEH WITH MEEM WITH HAH INITIAL FORM", 64854>>,
    <<"ARABIC LIGATURE TEH WITH MEEM WITH KHAH INITIAL FORM", 64855>>,
    <<"ARABIC LIGATURE JEEM WITH MEEM WITH HAH FINAL FORM", 64856>>,
    <<"ARABIC LIGATURE JEEM WITH MEEM WITH HAH INITIAL FORM", 64857>>,
    <<"ARABIC LIGATURE HAH WITH MEEM WITH YEH FINAL FORM", 64858>>,
    <<"ARABIC LIGATURE HAH WITH MEEM WITH ALEF MAKSURA FINAL FORM", 64859>>,
    <<"ARABIC LIGATURE SEEN WITH HAH WITH JEEM INITIAL FORM", 64860>>,
    <<"ARABIC LIGATURE SEEN WITH JEEM WITH HAH INITIAL FORM", 64861>>,
    <<"ARABIC LIGATURE SEEN WITH JEEM WITH ALEF MAKSURA FINAL FORM", 64862>>,
    <<"ARABIC LIGATURE SEEN WITH MEEM WITH HAH FINAL FORM", 64863>>,
    <<"ARABIC LIGATURE SEEN WITH MEEM WITH HAH INITIAL FORM", 64864>>,
    <<"ARABIC LIGATURE SEEN WITH MEEM WITH JEEM INITIAL FORM", 64865>>,
    <<"ARABIC LIGATURE SEEN WITH MEEM WITH MEEM FINAL FORM", 64866>>,
    <<"ARABIC LIGATURE SEEN WITH MEEM WITH MEEM INITIAL FORM", 64867>>,
    <<"ARABIC LIGATURE SAD WITH HAH WITH HAH FINAL FORM", 64868>>,
    <<"ARABIC LIGATURE SAD WITH HAH WITH HAH INITIAL FORM", 64869>>,
    <<"ARABIC LIGATURE SAD WITH MEEM WITH MEEM FINAL FORM", 64870>>,
    <<"ARABIC LIGATURE SHEEN WITH HAH WITH MEEM FINAL FORM", 64871>>,
    <<"ARABIC LIGATURE SHEEN WITH HAH WITH MEEM INITIAL FORM", 64872>>,
    <<"ARABIC LIGATURE SHEEN WITH JEEM WITH YEH FINAL FORM", 64873>>,
    <<"ARABIC LIGATURE SHEEN WITH MEEM WITH KHAH FINAL FORM", 64874>>,
    <<"ARABIC LIGATURE SHEEN WITH MEEM WITH KHAH INITIAL FORM", 64875>>,
    <<"ARABIC LIGATURE SHEEN WITH MEEM WITH MEEM FINAL FORM", 64876>>,
    <<"ARABIC LIGATURE SHEEN WITH MEEM WITH MEEM INITIAL FORM", 64877>>,
    <<"ARABIC LIGATURE DAD WITH HAH WITH ALEF MAKSURA FINAL FORM", 64878>>,
    <<"ARABIC LIGATURE DAD WITH KHAH WITH MEEM FINAL FORM", 64879>>,
    <<"ARABIC LIGATURE DAD WITH KHAH WITH MEEM INITIAL FORM", 64880>>,
    <<"ARABIC LIGATURE TAH WITH MEEM WITH HAH FINAL FORM", 64881>>,
    <<"ARABIC LIGATURE TAH WITH MEEM WITH HAH INITIAL FORM", 64882>>,
    <<"ARABIC LIGATURE TAH WITH MEEM WITH MEEM INITIAL FORM", 64883>>,
    <<"ARABIC LIGATURE TAH WITH MEEM WITH YEH FINAL FORM", 64884>>,
    <<"ARABIC LIGATURE AIN WITH JEEM WITH MEEM FINAL FORM", 64885>>,
    <<"ARABIC LIGATURE AIN WITH MEEM WITH MEEM FINAL FORM", 64886>>,
    <<"ARABIC LIGATURE AIN WITH MEEM WITH MEEM INITIAL FORM", 64887>>,
    <<"ARABIC LIGATURE AIN WITH MEEM WITH ALEF MAKSURA FINAL FORM", 64888>>,
    <<"ARABIC LIGATURE GHAIN WITH MEEM WITH MEEM FINAL FORM", 64889>>,
    <<"ARABIC LIGATURE GHAIN WITH MEEM WITH YEH FINAL FORM", 64890>>,
    <<"ARABIC LIGATURE GHAIN WITH MEEM WITH ALEF MAKSURA FINAL FORM", 64891>>,
    <<"ARABIC LIGATURE FEH WITH KHAH WITH MEEM FINAL FORM", 64892>>,
    <<"ARABIC LIGATURE FEH WITH KHAH WITH MEEM INITIAL FORM", 64893>>,
    <<"ARABIC LIGATURE QAF WITH MEEM WITH HAH FINAL FORM", 64894>>,
    <<"ARABIC LIGATURE QAF WITH MEEM WITH MEEM FINAL FORM", 64895>>,
    <<"ARABIC LIGATURE LAM WITH HAH WITH MEEM FINAL FORM", 64896>>,
    <<"ARABIC LIGATURE LAM WITH HAH WITH YEH FINAL FORM", 64897>>,
    <<"ARABIC LIGATURE LAM WITH HAH WITH ALEF MAKSURA FINAL FORM", 64898>>,
    <<"ARABIC LIGATURE LAM WITH JEEM WITH JEEM INITIAL FORM", 64899>>,
    <<"ARABIC LIGATURE LAM WITH JEEM WITH JEEM FINAL FORM", 64900>>,
    <<"ARABIC LIGATURE LAM WITH KHAH WITH MEEM FINAL FORM", 64901>>,
    <<"ARABIC LIGATURE LAM WITH KHAH WITH MEEM INITIAL FORM", 64902>>,
    <<"ARABIC LIGATURE LAM WITH MEEM WITH HAH FINAL FORM", 64903>>,
    <<"ARABIC LIGATURE LAM WITH MEEM WITH HAH INITIAL FORM", 64904>>,
    <<"ARABIC LIGATURE MEEM WITH HAH WITH JEEM INITIAL FORM", 64905>>,
    <<"ARABIC LIGATURE MEEM WITH HAH WITH MEEM INITIAL FORM", 64906>>,
    <<"ARABIC LIGATURE MEEM WITH HAH WITH YEH FINAL FORM", 64907>>,
    <<"ARABIC LIGATURE MEEM WITH JEEM WITH HAH INITIAL FORM", 64908>>,
    <<"ARABIC LIGATURE MEEM WITH JEEM WITH MEEM INITIAL FORM", 64909>>,
    <<"ARABIC LIGATURE MEEM WITH KHAH WITH JEEM INITIAL FORM", 64910>>,
    <<"ARABIC LIGATURE MEEM WITH KHAH WITH MEEM INITIAL FORM", 64911>>,
    <<"ARABIC LIGATURE MEEM WITH JEEM WITH KHAH INITIAL FORM", 64914>>,
    <<"ARABIC LIGATURE HEH WITH MEEM WITH JEEM INITIAL FORM", 64915>>,
    <<"ARABIC LIGATURE HEH WITH MEEM WITH MEEM INITIAL FORM", 64916>>,
    <<"ARABIC LIGATURE NOON WITH HAH WITH MEEM INITIAL FORM", 64917>>,
    <<"ARABIC LIGATURE NOON WITH HAH WITH ALEF MAKSURA FINAL FORM", 64918>>,
    <<"ARABIC LIGATURE NOON WITH JEEM WITH MEEM FINAL FORM", 64919>>,
    <<"ARABIC LIGATURE NOON WITH JEEM WITH MEEM INITIAL FORM", 64920>>,
    <<"ARABIC LIGATURE NOON WITH JEEM WITH ALEF MAKSURA FINAL FORM", 64921>>,
    <<"ARABIC LIGATURE NOON WITH MEEM WITH YEH FINAL FORM", 64922>>,
    <<"ARABIC LIGATURE NOON WITH MEEM WITH ALEF MAKSURA FINAL FORM", 64923>>,
    <<"ARABIC LIGATURE YEH WITH MEEM WITH MEEM FINAL FORM", 64924>>,
    <<"ARABIC LIGATURE YEH WITH MEEM WITH MEEM INITIAL FORM", 64925>>,
    <<"ARABIC LIGATURE BEH WITH KHAH WITH YEH FINAL FORM", 64926>>,
    <<"ARABIC LIGATURE TEH WITH JEEM WITH YEH FINAL FORM", 64927>>,
    <<"ARABIC LIGATURE TEH WITH JEEM WITH ALEF MAKSURA FINAL FORM", 64928>>,
    <<"ARABIC LIGATURE TEH WITH KHAH WITH YEH FINAL FORM", 64929>>,
    <<"ARABIC LIGATURE TEH WITH KHAH WITH ALEF MAKSURA FINAL FORM", 64930>>,
    <<"ARABIC LIGATURE TEH WITH MEEM WITH YEH FINAL FORM", 64931>>,
    <<"ARABIC LIGATURE TEH WITH MEEM WITH ALEF MAKSURA FINAL FORM", 64932>>,
    <<"ARABIC LIGATURE JEEM WITH MEEM WITH YEH FINAL FORM", 64933>>,
    <<"ARABIC LIGATURE JEEM WITH HAH WITH ALEF MAKSURA FINAL FORM", 64934>>,
    <<"ARABIC LIGATURE JEEM WITH MEEM WITH ALEF MAKSURA FINAL FORM", 64935>>,
    <<"ARABIC LIGATURE SEEN WITH KHAH WITH ALEF MAKSURA FINAL FORM", 64936>>,
    <<"ARABIC LIGATURE SAD WITH HAH WITH YEH FINAL FORM", 64937>>,
    <<"ARABIC LIGATURE SHEEN WITH HAH WITH YEH FINAL FORM", 64938>>,
    <<"ARABIC LIGATURE DAD WITH HAH WITH YEH FINAL FORM", 64939>>,
    <<"ARABIC LIGATURE LAM WITH JEEM WITH YEH FINAL FORM", 64940>>,
    <<"ARABIC LIGATURE LAM WITH MEEM WITH YEH FINAL FORM", 64941>>,
    <<"ARABIC LIGATURE YEH WITH HAH WITH YEH FINAL FORM", 64942>>,
    <<"ARABIC LIGATURE YEH WITH JEEM WITH YEH FINAL FORM", 64943>>,
    <<"ARABIC LIGATURE YEH WITH MEEM WITH YEH FINAL FORM", 64944>>,
    <<"ARABIC LIGATURE MEEM WITH MEEM WITH YEH FINAL FORM", 64945>>,
    <<"ARABIC LIGATURE QAF WITH MEEM WITH YEH FINAL FORM", 64946>>,
    <<"ARABIC LIGATURE NOON WITH HAH WITH YEH FINAL FORM", 64947>>,
    <<"ARABIC LIGATURE QAF WITH MEEM WITH HAH INITIAL FORM", 64948>>,
    <<"ARABIC LIGATURE LAM WITH HAH WITH MEEM INITIAL FORM", 64949>>,
    <<"ARABIC LIGATURE AIN WITH MEEM WITH YEH FINAL FORM", 64950>>,
    <<"ARABIC LIGATURE KAF WITH MEEM WITH YEH FINAL FORM", 64951>>,
    <<"ARABIC LIGATURE NOON WITH JEEM WITH HAH INITIAL FORM", 64952>>,
    <<"ARABIC LIGATURE MEEM WITH KHAH WITH YEH FINAL FORM", 64953>>,
    <<"ARABIC LIGATURE LAM WITH JEEM WITH MEEM INITIAL FORM", 64954>>,
    <<"ARABIC LIGATURE KAF WITH MEEM WITH MEEM FINAL FORM", 64955>>,
    <<"ARABIC LIGATURE LAM WITH JEEM WITH MEEM FINAL FORM", 64956>>,
    <<"ARABIC LIGATURE NOON WITH JEEM WITH HAH FINAL FORM", 64957>>,
    <<"ARABIC LIGATURE JEEM WITH HAH WITH YEH FINAL FORM", 64958>>,
    <<"ARABIC LIGATURE HAH WITH JEEM WITH YEH FINAL FORM", 64959>>,
    <<"ARABIC LIGATURE MEEM WITH JEEM WITH YEH FINAL FORM", 64960>>,
    <<"ARABIC LIGATURE FEH WITH MEEM WITH YEH FINAL FORM", 64961>>,
    <<"ARABIC LIGATURE BEH WITH HAH WITH YEH FINAL FORM", 64962>>,
    <<"ARABIC LIGATURE KAF WITH MEEM WITH MEEM INITIAL FORM", 64963>>,
    <<"ARABIC LIGATURE AIN WITH JEEM WITH MEEM INITIAL FORM", 64964>>,
    <<"ARABIC LIGATURE SAD WITH MEEM WITH MEEM INITIAL FORM", 64965>>,
    <<"ARABIC LIGATURE SEEN WITH KHAH WITH YEH FINAL FORM", 64966>>,
    <<"ARABIC LIGATURE NOON WITH JEEM WITH YEH FINAL FORM", 64967>>,
    <<"ARABIC LIGATURE SALAAMUHU ALAYNAA", 64975>>,
    <<"ARABIC LIGATURE SALLA USED AS KORANIC STOP SIGN ISOLATED FORM", 65008>>,
    <<"ARABIC LIGATURE QALA USED AS KORANIC STOP SIGN ISOLATED FORM", 65009>>,
    <<"ARABIC LIGATURE ALLAH ISOLATED FORM", 65010>>, <<"ARABIC LIGATURE AKBAR ISOLATED FORM", 65011>>,
    <<"ARABIC LIGATURE MOHAMMAD ISOLATED FORM", 65012>>,
    <<"ARABIC LIGATURE SALAM ISOLATED FORM", 65013>>,
    <<"ARABIC LIGATURE RASOUL ISOLATED FORM", 65014>>,
    <<"ARABIC LIGATURE ALAYHE ISOLATED FORM", 65015>>,
    <<"ARABIC LIGATURE WASALLAM ISOLATED FORM", 65016>>,
    <<"ARABIC LIGATURE SALLA ISOLATED FORM", 65017>>,
    <<"ARABIC LIGATURE SALLALLAHOU ALAYHE WASALLAM", 65018>>,
    <<"ARABIC LIGATURE JALLAJALALOUHOU", 65019>>, <<"RIAL SIGN", 65020>>,
    <<"ARABIC LIGATURE BISMILLAH AR-RAHMAN AR-RAHEEM", 65021>>,
    <<"ARABIC LIGATURE SUBHAANAHU WA TAAALAA", 65022>>, <<"ARABIC LIGATURE AZZA WA JALL", 65023>>,
    <<"VARIATION SELECTOR-1", 65024>>, <<"VS1", 65024>>, <<"VARIATION SELECTOR-2", 65025>>,
    <<"VS2", 65025>>, <<"VARIATION SELECTOR-3", 65026>>, <<"VS3", 65026>>,
    <<"VARIATION SELECTOR-4", 65027>>, <<"VS4", 65027>>, <<"VARIATION SELECTOR-5", 65028>>,
    <<"VS5", 65028>>, <<"VARIATION SELECTOR-6", 65029>>, <<"VS6", 65029>>,
    <<"VARIATION SELECTOR-7", 65030>>, <<"VS7", 65030>>, <<"VARIATION SELECTOR-8", 65031>>,
    <<"VS8", 65031>>, <<"VARIATION SELECTOR-9", 65032>>, <<"VS9", 65032>>,
    <<"VARIATION SELECTOR-10", 65033>>, <<"VS10", 65033>>, <<"VARIATION SELECTOR-11", 65034>>,
    <<"VS11", 65034>>, <<"VARIATION SELECTOR-12", 65035>>, <<"VS12", 65035>>,
    <<"VARIATION SELECTOR-13", 65036>>, <<"VS13", 65036>>, <<"VARIATION SELECTOR-14", 65037>>,
    <<"VS14", 65037>>, <<"VARIATION SELECTOR-15", 65038>>, <<"VS15", 65038>>,
    <<"VARIATION SELECTOR-16", 65039>>, <<"VS16", 65039>>,
    <<"PRESENTATION FORM FOR VERTICAL COMMA", 65040>>,
    <<"PRESENTATION FORM FOR VERTICAL IDEOGRAPHIC COMMA", 65041>>,
    <<"PRESENTATION FORM FOR VERTICAL IDEOGRAPHIC FULL STOP", 65042>>,
    <<"PRESENTATION FORM FOR VERTICAL COLON", 65043>>,
    <<"PRESENTATION FORM FOR VERTICAL SEMICOLON", 65044>>,
    <<"PRESENTATION FORM FOR VERTICAL EXCLAMATION MARK", 65045>>,
    <<"PRESENTATION FORM FOR VERTICAL QUESTION MARK", 65046>>,
    <<"PRESENTATION FORM FOR VERTICAL LEFT WHITE LENTICULAR BRACKET", 65047>>,
    <<"PRESENTATION FORM FOR VERTICAL RIGHT WHITE LENTICULAR BRACKET", 65048>>,
    <<"PRESENTATION FORM FOR VERTICAL RIGHT WHITE LENTICULAR BRAKCET", 65048>>,
    <<"PRESENTATION FORM FOR VERTICAL HORIZONTAL ELLIPSIS", 65049>>,
    <<"COMBINING LIGATURE LEFT HALF", 65056>>, <<"COMBINING LIGATURE RIGHT HALF", 65057>>,
    <<"COMBINING DOUBLE TILDE LEFT HALF", 65058>>, <<"COMBINING DOUBLE TILDE RIGHT HALF", 65059>>,
    <<"COMBINING MACRON LEFT HALF", 65060>>, <<"COMBINING MACRON RIGHT HALF", 65061>>,
    <<"COMBINING CONJOINING MACRON", 65062>>, <<"COMBINING LIGATURE LEFT HALF BELOW", 65063>>,
    <<"COMBINING LIGATURE RIGHT HALF BELOW", 65064>>, <<"COMBINING TILDE LEFT HALF BELOW", 65065>>,
    <<"COMBINING TILDE RIGHT HALF BELOW", 65066>>, <<"COMBINING MACRON LEFT HALF BELOW", 65067>>,
    <<"COMBINING MACRON RIGHT HALF BELOW", 65068>>, <<"COMBINING CONJOINING MACRON BELOW", 65069>>,
    <<"COMBINING CYRILLIC TITLO LEFT HALF", 65070>>, <<"COMBINING CYRILLIC TITLO RIGHT HALF", 65071>>,
    <<"PRESENTATION FORM FOR VERTICAL TWO DOT LEADER", 65072>>,
    <<"PRESENTATION FORM FOR VERTICAL EM DASH", 65073>>,
    <<"PRESENTATION FORM FOR VERTICAL EN DASH", 65074>>,
    <<"PRESENTATION FORM FOR VERTICAL LOW LINE", 65075>>,
    <<"PRESENTATION FORM FOR VERTICAL WAVY LOW LINE", 65076>>,
    <<"PRESENTATION FORM FOR VERTICAL LEFT PARENTHESIS", 65077>>,
    <<"PRESENTATION FORM FOR VERTICAL RIGHT PARENTHESIS", 65078>>,
    <<"PRESENTATION FORM FOR VERTICAL LEFT CURLY BRACKET", 65079>>,
    <<"PRESENTATION FORM FOR VERTICAL RIGHT CURLY BRACKET", 65080>>,
    <<"PRESENTATION FORM FOR VERTICAL LEFT TORTOISE SHELL BRACKET", 65081>>,
    <<"PRESENTATION FORM FOR VERTICAL RIGHT TORTOISE SHELL BRACKET", 65082>>,
    <<"PRESENTATION FORM FOR VERTICAL LEFT BLACK LENTICULAR BRACKET", 65083>>,
    <<"PRESENTATION FORM FOR VERTICAL RIGHT BLACK LENTICULAR BRACKET", 65084>>,
    <<"PRESENTATION FORM FOR VERTICAL LEFT DOUBLE ANGLE BRACKET", 65085>>,
    <<"PRESENTATION FORM FOR VERTICAL RIGHT DOUBLE ANGLE BRACKET", 65086>>,
    <<"PRESENTATION FORM FOR VERTICAL LEFT ANGLE BRACKET", 65087>>,
    <<"PRESENTATION FORM FOR VERTICAL RIGHT ANGLE BRACKET", 65088>>,
    <<"PRESENTATION FORM FOR VERTICAL LEFT CORNER BRACKET", 65089>>,
    <<"PRESENTATION FORM FOR VERTICAL RIGHT CORNER BRACKET", 65090>>,
    <<"PRESENTATION FORM FOR VERTICAL LEFT WHITE CORNER BRACKET", 65091>>,
    <<"PRESENTATION FORM FOR VERTICAL RIGHT WHITE CORNER BRACKET", 65092>>, <<"SESAME DOT", 65093>>,
    <<"WHITE SESAME DOT", 65094>>, <<"PRESENTATION FORM FOR VERTICAL LEFT SQUARE BRACKET", 65095>>,
    <<"PRESENTATION FORM FOR VERTICAL RIGHT SQUARE BRACKET", 65096>>, <<"DASHED OVERLINE", 65097>>,
    <<"CENTRELINE OVERLINE", 65098>>, <<"WAVY OVERLINE", 65099>>, <<"DOUBLE WAVY OVERLINE", 65100>>,
    <<"DASHED LOW LINE", 65101>>, <<"CENTRELINE LOW LINE", 65102>>, <<"WAVY LOW LINE", 65103>>,
    <<"SMALL COMMA", 65104>>, <<"SMALL IDEOGRAPHIC COMMA", 65105>>, <<"SMALL FULL STOP", 65106>>,
    <<"SMALL SEMICOLON", 65108>>, <<"SMALL COLON", 65109>>, <<"SMALL QUESTION MARK", 65110>>,
    <<"SMALL EXCLAMATION MARK", 65111>>, <<"SMALL EM DASH", 65112>>,
    <<"SMALL LEFT PARENTHESIS", 65113>>, <<"SMALL RIGHT PARENTHESIS", 65114>>,
    <<"SMALL LEFT CURLY BRACKET", 65115>>, <<"SMALL RIGHT CURLY BRACKET", 65116>>,
    <<"SMALL LEFT TORTOISE SHELL BRACKET", 65117>>, <<"SMALL RIGHT TORTOISE SHELL BRACKET", 65118>>,
    <<"SMALL NUMBER SIGN", 65119>>, <<"SMALL AMPERSAND", 65120>>, <<"SMALL ASTERISK", 65121>>,
    <<"SMALL PLUS SIGN", 65122>>, <<"SMALL HYPHEN-MINUS", 65123>>, <<"SMALL LESS-THAN SIGN", 65124>>,
    <<"SMALL GREATER-THAN SIGN", 65125>>, <<"SMALL EQUALS SIGN", 65126>>,
    <<"SMALL REVERSE SOLIDUS", 65128>>, <<"SMALL DOLLAR SIGN", 65129>>,
    <<"SMALL PERCENT SIGN", 65130>>, <<"SMALL COMMERCIAL AT", 65131>>,
    <<"ARABIC FATHATAN ISOLATED FORM", 65136>>, <<"ARABIC TATWEEL WITH FATHATAN ABOVE", 65137>>,
    <<"ARABIC DAMMATAN ISOLATED FORM", 65138>>, <<"ARABIC TAIL FRAGMENT", 65139>>,
    <<"ARABIC KASRATAN ISOLATED FORM", 65140>>, <<"ARABIC FATHA ISOLATED FORM", 65142>>,
    <<"ARABIC FATHA MEDIAL FORM", 65143>>, <<"ARABIC DAMMA ISOLATED FORM", 65144>>,
    <<"ARABIC DAMMA MEDIAL FORM", 65145>>, <<"ARABIC KASRA ISOLATED FORM", 65146>>,
    <<"ARABIC KASRA MEDIAL FORM", 65147>>, <<"ARABIC SHADDA ISOLATED FORM", 65148>>,
    <<"ARABIC SHADDA MEDIAL FORM", 65149>>, <<"ARABIC SUKUN ISOLATED FORM", 65150>>,
    <<"ARABIC SUKUN MEDIAL FORM", 65151>>, <<"ARABIC LETTER HAMZA ISOLATED FORM", 65152>>,
    <<"ARABIC LETTER ALEF WITH MADDA ABOVE ISOLATED FORM", 65153>>,
    <<"ARABIC LETTER ALEF WITH MADDA ABOVE FINAL FORM", 65154>>,
    <<"ARABIC LETTER ALEF WITH HAMZA ABOVE ISOLATED FORM", 65155>>,
    <<"ARABIC LETTER ALEF WITH HAMZA ABOVE FINAL FORM", 65156>>,
    <<"ARABIC LETTER WAW WITH HAMZA ABOVE ISOLATED FORM", 65157>>,
    <<"ARABIC LETTER WAW WITH HAMZA ABOVE FINAL FORM", 65158>>,
    <<"ARABIC LETTER ALEF WITH HAMZA BELOW ISOLATED FORM", 65159>>,
    <<"ARABIC LETTER ALEF WITH HAMZA BELOW FINAL FORM", 65160>>,
    <<"ARABIC LETTER YEH WITH HAMZA ABOVE ISOLATED FORM", 65161>>,
    <<"ARABIC LETTER YEH WITH HAMZA ABOVE FINAL FORM", 65162>>,
    <<"ARABIC LETTER YEH WITH HAMZA ABOVE INITIAL FORM", 65163>>,
    <<"ARABIC LETTER YEH WITH HAMZA ABOVE MEDIAL FORM", 65164>>,
    <<"ARABIC LETTER ALEF ISOLATED FORM", 65165>>, <<"ARABIC LETTER ALEF FINAL FORM", 65166>>,
    <<"ARABIC LETTER BEH ISOLATED FORM", 65167>>, <<"ARABIC LETTER BEH FINAL FORM", 65168>>,
    <<"ARABIC LETTER BEH INITIAL FORM", 65169>>, <<"ARABIC LETTER BEH MEDIAL FORM", 65170>>,
    <<"ARABIC LETTER TEH MARBUTA ISOLATED FORM", 65171>>,
    <<"ARABIC LETTER TEH MARBUTA FINAL FORM", 65172>>, <<"ARABIC LETTER TEH ISOLATED FORM", 65173>>,
    <<"ARABIC LETTER TEH FINAL FORM", 65174>>, <<"ARABIC LETTER TEH INITIAL FORM", 65175>>,
    <<"ARABIC LETTER TEH MEDIAL FORM", 65176>>, <<"ARABIC LETTER THEH ISOLATED FORM", 65177>>,
    <<"ARABIC LETTER THEH FINAL FORM", 65178>>, <<"ARABIC LETTER THEH INITIAL FORM", 65179>>,
    <<"ARABIC LETTER THEH MEDIAL FORM", 65180>>, <<"ARABIC LETTER JEEM ISOLATED FORM", 65181>>,
    <<"ARABIC LETTER JEEM FINAL FORM", 65182>>, <<"ARABIC LETTER JEEM INITIAL FORM", 65183>>,
    <<"ARABIC LETTER JEEM MEDIAL FORM", 65184>>, <<"ARABIC LETTER HAH ISOLATED FORM", 65185>>,
    <<"ARABIC LETTER HAH FINAL FORM", 65186>>, <<"ARABIC LETTER HAH INITIAL FORM", 65187>>,
    <<"ARABIC LETTER HAH MEDIAL FORM", 65188>>, <<"ARABIC LETTER KHAH ISOLATED FORM", 65189>>,
    <<"ARABIC LETTER KHAH FINAL FORM", 65190>>, <<"ARABIC LETTER KHAH INITIAL FORM", 65191>>,
    <<"ARABIC LETTER KHAH MEDIAL FORM", 65192>>, <<"ARABIC LETTER DAL ISOLATED FORM", 65193>>,
    <<"ARABIC LETTER DAL FINAL FORM", 65194>>, <<"ARABIC LETTER THAL ISOLATED FORM", 65195>>,
    <<"ARABIC LETTER THAL FINAL FORM", 65196>>, <<"ARABIC LETTER REH ISOLATED FORM", 65197>>,
    <<"ARABIC LETTER REH FINAL FORM", 65198>>, <<"ARABIC LETTER ZAIN ISOLATED FORM", 65199>>,
    <<"ARABIC LETTER ZAIN FINAL FORM", 65200>>, <<"ARABIC LETTER SEEN ISOLATED FORM", 65201>>,
    <<"ARABIC LETTER SEEN FINAL FORM", 65202>>, <<"ARABIC LETTER SEEN INITIAL FORM", 65203>>,
    <<"ARABIC LETTER SEEN MEDIAL FORM", 65204>>, <<"ARABIC LETTER SHEEN ISOLATED FORM", 65205>>,
    <<"ARABIC LETTER SHEEN FINAL FORM", 65206>>, <<"ARABIC LETTER SHEEN INITIAL FORM", 65207>>,
    <<"ARABIC LETTER SHEEN MEDIAL FORM", 65208>>, <<"ARABIC LETTER SAD ISOLATED FORM", 65209>>,
    <<"ARABIC LETTER SAD FINAL FORM", 65210>>, <<"ARABIC LETTER SAD INITIAL FORM", 65211>>,
    <<"ARABIC LETTER SAD MEDIAL FORM", 65212>>, <<"ARABIC LETTER DAD ISOLATED FORM", 65213>>,
    <<"ARABIC LETTER DAD FINAL FORM", 65214>>, <<"ARABIC LETTER DAD INITIAL FORM", 65215>>,
    <<"ARABIC LETTER DAD MEDIAL FORM", 65216>>, <<"ARABIC LETTER TAH ISOLATED FORM", 65217>>,
    <<"ARABIC LETTER TAH FINAL FORM", 65218>>, <<"ARABIC LETTER TAH INITIAL FORM", 65219>>,
    <<"ARABIC LETTER TAH MEDIAL FORM", 65220>>, <<"ARABIC LETTER ZAH ISOLATED FORM", 65221>>,
    <<"ARABIC LETTER ZAH FINAL FORM", 65222>>, <<"ARABIC LETTER ZAH INITIAL FORM", 65223>>,
    <<"ARABIC LETTER ZAH MEDIAL FORM", 65224>>, <<"ARABIC LETTER AIN ISOLATED FORM", 65225>>,
    <<"ARABIC LETTER AIN FINAL FORM", 65226>>, <<"ARABIC LETTER AIN INITIAL FORM", 65227>>,
    <<"ARABIC LETTER AIN MEDIAL FORM", 65228>>, <<"ARABIC LETTER GHAIN ISOLATED FORM", 65229>>,
    <<"ARABIC LETTER GHAIN FINAL FORM", 65230>>, <<"ARABIC LETTER GHAIN INITIAL FORM", 65231>>,
    <<"ARABIC LETTER GHAIN MEDIAL FORM", 65232>>, <<"ARABIC LETTER FEH ISOLATED FORM", 65233>>,
    <<"ARABIC LETTER FEH FINAL FORM", 65234>>, <<"ARABIC LETTER FEH INITIAL FORM", 65235>>,
    <<"ARABIC LETTER FEH MEDIAL FORM", 65236>>, <<"ARABIC LETTER QAF ISOLATED FORM", 65237>>,
    <<"ARABIC LETTER QAF FINAL FORM", 65238>>, <<"ARABIC LETTER QAF INITIAL FORM", 65239>>,
    <<"ARABIC LETTER QAF MEDIAL FORM", 65240>>, <<"ARABIC LETTER KAF ISOLATED FORM", 65241>>,
    <<"ARABIC LETTER KAF FINAL FORM", 65242>>, <<"ARABIC LETTER KAF INITIAL FORM", 65243>>,
    <<"ARABIC LETTER KAF MEDIAL FORM", 65244>>, <<"ARABIC LETTER LAM ISOLATED FORM", 65245>>,
    <<"ARABIC LETTER LAM FINAL FORM", 65246>>, <<"ARABIC LETTER LAM INITIAL FORM", 65247>>,
    <<"ARABIC LETTER LAM MEDIAL FORM", 65248>>, <<"ARABIC LETTER MEEM ISOLATED FORM", 65249>>,
    <<"ARABIC LETTER MEEM FINAL FORM", 65250>>, <<"ARABIC LETTER MEEM INITIAL FORM", 65251>>,
    <<"ARABIC LETTER MEEM MEDIAL FORM", 65252>>, <<"ARABIC LETTER NOON ISOLATED FORM", 65253>>,
    <<"ARABIC LETTER NOON FINAL FORM", 65254>>, <<"ARABIC LETTER NOON INITIAL FORM", 65255>>,
    <<"ARABIC LETTER NOON MEDIAL FORM", 65256>>, <<"ARABIC LETTER HEH ISOLATED FORM", 65257>>,
    <<"ARABIC LETTER HEH FINAL FORM", 65258>>, <<"ARABIC LETTER HEH INITIAL FORM", 65259>>,
    <<"ARABIC LETTER HEH MEDIAL FORM", 65260>>, <<"ARABIC LETTER WAW ISOLATED FORM", 65261>>,
    <<"ARABIC LETTER WAW FINAL FORM", 65262>>, <<"ARABIC LETTER ALEF MAKSURA ISOLATED FORM", 65263>>,
    <<"ARABIC LETTER ALEF MAKSURA FINAL FORM", 65264>>, <<"ARABIC LETTER YEH ISOLATED FORM", 65265>>,
    <<"ARABIC LETTER YEH FINAL FORM", 65266>>, <<"ARABIC LETTER YEH INITIAL FORM", 65267>>,
    <<"ARABIC LETTER YEH MEDIAL FORM", 65268>>,
    <<"ARABIC LIGATURE LAM WITH ALEF WITH MADDA ABOVE ISOLATED FORM", 65269>>,
    <<"ARABIC LIGATURE LAM WITH ALEF WITH MADDA ABOVE FINAL FORM", 65270>>,
    <<"ARABIC LIGATURE LAM WITH ALEF WITH HAMZA ABOVE ISOLATED FORM", 65271>>,
    <<"ARABIC LIGATURE LAM WITH ALEF WITH HAMZA ABOVE FINAL FORM", 65272>>,
    <<"ARABIC LIGATURE LAM WITH ALEF WITH HAMZA BELOW ISOLATED FORM", 65273>>,
    <<"ARABIC LIGATURE LAM WITH ALEF WITH HAMZA BELOW FINAL FORM", 65274>>,
    <<"ARABIC LIGATURE LAM WITH ALEF ISOLATED FORM", 65275>>,
    <<"ARABIC LIGATURE LAM WITH ALEF FINAL FORM", 65276>>, <<"BOM", 65279>>,
    <<"BYTE ORDER MARK", 65279>>, <<"ZERO WIDTH NO-BREAK SPACE", 65279>>, <<"ZWNBSP", 65279>>,
    <<"FULLWIDTH EXCLAMATION MARK", 65281>>, <<"FULLWIDTH QUOTATION MARK", 65282>>,
    <<"FULLWIDTH NUMBER SIGN", 65283>>, <<"FULLWIDTH DOLLAR SIGN", 65284>>,
    <<"FULLWIDTH PERCENT SIGN", 65285>>, <<"FULLWIDTH AMPERSAND", 65286>>,
    <<"FULLWIDTH APOSTROPHE", 65287>>, <<"FULLWIDTH LEFT PARENTHESIS", 65288>>,
    <<"FULLWIDTH RIGHT PARENTHESIS", 65289>>, <<"FULLWIDTH ASTERISK", 65290>>,
    <<"FULLWIDTH PLUS SIGN", 65291>>, <<"FULLWIDTH COMMA", 65292>>,
    <<"FULLWIDTH HYPHEN-MINUS", 65293>>, <<"FULLWIDTH FULL STOP", 65294>>,
    <<"FULLWIDTH SOLIDUS", 65295>>, <<"FULLWIDTH DIGIT ZERO", 65296>>,
    <<"FULLWIDTH DIGIT ONE", 65297>>, <<"FULLWIDTH DIGIT TWO", 65298>>,
    <<"FULLWIDTH DIGIT THREE", 65299>>, <<"FULLWIDTH DIGIT FOUR", 65300>>,
    <<"FULLWIDTH DIGIT FIVE", 65301>>, <<"FULLWIDTH DIGIT SIX", 65302>>,
    <<"FULLWIDTH DIGIT SEVEN", 65303>>, <<"FULLWIDTH DIGIT EIGHT", 65304>>,
    <<"FULLWIDTH DIGIT NINE", 65305>>, <<"FULLWIDTH COLON", 65306>>, <<"FULLWIDTH SEMICOLON", 65307>>,
    <<"FULLWIDTH LESS-THAN SIGN", 65308>>, <<"FULLWIDTH EQUALS SIGN", 65309>>,
    <<"FULLWIDTH GREATER-THAN SIGN", 65310>>, <<"FULLWIDTH QUESTION MARK", 65311>>,
    <<"FULLWIDTH COMMERCIAL AT", 65312>>, <<"FULLWIDTH LATIN CAPITAL LETTER A", 65313>>,
    <<"FULLWIDTH LATIN CAPITAL LETTER B", 65314>>, <<"FULLWIDTH LATIN CAPITAL LETTER C", 65315>>,
    <<"FULLWIDTH LATIN CAPITAL LETTER D", 65316>>, <<"FULLWIDTH LATIN CAPITAL LETTER E", 65317>>,
    <<"FULLWIDTH LATIN CAPITAL LETTER F", 65318>>, <<"FULLWIDTH LATIN CAPITAL LETTER G", 65319>>,
    <<"FULLWIDTH LATIN CAPITAL LETTER H", 65320>>, <<"FULLWIDTH LATIN CAPITAL LETTER I", 65321>>,
    <<"FULLWIDTH LATIN CAPITAL LETTER J", 65322>>, <<"FULLWIDTH LATIN CAPITAL LETTER K", 65323>>,
    <<"FULLWIDTH LATIN CAPITAL LETTER L", 65324>>, <<"FULLWIDTH LATIN CAPITAL LETTER M", 65325>>,
    <<"FULLWIDTH LATIN CAPITAL LETTER N", 65326>>, <<"FULLWIDTH LATIN CAPITAL LETTER O", 65327>>,
    <<"FULLWIDTH LATIN CAPITAL LETTER P", 65328>>, <<"FULLWIDTH LATIN CAPITAL LETTER Q", 65329>>,
    <<"FULLWIDTH LATIN CAPITAL LETTER R", 65330>>, <<"FULLWIDTH LATIN CAPITAL LETTER S", 65331>>,
    <<"FULLWIDTH LATIN CAPITAL LETTER T", 65332>>, <<"FULLWIDTH LATIN CAPITAL LETTER U", 65333>>,
    <<"FULLWIDTH LATIN CAPITAL LETTER V", 65334>>, <<"FULLWIDTH LATIN CAPITAL LETTER W", 65335>>,
    <<"FULLWIDTH LATIN CAPITAL LETTER X", 65336>>, <<"FULLWIDTH LATIN CAPITAL LETTER Y", 65337>>,
    <<"FULLWIDTH LATIN CAPITAL LETTER Z", 65338>>, <<"FULLWIDTH LEFT SQUARE BRACKET", 65339>>,
    <<"FULLWIDTH REVERSE SOLIDUS", 65340>>, <<"FULLWIDTH RIGHT SQUARE BRACKET", 65341>>,
    <<"FULLWIDTH CIRCUMFLEX ACCENT", 65342>>, <<"FULLWIDTH LOW LINE", 65343>>,
    <<"FULLWIDTH GRAVE ACCENT", 65344>>, <<"FULLWIDTH LATIN SMALL LETTER A", 65345>>,
    <<"FULLWIDTH LATIN SMALL LETTER B", 65346>>, <<"FULLWIDTH LATIN SMALL LETTER C", 65347>>,
    <<"FULLWIDTH LATIN SMALL LETTER D", 65348>>, <<"FULLWIDTH LATIN SMALL LETTER E", 65349>>,
    <<"FULLWIDTH LATIN SMALL LETTER F", 65350>>, <<"FULLWIDTH LATIN SMALL LETTER G", 65351>>,
    <<"FULLWIDTH LATIN SMALL LETTER H", 65352>>, <<"FULLWIDTH LATIN SMALL LETTER I", 65353>>,
    <<"FULLWIDTH LATIN SMALL LETTER J", 65354>>, <<"FULLWIDTH LATIN SMALL LETTER K", 65355>>,
    <<"FULLWIDTH LATIN SMALL LETTER L", 65356>>, <<"FULLWIDTH LATIN SMALL LETTER M", 65357>>,
    <<"FULLWIDTH LATIN SMALL LETTER N", 65358>>, <<"FULLWIDTH LATIN SMALL LETTER O", 65359>>,
    <<"FULLWIDTH LATIN SMALL LETTER P", 65360>>, <<"FULLWIDTH LATIN SMALL LETTER Q", 65361>>,
    <<"FULLWIDTH LATIN SMALL LETTER R", 65362>>, <<"FULLWIDTH LATIN SMALL LETTER S", 65363>>,
    <<"FULLWIDTH LATIN SMALL LETTER T", 65364>>, <<"FULLWIDTH LATIN SMALL LETTER U", 65365>>,
    <<"FULLWIDTH LATIN SMALL LETTER V", 65366>>, <<"FULLWIDTH LATIN SMALL LETTER W", 65367>>,
    <<"FULLWIDTH LATIN SMALL LETTER X", 65368>>, <<"FULLWIDTH LATIN SMALL LETTER Y", 65369>>,
    <<"FULLWIDTH LATIN SMALL LETTER Z", 65370>>, <<"FULLWIDTH LEFT CURLY BRACKET", 65371>>,
    <<"FULLWIDTH VERTICAL LINE", 65372>>, <<"FULLWIDTH RIGHT CURLY BRACKET", 65373>>,
    <<"FULLWIDTH TILDE", 65374>>, <<"FULLWIDTH LEFT WHITE PARENTHESIS", 65375>>,
    <<"FULLWIDTH RIGHT WHITE PARENTHESIS", 65376>>, <<"HALFWIDTH IDEOGRAPHIC FULL STOP", 65377>>,
    <<"HALFWIDTH LEFT CORNER BRACKET", 65378>>, <<"HALFWIDTH RIGHT CORNER BRACKET", 65379>>,
    <<"HALFWIDTH IDEOGRAPHIC COMMA", 65380>>, <<"HALFWIDTH KATAKANA MIDDLE DOT", 65381>>,
    <<"HALFWIDTH KATAKANA LETTER WO", 65382>>, <<"HALFWIDTH KATAKANA LETTER SMALL A", 65383>>,
    <<"HALFWIDTH KATAKANA LETTER SMALL I", 65384>>, <<"HALFWIDTH KATAKANA LETTER SMALL U", 65385>>,
    <<"HALFWIDTH KATAKANA LETTER SMALL E", 65386>>, <<"HALFWIDTH KATAKANA LETTER SMALL O", 65387>>,
    <<"HALFWIDTH KATAKANA LETTER SMALL YA", 65388>>, <<"HALFWIDTH KATAKANA LETTER SMALL YU", 65389>>,
    <<"HALFWIDTH KATAKANA LETTER SMALL YO", 65390>>, <<"HALFWIDTH KATAKANA LETTER SMALL TU", 65391>>,
    <<"HALFWIDTH KATAKANA-HIRAGANA PROLONGED SOUND MARK", 65392>>,
    <<"HALFWIDTH KATAKANA LETTER A", 65393>>, <<"HALFWIDTH KATAKANA LETTER I", 65394>>,
    <<"HALFWIDTH KATAKANA LETTER U", 65395>>, <<"HALFWIDTH KATAKANA LETTER E", 65396>>,
    <<"HALFWIDTH KATAKANA LETTER O", 65397>>, <<"HALFWIDTH KATAKANA LETTER KA", 65398>>,
    <<"HALFWIDTH KATAKANA LETTER KI", 65399>>, <<"HALFWIDTH KATAKANA LETTER KU", 65400>>,
    <<"HALFWIDTH KATAKANA LETTER KE", 65401>>, <<"HALFWIDTH KATAKANA LETTER KO", 65402>>,
    <<"HALFWIDTH KATAKANA LETTER SA", 65403>>, <<"HALFWIDTH KATAKANA LETTER SI", 65404>>,
    <<"HALFWIDTH KATAKANA LETTER SU", 65405>>, <<"HALFWIDTH KATAKANA LETTER SE", 65406>>,
    <<"HALFWIDTH KATAKANA LETTER SO", 65407>>, <<"HALFWIDTH KATAKANA LETTER TA", 65408>>,
    <<"HALFWIDTH KATAKANA LETTER TI", 65409>>, <<"HALFWIDTH KATAKANA LETTER TU", 65410>>,
    <<"HALFWIDTH KATAKANA LETTER TE", 65411>>, <<"HALFWIDTH KATAKANA LETTER TO", 65412>>,
    <<"HALFWIDTH KATAKANA LETTER NA", 65413>>, <<"HALFWIDTH KATAKANA LETTER NI", 65414>>,
    <<"HALFWIDTH KATAKANA LETTER NU", 65415>>, <<"HALFWIDTH KATAKANA LETTER NE", 65416>>,
    <<"HALFWIDTH KATAKANA LETTER NO", 65417>>, <<"HALFWIDTH KATAKANA LETTER HA", 65418>>,
    <<"HALFWIDTH KATAKANA LETTER HI", 65419>>, <<"HALFWIDTH KATAKANA LETTER HU", 65420>>,
    <<"HALFWIDTH KATAKANA LETTER HE", 65421>>, <<"HALFWIDTH KATAKANA LETTER HO", 65422>>,
    <<"HALFWIDTH KATAKANA LETTER MA", 65423>>, <<"HALFWIDTH KATAKANA LETTER MI", 65424>>,
    <<"HALFWIDTH KATAKANA LETTER MU", 65425>>, <<"HALFWIDTH KATAKANA LETTER ME", 65426>>,
    <<"HALFWIDTH KATAKANA LETTER MO", 65427>>, <<"HALFWIDTH KATAKANA LETTER YA", 65428>>,
    <<"HALFWIDTH KATAKANA LETTER YU", 65429>>, <<"HALFWIDTH KATAKANA LETTER YO", 65430>>,
    <<"HALFWIDTH KATAKANA LETTER RA", 65431>>, <<"HALFWIDTH KATAKANA LETTER RI", 65432>>,
    <<"HALFWIDTH KATAKANA LETTER RU", 65433>>, <<"HALFWIDTH KATAKANA LETTER RE", 65434>>,
    <<"HALFWIDTH KATAKANA LETTER RO", 65435>>, <<"HALFWIDTH KATAKANA LETTER WA", 65436>>,
    <<"HALFWIDTH KATAKANA LETTER N", 65437>>, <<"HALFWIDTH KATAKANA VOICED SOUND MARK", 65438>>,
    <<"HALFWIDTH KATAKANA SEMI-VOICED SOUND MARK", 65439>>, <<"HALFWIDTH HANGUL FILLER", 65440>>,
    <<"HALFWIDTH HANGUL LETTER KIYEOK", 65441>>, <<"HALFWIDTH HANGUL LETTER SSANGKIYEOK", 65442>>,
    <<"HALFWIDTH HANGUL LETTER KIYEOK-SIOS", 65443>>, <<"HALFWIDTH HANGUL LETTER NIEUN", 65444>>,
    <<"HALFWIDTH HANGUL LETTER NIEUN-CIEUC", 65445>>, <<"HALFWIDTH HANGUL LETTER NIEUN-HIEUH", 65446>>,
    <<"HALFWIDTH HANGUL LETTER TIKEUT", 65447>>, <<"HALFWIDTH HANGUL LETTER SSANGTIKEUT", 65448>>,
    <<"HALFWIDTH HANGUL LETTER RIEUL", 65449>>, <<"HALFWIDTH HANGUL LETTER RIEUL-KIYEOK", 65450>>,
    <<"HALFWIDTH HANGUL LETTER RIEUL-MIEUM", 65451>>, <<"HALFWIDTH HANGUL LETTER RIEUL-PIEUP", 65452>>,
    <<"HALFWIDTH HANGUL LETTER RIEUL-SIOS", 65453>>,
    <<"HALFWIDTH HANGUL LETTER RIEUL-THIEUTH", 65454>>,
    <<"HALFWIDTH HANGUL LETTER RIEUL-PHIEUPH", 65455>>,
    <<"HALFWIDTH HANGUL LETTER RIEUL-HIEUH", 65456>>, <<"HALFWIDTH HANGUL LETTER MIEUM", 65457>>,
    <<"HALFWIDTH HANGUL LETTER PIEUP", 65458>>, <<"HALFWIDTH HANGUL LETTER SSANGPIEUP", 65459>>,
    <<"HALFWIDTH HANGUL LETTER PIEUP-SIOS", 65460>>, <<"HALFWIDTH HANGUL LETTER SIOS", 65461>>,
    <<"HALFWIDTH HANGUL LETTER SSANGSIOS", 65462>>, <<"HALFWIDTH HANGUL LETTER IEUNG", 65463>>,
    <<"HALFWIDTH HANGUL LETTER CIEUC", 65464>>, <<"HALFWIDTH HANGUL LETTER SSANGCIEUC", 65465>>,
    <<"HALFWIDTH HANGUL LETTER CHIEUCH", 65466>>, <<"HALFWIDTH HANGUL LETTER KHIEUKH", 65467>>,
    <<"HALFWIDTH HANGUL LETTER THIEUTH", 65468>>, <<"HALFWIDTH HANGUL LETTER PHIEUPH", 65469>>,
    <<"HALFWIDTH HANGUL LETTER HIEUH", 65470>>, <<"HALFWIDTH HANGUL LETTER A", 65474>>,
    <<"HALFWIDTH HANGUL LETTER AE", 65475>>, <<"HALFWIDTH HANGUL LETTER YA", 65476>>,
    <<"HALFWIDTH HANGUL LETTER YAE", 65477>>, <<"HALFWIDTH HANGUL LETTER EO", 65478>>,
    <<"HALFWIDTH HANGUL LETTER E", 65479>>, <<"HALFWIDTH HANGUL LETTER YEO", 65482>>,
    <<"HALFWIDTH HANGUL LETTER YE", 65483>>, <<"HALFWIDTH HANGUL LETTER O", 65484>>,
    <<"HALFWIDTH HANGUL LETTER WA", 65485>>, <<"HALFWIDTH HANGUL LETTER WAE", 65486>>,
    <<"HALFWIDTH HANGUL LETTER OE", 65487>>, <<"HALFWIDTH HANGUL LETTER YO", 65490>>,
    <<"HALFWIDTH HANGUL LETTER U", 65491>>, <<"HALFWIDTH HANGUL LETTER WEO", 65492>>,
    <<"HALFWIDTH HANGUL LETTER WE", 65493>>, <<"HALFWIDTH HANGUL LETTER WI", 65494>>,
    <<"HALFWIDTH HANGUL LETTER YU", 65495>>, <<"HALFWIDTH HANGUL LETTER EU", 65498>>,
    <<"HALFWIDTH HANGUL LETTER YI", 65499>>, <<"HALFWIDTH HANGUL LETTER I", 65500>>,
    <<"FULLWIDTH CENT SIGN", 65504>>, <<"FULLWIDTH POUND SIGN", 65505>>,
    <<"FULLWIDTH NOT SIGN", 65506>>, <<"FULLWIDTH MACRON", 65507>>, <<"FULLWIDTH BROKEN BAR", 65508>>,
    <<"FULLWIDTH YEN SIGN", 65509>>, <<"FULLWIDTH WON SIGN", 65510>>,
    <<"HALFWIDTH FORMS LIGHT VERTICAL", 65512>>, <<"HALFWIDTH LEFTWARDS ARROW", 65513>>,
    <<"HALFWIDTH UPWARDS ARROW", 65514>>, <<"HALFWIDTH RIGHTWARDS ARROW", 65515>>,
    <<"HALFWIDTH DOWNWARDS ARROW", 65516>>, <<"HALFWIDTH BLACK SQUARE", 65517>>,
    <<"HALFWIDTH WHITE CIRCLE", 65518>>, <<"INTERLINEAR ANNOTATION ANCHOR", 65529>>,
    <<"INTERLINEAR ANNOTATION SEPARATOR", 65530>>, <<"INTERLINEAR ANNOTATION TERMINATOR", 65531>>,
    <<"OBJECT REPLACEMENT CHARACTER", 65532>>, <<"REPLACEMENT CHARACTER", 65533>>,
    <<"LINEAR B SYLLABLE B008 A", 65536>>, <<"LINEAR B SYLLABLE B038 E", 65537>>,
    <<"LINEAR B SYLLABLE B028 I", 65538>>, <<"LINEAR B SYLLABLE B061 O", 65539>>,
    <<"LINEAR B SYLLABLE B010 U", 65540>>, <<"LINEAR B SYLLABLE B001 DA", 65541>>,
    <<"LINEAR B SYLLABLE B045 DE", 65542>>, <<"LINEAR B SYLLABLE B007 DI", 65543>>,
    <<"LINEAR B SYLLABLE B014 DO", 65544>>, <<"LINEAR B SYLLABLE B051 DU", 65545>>,
    <<"LINEAR B SYLLABLE B057 JA", 65546>>, <<"LINEAR B SYLLABLE B046 JE", 65547>>,
    <<"LINEAR B SYLLABLE B036 JO", 65549>>, <<"LINEAR B SYLLABLE B065 JU", 65550>>,
    <<"LINEAR B SYLLABLE B077 KA", 65551>>, <<"LINEAR B SYLLABLE B044 KE", 65552>>,
    <<"LINEAR B SYLLABLE B067 KI", 65553>>, <<"LINEAR B SYLLABLE B070 KO", 65554>>,
    <<"LINEAR B SYLLABLE B081 KU", 65555>>, <<"LINEAR B SYLLABLE B080 MA", 65556>>,
    <<"LINEAR B SYLLABLE B013 ME", 65557>>, <<"LINEAR B SYLLABLE B073 MI", 65558>>,
    <<"LINEAR B SYLLABLE B015 MO", 65559>>, <<"LINEAR B SYLLABLE B023 MU", 65560>>,
    <<"LINEAR B SYLLABLE B006 NA", 65561>>, <<"LINEAR B SYLLABLE B024 NE", 65562>>,
    <<"LINEAR B SYLLABLE B030 NI", 65563>>, <<"LINEAR B SYLLABLE B052 NO", 65564>>,
    <<"LINEAR B SYLLABLE B055 NU", 65565>>, <<"LINEAR B SYLLABLE B003 PA", 65566>>,
    <<"LINEAR B SYLLABLE B072 PE", 65567>>, <<"LINEAR B SYLLABLE B039 PI", 65568>>,
    <<"LINEAR B SYLLABLE B011 PO", 65569>>, <<"LINEAR B SYLLABLE B050 PU", 65570>>,
    <<"LINEAR B SYLLABLE B016 QA", 65571>>, <<"LINEAR B SYLLABLE B078 QE", 65572>>,
    <<"LINEAR B SYLLABLE B021 QI", 65573>>, <<"LINEAR B SYLLABLE B032 QO", 65574>>,
    <<"LINEAR B SYLLABLE B060 RA", 65576>>, <<"LINEAR B SYLLABLE B027 RE", 65577>>,
    <<"LINEAR B SYLLABLE B053 RI", 65578>>, <<"LINEAR B SYLLABLE B002 RO", 65579>>,
    <<"LINEAR B SYLLABLE B026 RU", 65580>>, <<"LINEAR B SYLLABLE B031 SA", 65581>>,
    <<"LINEAR B SYLLABLE B009 SE", 65582>>, <<"LINEAR B SYLLABLE B041 SI", 65583>>,
    <<"LINEAR B SYLLABLE B012 SO", 65584>>, <<"LINEAR B SYLLABLE B058 SU", 65585>>,
    <<"LINEAR B SYLLABLE B059 TA", 65586>>, <<"LINEAR B SYLLABLE B004 TE", 65587>>,
    <<"LINEAR B SYLLABLE B037 TI", 65588>>, <<"LINEAR B SYLLABLE B005 TO", 65589>>,
    <<"LINEAR B SYLLABLE B069 TU", 65590>>, <<"LINEAR B SYLLABLE B054 WA", 65591>>,
    <<"LINEAR B SYLLABLE B075 WE", 65592>>, <<"LINEAR B SYLLABLE B040 WI", 65593>>,
    <<"LINEAR B SYLLABLE B042 WO", 65594>>, <<"LINEAR B SYLLABLE B017 ZA", 65596>>,
    <<"LINEAR B SYLLABLE B074 ZE", 65597>>, <<"LINEAR B SYLLABLE B020 ZO", 65599>>,
    <<"LINEAR B SYLLABLE B025 A2", 65600>>, <<"LINEAR B SYLLABLE B043 A3", 65601>>,
    <<"LINEAR B SYLLABLE B085 AU", 65602>>, <<"LINEAR B SYLLABLE B071 DWE", 65603>>,
    <<"LINEAR B SYLLABLE B090 DWO", 65604>>, <<"LINEAR B SYLLABLE B048 NWA", 65605>>,
    <<"LINEAR B SYLLABLE B029 PU2", 65606>>, <<"LINEAR B SYLLABLE B062 PTE", 65607>>,
    <<"LINEAR B SYLLABLE B076 RA2", 65608>>, <<"LINEAR B SYLLABLE B033 RA3", 65609>>,
    <<"LINEAR B SYLLABLE B068 RO2", 65610>>, <<"LINEAR B SYLLABLE B066 TA2", 65611>>,
    <<"LINEAR B SYLLABLE B087 TWE", 65612>>, <<"LINEAR B SYLLABLE B091 TWO", 65613>>,
    <<"LINEAR B SYMBOL B018", 65616>>, <<"LINEAR B SYMBOL B019", 65617>>,
    <<"LINEAR B SYMBOL B022", 65618>>, <<"LINEAR B SYMBOL B034", 65619>>,
    <<"LINEAR B SYMBOL B047", 65620>>, <<"LINEAR B SYMBOL B049", 65621>>,
    <<"LINEAR B SYMBOL B056", 65622>>, <<"LINEAR B SYMBOL B063", 65623>>,
    <<"LINEAR B SYMBOL B064", 65624>>, <<"LINEAR B SYMBOL B079", 65625>>,
    <<"LINEAR B SYMBOL B082", 65626>>, <<"LINEAR B SYMBOL B083", 65627>>,
    <<"LINEAR B SYMBOL B086", 65628>>, <<"LINEAR B SYMBOL B089", 65629>>,
    <<"LINEAR B IDEOGRAM B100 MAN", 65664>>, <<"LINEAR B IDEOGRAM B102 WOMAN", 65665>>,
    <<"LINEAR B IDEOGRAM B104 DEER", 65666>>, <<"LINEAR B IDEOGRAM B105 EQUID", 65667>>,
    <<"LINEAR B IDEOGRAM B105F MARE", 65668>>, <<"LINEAR B IDEOGRAM B105M STALLION", 65669>>,
    <<"LINEAR B IDEOGRAM B106F EWE", 65670>>, <<"LINEAR B IDEOGRAM B106M RAM", 65671>>,
    <<"LINEAR B IDEOGRAM B107F SHE-GOAT", 65672>>, <<"LINEAR B IDEOGRAM B107M HE-GOAT", 65673>>,
    <<"LINEAR B IDEOGRAM B108F SOW", 65674>>, <<"LINEAR B IDEOGRAM B108M BOAR", 65675>>,
    <<"LINEAR B IDEOGRAM B109F COW", 65676>>, <<"LINEAR B IDEOGRAM B109M BULL", 65677>>,
    <<"LINEAR B IDEOGRAM B120 WHEAT", 65678>>, <<"LINEAR B IDEOGRAM B121 BARLEY", 65679>>,
    <<"LINEAR B IDEOGRAM B122 OLIVE", 65680>>, <<"LINEAR B IDEOGRAM B123 SPICE", 65681>>,
    <<"LINEAR B IDEOGRAM B125 CYPERUS", 65682>>, <<"LINEAR B MONOGRAM B127 KAPO", 65683>>,
    <<"LINEAR B MONOGRAM B128 KANAKO", 65684>>, <<"LINEAR B IDEOGRAM B130 OIL", 65685>>,
    <<"LINEAR B IDEOGRAM B131 WINE", 65686>>, <<"LINEAR B IDEOGRAM B132", 65687>>,
    <<"LINEAR B MONOGRAM B133 AREPA", 65688>>, <<"LINEAR B MONOGRAM B135 MERI", 65689>>,
    <<"LINEAR B IDEOGRAM B140 BRONZE", 65690>>, <<"LINEAR B IDEOGRAM B141 GOLD", 65691>>,
    <<"LINEAR B IDEOGRAM B142", 65692>>, <<"LINEAR B IDEOGRAM B145 WOOL", 65693>>,
    <<"LINEAR B IDEOGRAM B146", 65694>>, <<"LINEAR B IDEOGRAM B150", 65695>>,
    <<"LINEAR B IDEOGRAM B151 HORN", 65696>>, <<"LINEAR B IDEOGRAM B152", 65697>>,
    <<"LINEAR B IDEOGRAM B153", 65698>>, <<"LINEAR B IDEOGRAM B154", 65699>>,
    <<"LINEAR B MONOGRAM B156 TURO2", 65700>>, <<"LINEAR B IDEOGRAM B157", 65701>>,
    <<"LINEAR B IDEOGRAM B158", 65702>>, <<"LINEAR B IDEOGRAM B159 CLOTH", 65703>>,
    <<"LINEAR B IDEOGRAM B160", 65704>>, <<"LINEAR B IDEOGRAM B161", 65705>>,
    <<"LINEAR B IDEOGRAM B162 GARMENT", 65706>>, <<"LINEAR B IDEOGRAM B163 ARMOUR", 65707>>,
    <<"LINEAR B IDEOGRAM B164", 65708>>, <<"LINEAR B IDEOGRAM B165", 65709>>,
    <<"LINEAR B IDEOGRAM B166", 65710>>, <<"LINEAR B IDEOGRAM B167", 65711>>,
    <<"LINEAR B IDEOGRAM B168", 65712>>, <<"LINEAR B IDEOGRAM B169", 65713>>,
    <<"LINEAR B IDEOGRAM B170", 65714>>, <<"LINEAR B IDEOGRAM B171", 65715>>,
    <<"LINEAR B IDEOGRAM B172", 65716>>, <<"LINEAR B IDEOGRAM B173 MONTH", 65717>>,
    <<"LINEAR B IDEOGRAM B174", 65718>>, <<"LINEAR B IDEOGRAM B176 TREE", 65719>>,
    <<"LINEAR B IDEOGRAM B177", 65720>>, <<"LINEAR B IDEOGRAM B178", 65721>>,
    <<"LINEAR B IDEOGRAM B179", 65722>>, <<"LINEAR B IDEOGRAM B180", 65723>>,
    <<"LINEAR B IDEOGRAM B181", 65724>>, <<"LINEAR B IDEOGRAM B182", 65725>>,
    <<"LINEAR B IDEOGRAM B183", 65726>>, <<"LINEAR B IDEOGRAM B184", 65727>>,
    <<"LINEAR B IDEOGRAM B185", 65728>>, <<"LINEAR B IDEOGRAM B189", 65729>>,
    <<"LINEAR B IDEOGRAM B190", 65730>>, <<"LINEAR B IDEOGRAM B191 HELMET", 65731>>,
    <<"LINEAR B IDEOGRAM B220 FOOTSTOOL", 65732>>, <<"LINEAR B IDEOGRAM B225 BATHTUB", 65733>>,
    <<"LINEAR B IDEOGRAM B230 SPEAR", 65734>>, <<"LINEAR B IDEOGRAM B231 ARROW", 65735>>,
    <<"LINEAR B IDEOGRAM B232", 65736>>, <<"LINEAR B IDEOGRAM B233 SWORD", 65737>>,
    <<"LINEAR B IDEOGRAM B234", 65738>>, <<"LINEAR B IDEOGRAM B236", 65739>>,
    <<"LINEAR B IDEOGRAM B240 WHEELED CHARIOT", 65740>>, <<"LINEAR B IDEOGRAM B241 CHARIOT", 65741>>,
    <<"LINEAR B IDEOGRAM B242 CHARIOT FRAME", 65742>>, <<"LINEAR B IDEOGRAM B243 WHEEL", 65743>>,
    <<"LINEAR B IDEOGRAM B245", 65744>>, <<"LINEAR B IDEOGRAM B246", 65745>>,
    <<"LINEAR B MONOGRAM B247 DIPTE", 65746>>, <<"LINEAR B IDEOGRAM B248", 65747>>,
    <<"LINEAR B IDEOGRAM B249", 65748>>, <<"LINEAR B IDEOGRAM B251", 65749>>,
    <<"LINEAR B IDEOGRAM B252", 65750>>, <<"LINEAR B IDEOGRAM B253", 65751>>,
    <<"LINEAR B IDEOGRAM B254 DART", 65752>>, <<"LINEAR B IDEOGRAM B255", 65753>>,
    <<"LINEAR B IDEOGRAM B256", 65754>>, <<"LINEAR B IDEOGRAM B257", 65755>>,
    <<"LINEAR B IDEOGRAM B258", 65756>>, <<"LINEAR B IDEOGRAM B259", 65757>>,
    <<"LINEAR B IDEOGRAM VESSEL B155", 65758>>, <<"LINEAR B IDEOGRAM VESSEL B200", 65759>>,
    <<"LINEAR B IDEOGRAM VESSEL B201", 65760>>, <<"LINEAR B IDEOGRAM VESSEL B202", 65761>>,
    <<"LINEAR B IDEOGRAM VESSEL B203", 65762>>, <<"LINEAR B IDEOGRAM VESSEL B204", 65763>>,
    <<"LINEAR B IDEOGRAM VESSEL B205", 65764>>, <<"LINEAR B IDEOGRAM VESSEL B206", 65765>>,
    <<"LINEAR B IDEOGRAM VESSEL B207", 65766>>, <<"LINEAR B IDEOGRAM VESSEL B208", 65767>>,
    <<"LINEAR B IDEOGRAM VESSEL B209", 65768>>, <<"LINEAR B IDEOGRAM VESSEL B210", 65769>>,
    <<"LINEAR B IDEOGRAM VESSEL B211", 65770>>, <<"LINEAR B IDEOGRAM VESSEL B212", 65771>>,
    <<"LINEAR B IDEOGRAM VESSEL B213", 65772>>, <<"LINEAR B IDEOGRAM VESSEL B214", 65773>>,
    <<"LINEAR B IDEOGRAM VESSEL B215", 65774>>, <<"LINEAR B IDEOGRAM VESSEL B216", 65775>>,
    <<"LINEAR B IDEOGRAM VESSEL B217", 65776>>, <<"LINEAR B IDEOGRAM VESSEL B218", 65777>>,
    <<"LINEAR B IDEOGRAM VESSEL B219", 65778>>, <<"LINEAR B IDEOGRAM VESSEL B221", 65779>>,
    <<"LINEAR B IDEOGRAM VESSEL B222", 65780>>, <<"LINEAR B IDEOGRAM VESSEL B226", 65781>>,
    <<"LINEAR B IDEOGRAM VESSEL B227", 65782>>, <<"LINEAR B IDEOGRAM VESSEL B228", 65783>>,
    <<"LINEAR B IDEOGRAM VESSEL B229", 65784>>, <<"LINEAR B IDEOGRAM VESSEL B250", 65785>>,
    <<"LINEAR B IDEOGRAM VESSEL B305", 65786>>, <<"AEGEAN WORD SEPARATOR LINE", 65792>>,
    <<"AEGEAN WORD SEPARATOR DOT", 65793>>, <<"AEGEAN CHECK MARK", 65794>>,
    <<"AEGEAN NUMBER ONE", 65799>>, <<"AEGEAN NUMBER TWO", 65800>>, <<"AEGEAN NUMBER THREE", 65801>>,
    <<"AEGEAN NUMBER FOUR", 65802>>, <<"AEGEAN NUMBER FIVE", 65803>>, <<"AEGEAN NUMBER SIX", 65804>>,
    <<"AEGEAN NUMBER SEVEN", 65805>>, <<"AEGEAN NUMBER EIGHT", 65806>>,
    <<"AEGEAN NUMBER NINE", 65807>>, <<"AEGEAN NUMBER TEN", 65808>>, <<"AEGEAN NUMBER TWENTY", 65809>>,
    <<"AEGEAN NUMBER THIRTY", 65810>>, <<"AEGEAN NUMBER FORTY", 65811>>,
    <<"AEGEAN NUMBER FIFTY", 65812>>, <<"AEGEAN NUMBER SIXTY", 65813>>,
    <<"AEGEAN NUMBER SEVENTY", 65814>>, <<"AEGEAN NUMBER EIGHTY", 65815>>,
    <<"AEGEAN NUMBER NINETY", 65816>>, <<"AEGEAN NUMBER ONE HUNDRED", 65817>>,
    <<"AEGEAN NUMBER TWO HUNDRED", 65818>>, <<"AEGEAN NUMBER THREE HUNDRED", 65819>>,
    <<"AEGEAN NUMBER FOUR HUNDRED", 65820>>, <<"AEGEAN NUMBER FIVE HUNDRED", 65821>>,
    <<"AEGEAN NUMBER SIX HUNDRED", 65822>>, <<"AEGEAN NUMBER SEVEN HUNDRED", 65823>>,
    <<"AEGEAN NUMBER EIGHT HUNDRED", 65824>>, <<"AEGEAN NUMBER NINE HUNDRED", 65825>>,
    <<"AEGEAN NUMBER ONE THOUSAND", 65826>>, <<"AEGEAN NUMBER TWO THOUSAND", 65827>>,
    <<"AEGEAN NUMBER THREE THOUSAND", 65828>>, <<"AEGEAN NUMBER FOUR THOUSAND", 65829>>,
    <<"AEGEAN NUMBER FIVE THOUSAND", 65830>>, <<"AEGEAN NUMBER SIX THOUSAND", 65831>>,
    <<"AEGEAN NUMBER SEVEN THOUSAND", 65832>>, <<"AEGEAN NUMBER EIGHT THOUSAND", 65833>>,
    <<"AEGEAN NUMBER NINE THOUSAND", 65834>>, <<"AEGEAN NUMBER TEN THOUSAND", 65835>>,
    <<"AEGEAN NUMBER TWENTY THOUSAND", 65836>>, <<"AEGEAN NUMBER THIRTY THOUSAND", 65837>>,
    <<"AEGEAN NUMBER FORTY THOUSAND", 65838>>, <<"AEGEAN NUMBER FIFTY THOUSAND", 65839>>,
    <<"AEGEAN NUMBER SIXTY THOUSAND", 65840>>, <<"AEGEAN NUMBER SEVENTY THOUSAND", 65841>>,
    <<"AEGEAN NUMBER EIGHTY THOUSAND", 65842>>, <<"AEGEAN NUMBER NINETY THOUSAND", 65843>>,
    <<"AEGEAN WEIGHT BASE UNIT", 65847>>, <<"AEGEAN WEIGHT FIRST SUBUNIT", 65848>>,
    <<"AEGEAN WEIGHT SECOND SUBUNIT", 65849>>, <<"AEGEAN WEIGHT THIRD SUBUNIT", 65850>>,
    <<"AEGEAN WEIGHT FOURTH SUBUNIT", 65851>>, <<"AEGEAN DRY MEASURE FIRST SUBUNIT", 65852>>,
    <<"AEGEAN LIQUID MEASURE FIRST SUBUNIT", 65853>>, <<"AEGEAN MEASURE SECOND SUBUNIT", 65854>>,
    <<"AEGEAN MEASURE THIRD SUBUNIT", 65855>>, <<"GREEK ACROPHONIC ATTIC ONE QUARTER", 65856>>,
    <<"GREEK ACROPHONIC ATTIC ONE HALF", 65857>>, <<"GREEK ACROPHONIC ATTIC ONE DRACHMA", 65858>>,
    <<"GREEK ACROPHONIC ATTIC FIVE", 65859>>, <<"GREEK ACROPHONIC ATTIC FIFTY", 65860>>,
    <<"GREEK ACROPHONIC ATTIC FIVE HUNDRED", 65861>>,
    <<"GREEK ACROPHONIC ATTIC FIVE THOUSAND", 65862>>,
    <<"GREEK ACROPHONIC ATTIC FIFTY THOUSAND", 65863>>,
    <<"GREEK ACROPHONIC ATTIC FIVE TALENTS", 65864>>, <<"GREEK ACROPHONIC ATTIC TEN TALENTS", 65865>>,
    <<"GREEK ACROPHONIC ATTIC FIFTY TALENTS", 65866>>,
    <<"GREEK ACROPHONIC ATTIC ONE HUNDRED TALENTS", 65867>>,
    <<"GREEK ACROPHONIC ATTIC FIVE HUNDRED TALENTS", 65868>>,
    <<"GREEK ACROPHONIC ATTIC ONE THOUSAND TALENTS", 65869>>,
    <<"GREEK ACROPHONIC ATTIC FIVE THOUSAND TALENTS", 65870>>,
    <<"GREEK ACROPHONIC ATTIC FIVE STATERS", 65871>>, <<"GREEK ACROPHONIC ATTIC TEN STATERS", 65872>>,
    <<"GREEK ACROPHONIC ATTIC FIFTY STATERS", 65873>>,
    <<"GREEK ACROPHONIC ATTIC ONE HUNDRED STATERS", 65874>>,
    <<"GREEK ACROPHONIC ATTIC FIVE HUNDRED STATERS", 65875>>,
    <<"GREEK ACROPHONIC ATTIC ONE THOUSAND STATERS", 65876>>,
    <<"GREEK ACROPHONIC ATTIC TEN THOUSAND STATERS", 65877>>,
    <<"GREEK ACROPHONIC ATTIC FIFTY THOUSAND STATERS", 65878>>,
    <<"GREEK ACROPHONIC ATTIC TEN MNAS", 65879>>, <<"GREEK ACROPHONIC HERAEUM ONE PLETHRON", 65880>>,
    <<"GREEK ACROPHONIC THESPIAN ONE", 65881>>, <<"GREEK ACROPHONIC HERMIONIAN ONE", 65882>>,
    <<"GREEK ACROPHONIC EPIDAUREAN TWO", 65883>>, <<"GREEK ACROPHONIC THESPIAN TWO", 65884>>,
    <<"GREEK ACROPHONIC CYRENAIC TWO DRACHMAS", 65885>>,
    <<"GREEK ACROPHONIC EPIDAUREAN TWO DRACHMAS", 65886>>,
    <<"GREEK ACROPHONIC TROEZENIAN FIVE", 65887>>, <<"GREEK ACROPHONIC TROEZENIAN TEN", 65888>>,
    <<"GREEK ACROPHONIC TROEZENIAN TEN ALTERNATE FORM", 65889>>,
    <<"GREEK ACROPHONIC HERMIONIAN TEN", 65890>>, <<"GREEK ACROPHONIC MESSENIAN TEN", 65891>>,
    <<"GREEK ACROPHONIC THESPIAN TEN", 65892>>, <<"GREEK ACROPHONIC THESPIAN THIRTY", 65893>>,
    <<"GREEK ACROPHONIC TROEZENIAN FIFTY", 65894>>,
    <<"GREEK ACROPHONIC TROEZENIAN FIFTY ALTERNATE FORM", 65895>>,
    <<"GREEK ACROPHONIC HERMIONIAN FIFTY", 65896>>, <<"GREEK ACROPHONIC THESPIAN FIFTY", 65897>>,
    <<"GREEK ACROPHONIC THESPIAN ONE HUNDRED", 65898>>,
    <<"GREEK ACROPHONIC THESPIAN THREE HUNDRED", 65899>>,
    <<"GREEK ACROPHONIC EPIDAUREAN FIVE HUNDRED", 65900>>,
    <<"GREEK ACROPHONIC TROEZENIAN FIVE HUNDRED", 65901>>,
    <<"GREEK ACROPHONIC THESPIAN FIVE HUNDRED", 65902>>,
    <<"GREEK ACROPHONIC CARYSTIAN FIVE HUNDRED", 65903>>,
    <<"GREEK ACROPHONIC NAXIAN FIVE HUNDRED", 65904>>,
    <<"GREEK ACROPHONIC THESPIAN ONE THOUSAND", 65905>>,
    <<"GREEK ACROPHONIC THESPIAN FIVE THOUSAND", 65906>>,
    <<"GREEK ACROPHONIC DELPHIC FIVE MNAS", 65907>>, <<"GREEK ACROPHONIC STRATIAN FIFTY MNAS", 65908>>,
    <<"GREEK ONE HALF SIGN", 65909>>, <<"GREEK ONE HALF SIGN ALTERNATE FORM", 65910>>,
    <<"GREEK TWO THIRDS SIGN", 65911>>, <<"GREEK THREE QUARTERS SIGN", 65912>>,
    <<"GREEK YEAR SIGN", 65913>>, <<"GREEK TALENT SIGN", 65914>>, <<"GREEK DRACHMA SIGN", 65915>>,
    <<"GREEK OBOL SIGN", 65916>>, <<"GREEK TWO OBOLS SIGN", 65917>>,
    <<"GREEK THREE OBOLS SIGN", 65918>>, <<"GREEK FOUR OBOLS SIGN", 65919>>,
    <<"GREEK FIVE OBOLS SIGN", 65920>>, <<"GREEK METRETES SIGN", 65921>>,
    <<"GREEK KYATHOS BASE SIGN", 65922>>, <<"GREEK LITRA SIGN", 65923>>,
    <<"GREEK OUNKIA SIGN", 65924>>, <<"GREEK XESTES SIGN", 65925>>, <<"GREEK ARTABE SIGN", 65926>>,
    <<"GREEK AROURA SIGN", 65927>>, <<"GREEK GRAMMA SIGN", 65928>>,
    <<"GREEK TRYBLION BASE SIGN", 65929>>, <<"GREEK ZERO SIGN", 65930>>,
    <<"GREEK ONE QUARTER SIGN", 65931>>, <<"GREEK SINUSOID SIGN", 65932>>,
    <<"GREEK INDICTION SIGN", 65933>>, <<"NOMISMA SIGN", 65934>>, <<"ROMAN SEXTANS SIGN", 65936>>,
    <<"ROMAN UNCIA SIGN", 65937>>, <<"ROMAN SEMUNCIA SIGN", 65938>>, <<"ROMAN SEXTULA SIGN", 65939>>,
    <<"ROMAN DIMIDIA SEXTULA SIGN", 65940>>, <<"ROMAN SILIQUA SIGN", 65941>>,
    <<"ROMAN DENARIUS SIGN", 65942>>, <<"ROMAN QUINARIUS SIGN", 65943>>,
    <<"ROMAN SESTERTIUS SIGN", 65944>>, <<"ROMAN DUPONDIUS SIGN", 65945>>, <<"ROMAN AS SIGN", 65946>>,
    <<"ROMAN CENTURIAL SIGN", 65947>>, <<"ASCIA SYMBOL", 65948>>, <<"GREEK SYMBOL TAU RHO", 65952>>,
    <<"PHAISTOS DISC SIGN PEDESTRIAN", 66000>>, <<"PHAISTOS DISC SIGN PLUMED HEAD", 66001>>,
    <<"PHAISTOS DISC SIGN TATTOOED HEAD", 66002>>, <<"PHAISTOS DISC SIGN CAPTIVE", 66003>>,
    <<"PHAISTOS DISC SIGN CHILD", 66004>>, <<"PHAISTOS DISC SIGN WOMAN", 66005>>,
    <<"PHAISTOS DISC SIGN HELMET", 66006>>, <<"PHAISTOS DISC SIGN GAUNTLET", 66007>>,
    <<"PHAISTOS DISC SIGN TIARA", 66008>>, <<"PHAISTOS DISC SIGN ARROW", 66009>>,
    <<"PHAISTOS DISC SIGN BOW", 66010>>, <<"PHAISTOS DISC SIGN SHIELD", 66011>>,
    <<"PHAISTOS DISC SIGN CLUB", 66012>>, <<"PHAISTOS DISC SIGN MANACLES", 66013>>,
    <<"PHAISTOS DISC SIGN MATTOCK", 66014>>, <<"PHAISTOS DISC SIGN SAW", 66015>>,
    <<"PHAISTOS DISC SIGN LID", 66016>>, <<"PHAISTOS DISC SIGN BOOMERANG", 66017>>,
    <<"PHAISTOS DISC SIGN CARPENTRY PLANE", 66018>>, <<"PHAISTOS DISC SIGN DOLIUM", 66019>>,
    <<"PHAISTOS DISC SIGN COMB", 66020>>, <<"PHAISTOS DISC SIGN SLING", 66021>>,
    <<"PHAISTOS DISC SIGN COLUMN", 66022>>, <<"PHAISTOS DISC SIGN BEEHIVE", 66023>>,
    <<"PHAISTOS DISC SIGN SHIP", 66024>>, <<"PHAISTOS DISC SIGN HORN", 66025>>,
    <<"PHAISTOS DISC SIGN HIDE", 66026>>, <<"PHAISTOS DISC SIGN BULLS LEG", 66027>>,
    <<"PHAISTOS DISC SIGN CAT", 66028>>, <<"PHAISTOS DISC SIGN RAM", 66029>>,
    <<"PHAISTOS DISC SIGN EAGLE", 66030>>, <<"PHAISTOS DISC SIGN DOVE", 66031>>,
    <<"PHAISTOS DISC SIGN TUNNY", 66032>>, <<"PHAISTOS DISC SIGN BEE", 66033>>,
    <<"PHAISTOS DISC SIGN PLANE TREE", 66034>>, <<"PHAISTOS DISC SIGN VINE", 66035>>,
    <<"PHAISTOS DISC SIGN PAPYRUS", 66036>>, <<"PHAISTOS DISC SIGN ROSETTE", 66037>>,
    <<"PHAISTOS DISC SIGN LILY", 66038>>, <<"PHAISTOS DISC SIGN OX BACK", 66039>>,
    <<"PHAISTOS DISC SIGN FLUTE", 66040>>, <<"PHAISTOS DISC SIGN GRATER", 66041>>,
    <<"PHAISTOS DISC SIGN STRAINER", 66042>>, <<"PHAISTOS DISC SIGN SMALL AXE", 66043>>,
    <<"PHAISTOS DISC SIGN WAVY BAND", 66044>>,
    <<"PHAISTOS DISC SIGN COMBINING OBLIQUE STROKE", 66045>>, <<"LYCIAN LETTER A", 66176>>,
    <<"LYCIAN LETTER E", 66177>>, <<"LYCIAN LETTER B", 66178>>, <<"LYCIAN LETTER BH", 66179>>,
    <<"LYCIAN LETTER G", 66180>>, <<"LYCIAN LETTER D", 66181>>, <<"LYCIAN LETTER I", 66182>>,
    <<"LYCIAN LETTER W", 66183>>, <<"LYCIAN LETTER Z", 66184>>, <<"LYCIAN LETTER TH", 66185>>,
    <<"LYCIAN LETTER J", 66186>>, <<"LYCIAN LETTER K", 66187>>, <<"LYCIAN LETTER Q", 66188>>,
    <<"LYCIAN LETTER L", 66189>>, <<"LYCIAN LETTER M", 66190>>, <<"LYCIAN LETTER N", 66191>>,
    <<"LYCIAN LETTER MM", 66192>>, <<"LYCIAN LETTER NN", 66193>>, <<"LYCIAN LETTER U", 66194>>,
    <<"LYCIAN LETTER P", 66195>>, <<"LYCIAN LETTER KK", 66196>>, <<"LYCIAN LETTER R", 66197>>,
    <<"LYCIAN LETTER S", 66198>>, <<"LYCIAN LETTER T", 66199>>, <<"LYCIAN LETTER TT", 66200>>,
    <<"LYCIAN LETTER AN", 66201>>, <<"LYCIAN LETTER EN", 66202>>, <<"LYCIAN LETTER H", 66203>>,
    <<"LYCIAN LETTER X", 66204>>, <<"CARIAN LETTER A", 66208>>, <<"CARIAN LETTER P2", 66209>>,
    <<"CARIAN LETTER D", 66210>>, <<"CARIAN LETTER L", 66211>>, <<"CARIAN LETTER UUU", 66212>>,
    <<"CARIAN LETTER R", 66213>>, <<"CARIAN LETTER LD", 66214>>, <<"CARIAN LETTER A2", 66215>>,
    <<"CARIAN LETTER Q", 66216>>, <<"CARIAN LETTER B", 66217>>, <<"CARIAN LETTER M", 66218>>,
    <<"CARIAN LETTER O", 66219>>, <<"CARIAN LETTER D2", 66220>>, <<"CARIAN LETTER T", 66221>>,
    <<"CARIAN LETTER SH", 66222>>, <<"CARIAN LETTER SH2", 66223>>, <<"CARIAN LETTER S", 66224>>,
    <<"CARIAN LETTER C-18", 66225>>, <<"CARIAN LETTER U", 66226>>, <<"CARIAN LETTER NN", 66227>>,
    <<"CARIAN LETTER X", 66228>>, <<"CARIAN LETTER N", 66229>>, <<"CARIAN LETTER TT2", 66230>>,
    <<"CARIAN LETTER P", 66231>>, <<"CARIAN LETTER SS", 66232>>, <<"CARIAN LETTER I", 66233>>,
    <<"CARIAN LETTER E", 66234>>, <<"CARIAN LETTER UUUU", 66235>>, <<"CARIAN LETTER K", 66236>>,
    <<"CARIAN LETTER K2", 66237>>, <<"CARIAN LETTER ND", 66238>>, <<"CARIAN LETTER UU", 66239>>,
    <<"CARIAN LETTER G", 66240>>, <<"CARIAN LETTER G2", 66241>>, <<"CARIAN LETTER ST", 66242>>,
    <<"CARIAN LETTER ST2", 66243>>, <<"CARIAN LETTER NG", 66244>>, <<"CARIAN LETTER II", 66245>>,
    <<"CARIAN LETTER C-39", 66246>>, <<"CARIAN LETTER TT", 66247>>, <<"CARIAN LETTER UUU2", 66248>>,
    <<"CARIAN LETTER RR", 66249>>, <<"CARIAN LETTER MB", 66250>>, <<"CARIAN LETTER MB2", 66251>>,
    <<"CARIAN LETTER MB3", 66252>>, <<"CARIAN LETTER MB4", 66253>>, <<"CARIAN LETTER LD2", 66254>>,
    <<"CARIAN LETTER E2", 66255>>, <<"CARIAN LETTER UUU3", 66256>>,
    <<"COPTIC EPACT THOUSANDS MARK", 66272>>, <<"COPTIC EPACT DIGIT ONE", 66273>>,
    <<"COPTIC EPACT DIGIT TWO", 66274>>, <<"COPTIC EPACT DIGIT THREE", 66275>>,
    <<"COPTIC EPACT DIGIT FOUR", 66276>>, <<"COPTIC EPACT DIGIT FIVE", 66277>>,
    <<"COPTIC EPACT DIGIT SIX", 66278>>, <<"COPTIC EPACT DIGIT SEVEN", 66279>>,
    <<"COPTIC EPACT DIGIT EIGHT", 66280>>, <<"COPTIC EPACT DIGIT NINE", 66281>>,
    <<"COPTIC EPACT NUMBER TEN", 66282>>, <<"COPTIC EPACT NUMBER TWENTY", 66283>>,
    <<"COPTIC EPACT NUMBER THIRTY", 66284>>, <<"COPTIC EPACT NUMBER FORTY", 66285>>,
    <<"COPTIC EPACT NUMBER FIFTY", 66286>>, <<"COPTIC EPACT NUMBER SIXTY", 66287>>,
    <<"COPTIC EPACT NUMBER SEVENTY", 66288>>, <<"COPTIC EPACT NUMBER EIGHTY", 66289>>,
    <<"COPTIC EPACT NUMBER NINETY", 66290>>, <<"COPTIC EPACT NUMBER ONE HUNDRED", 66291>>,
    <<"COPTIC EPACT NUMBER TWO HUNDRED", 66292>>, <<"COPTIC EPACT NUMBER THREE HUNDRED", 66293>>,
    <<"COPTIC EPACT NUMBER FOUR HUNDRED", 66294>>, <<"COPTIC EPACT NUMBER FIVE HUNDRED", 66295>>,
    <<"COPTIC EPACT NUMBER SIX HUNDRED", 66296>>, <<"COPTIC EPACT NUMBER SEVEN HUNDRED", 66297>>,
    <<"COPTIC EPACT NUMBER EIGHT HUNDRED", 66298>>, <<"COPTIC EPACT NUMBER NINE HUNDRED", 66299>>,
    <<"OLD ITALIC LETTER A", 66304>>, <<"OLD ITALIC LETTER BE", 66305>>,
    <<"OLD ITALIC LETTER KE", 66306>>, <<"OLD ITALIC LETTER DE", 66307>>,
    <<"OLD ITALIC LETTER E", 66308>>, <<"OLD ITALIC LETTER VE", 66309>>,
    <<"OLD ITALIC LETTER ZE", 66310>>, <<"OLD ITALIC LETTER HE", 66311>>,
    <<"OLD ITALIC LETTER THE", 66312>>, <<"OLD ITALIC LETTER I", 66313>>,
    <<"OLD ITALIC LETTER KA", 66314>>, <<"OLD ITALIC LETTER EL", 66315>>,
    <<"OLD ITALIC LETTER EM", 66316>>, <<"OLD ITALIC LETTER EN", 66317>>,
    <<"OLD ITALIC LETTER ESH", 66318>>, <<"OLD ITALIC LETTER O", 66319>>,
    <<"OLD ITALIC LETTER PE", 66320>>, <<"OLD ITALIC LETTER SHE", 66321>>,
    <<"OLD ITALIC LETTER KU", 66322>>, <<"OLD ITALIC LETTER ER", 66323>>,
    <<"OLD ITALIC LETTER ES", 66324>>, <<"OLD ITALIC LETTER TE", 66325>>,
    <<"OLD ITALIC LETTER U", 66326>>, <<"OLD ITALIC LETTER EKS", 66327>>,
    <<"OLD ITALIC LETTER PHE", 66328>>, <<"OLD ITALIC LETTER KHE", 66329>>,
    <<"OLD ITALIC LETTER EF", 66330>>, <<"OLD ITALIC LETTER ERS", 66331>>,
    <<"OLD ITALIC LETTER CHE", 66332>>, <<"OLD ITALIC LETTER II", 66333>>,
    <<"OLD ITALIC LETTER UU", 66334>>, <<"OLD ITALIC LETTER ESS", 66335>>,
    <<"OLD ITALIC NUMERAL ONE", 66336>>, <<"OLD ITALIC NUMERAL FIVE", 66337>>,
    <<"OLD ITALIC NUMERAL TEN", 66338>>, <<"OLD ITALIC NUMERAL FIFTY", 66339>>,
    <<"OLD ITALIC LETTER YE", 66349>>, <<"OLD ITALIC LETTER NORTHERN TSE", 66350>>,
    <<"OLD ITALIC LETTER SOUTHERN TSE", 66351>>, <<"GOTHIC LETTER AHSA", 66352>>,
    <<"GOTHIC LETTER BAIRKAN", 66353>>, <<"GOTHIC LETTER GIBA", 66354>>,
    <<"GOTHIC LETTER DAGS", 66355>>, <<"GOTHIC LETTER AIHVUS", 66356>>,
    <<"GOTHIC LETTER QAIRTHRA", 66357>>, <<"GOTHIC LETTER IUJA", 66358>>,
    <<"GOTHIC LETTER HAGL", 66359>>, <<"GOTHIC LETTER THIUTH", 66360>>, <<"GOTHIC LETTER EIS", 66361>>,
    <<"GOTHIC LETTER KUSMA", 66362>>, <<"GOTHIC LETTER LAGUS", 66363>>,
    <<"GOTHIC LETTER MANNA", 66364>>, <<"GOTHIC LETTER NAUTHS", 66365>>,
    <<"GOTHIC LETTER JER", 66366>>, <<"GOTHIC LETTER URUS", 66367>>,
    <<"GOTHIC LETTER PAIRTHRA", 66368>>, <<"GOTHIC LETTER NINETY", 66369>>,
    <<"GOTHIC LETTER RAIDA", 66370>>, <<"GOTHIC LETTER SAUIL", 66371>>,
    <<"GOTHIC LETTER TEIWS", 66372>>, <<"GOTHIC LETTER WINJA", 66373>>,
    <<"GOTHIC LETTER FAIHU", 66374>>, <<"GOTHIC LETTER IGGWS", 66375>>,
    <<"GOTHIC LETTER HWAIR", 66376>>, <<"GOTHIC LETTER OTHAL", 66377>>,
    <<"GOTHIC LETTER NINE HUNDRED", 66378>>, <<"OLD PERMIC LETTER AN", 66384>>,
    <<"OLD PERMIC LETTER BUR", 66385>>, <<"OLD PERMIC LETTER GAI", 66386>>,
    <<"OLD PERMIC LETTER DOI", 66387>>, <<"OLD PERMIC LETTER E", 66388>>,
    <<"OLD PERMIC LETTER ZHOI", 66389>>, <<"OLD PERMIC LETTER DZHOI", 66390>>,
    <<"OLD PERMIC LETTER ZATA", 66391>>, <<"OLD PERMIC LETTER DZITA", 66392>>,
    <<"OLD PERMIC LETTER I", 66393>>, <<"OLD PERMIC LETTER KOKE", 66394>>,
    <<"OLD PERMIC LETTER LEI", 66395>>, <<"OLD PERMIC LETTER MENOE", 66396>>,
    <<"OLD PERMIC LETTER NENOE", 66397>>, <<"OLD PERMIC LETTER VOOI", 66398>>,
    <<"OLD PERMIC LETTER PEEI", 66399>>, <<"OLD PERMIC LETTER REI", 66400>>,
    <<"OLD PERMIC LETTER SII", 66401>>, <<"OLD PERMIC LETTER TAI", 66402>>,
    <<"OLD PERMIC LETTER U", 66403>>, <<"OLD PERMIC LETTER CHERY", 66404>>,
    <<"OLD PERMIC LETTER SHOOI", 66405>>, <<"OLD PERMIC LETTER SHCHOOI", 66406>>,
    <<"OLD PERMIC LETTER YRY", 66407>>, <<"OLD PERMIC LETTER YERU", 66408>>,
    <<"OLD PERMIC LETTER O", 66409>>, <<"OLD PERMIC LETTER OO", 66410>>,
    <<"OLD PERMIC LETTER EF", 66411>>, <<"OLD PERMIC LETTER HA", 66412>>,
    <<"OLD PERMIC LETTER TSIU", 66413>>, <<"OLD PERMIC LETTER VER", 66414>>,
    <<"OLD PERMIC LETTER YER", 66415>>, <<"OLD PERMIC LETTER YERI", 66416>>,
    <<"OLD PERMIC LETTER YAT", 66417>>, <<"OLD PERMIC LETTER IE", 66418>>,
    <<"OLD PERMIC LETTER YU", 66419>>, <<"OLD PERMIC LETTER YA", 66420>>,
    <<"OLD PERMIC LETTER IA", 66421>>, <<"COMBINING OLD PERMIC LETTER AN", 66422>>,
    <<"COMBINING OLD PERMIC LETTER DOI", 66423>>, <<"COMBINING OLD PERMIC LETTER ZATA", 66424>>,
    <<"COMBINING OLD PERMIC LETTER NENOE", 66425>>, <<"COMBINING OLD PERMIC LETTER SII", 66426>>,
    <<"UGARITIC LETTER ALPA", 66432>>, <<"UGARITIC LETTER BETA", 66433>>,
    <<"UGARITIC LETTER GAMLA", 66434>>, <<"UGARITIC LETTER KHA", 66435>>,
    <<"UGARITIC LETTER DELTA", 66436>>, <<"UGARITIC LETTER HO", 66437>>,
    <<"UGARITIC LETTER WO", 66438>>, <<"UGARITIC LETTER ZETA", 66439>>,
    <<"UGARITIC LETTER HOTA", 66440>>, <<"UGARITIC LETTER TET", 66441>>,
    <<"UGARITIC LETTER YOD", 66442>>, <<"UGARITIC LETTER KAF", 66443>>,
    <<"UGARITIC LETTER SHIN", 66444>>, <<"UGARITIC LETTER LAMDA", 66445>>,
    <<"UGARITIC LETTER MEM", 66446>>, <<"UGARITIC LETTER DHAL", 66447>>,
    <<"UGARITIC LETTER NUN", 66448>>, <<"UGARITIC LETTER ZU", 66449>>,
    <<"UGARITIC LETTER SAMKA", 66450>>, <<"UGARITIC LETTER AIN", 66451>>,
    <<"UGARITIC LETTER PU", 66452>>, <<"UGARITIC LETTER SADE", 66453>>,
    <<"UGARITIC LETTER QOPA", 66454>>, <<"UGARITIC LETTER RASHA", 66455>>,
    <<"UGARITIC LETTER THANNA", 66456>>, <<"UGARITIC LETTER GHAIN", 66457>>,
    <<"UGARITIC LETTER TO", 66458>>, <<"UGARITIC LETTER I", 66459>>, <<"UGARITIC LETTER U", 66460>>,
    <<"UGARITIC LETTER SSU", 66461>>, <<"UGARITIC WORD DIVIDER", 66463>>,
    <<"OLD PERSIAN SIGN A", 66464>>, <<"OLD PERSIAN SIGN I", 66465>>, <<"OLD PERSIAN SIGN U", 66466>>,
    <<"OLD PERSIAN SIGN KA", 66467>>, <<"OLD PERSIAN SIGN KU", 66468>>,
    <<"OLD PERSIAN SIGN GA", 66469>>, <<"OLD PERSIAN SIGN GU", 66470>>,
    <<"OLD PERSIAN SIGN XA", 66471>>, <<"OLD PERSIAN SIGN CA", 66472>>,
    <<"OLD PERSIAN SIGN JA", 66473>>, <<"OLD PERSIAN SIGN JI", 66474>>,
    <<"OLD PERSIAN SIGN TA", 66475>>, <<"OLD PERSIAN SIGN TU", 66476>>,
    <<"OLD PERSIAN SIGN DA", 66477>>, <<"OLD PERSIAN SIGN DI", 66478>>,
    <<"OLD PERSIAN SIGN DU", 66479>>, <<"OLD PERSIAN SIGN THA", 66480>>,
    <<"OLD PERSIAN SIGN PA", 66481>>, <<"OLD PERSIAN SIGN BA", 66482>>,
    <<"OLD PERSIAN SIGN FA", 66483>>, <<"OLD PERSIAN SIGN NA", 66484>>,
    <<"OLD PERSIAN SIGN NU", 66485>>, <<"OLD PERSIAN SIGN MA", 66486>>,
    <<"OLD PERSIAN SIGN MI", 66487>>, <<"OLD PERSIAN SIGN MU", 66488>>,
    <<"OLD PERSIAN SIGN YA", 66489>>, <<"OLD PERSIAN SIGN VA", 66490>>,
    <<"OLD PERSIAN SIGN VI", 66491>>, <<"OLD PERSIAN SIGN RA", 66492>>,
    <<"OLD PERSIAN SIGN RU", 66493>>, <<"OLD PERSIAN SIGN LA", 66494>>,
    <<"OLD PERSIAN SIGN SA", 66495>>, <<"OLD PERSIAN SIGN ZA", 66496>>,
    <<"OLD PERSIAN SIGN SHA", 66497>>, <<"OLD PERSIAN SIGN SSA", 66498>>,
    <<"OLD PERSIAN SIGN HA", 66499>>, <<"OLD PERSIAN SIGN AURAMAZDAA", 66504>>,
    <<"OLD PERSIAN SIGN AURAMAZDAA-2", 66505>>, <<"OLD PERSIAN SIGN AURAMAZDAAHA", 66506>>,
    <<"OLD PERSIAN SIGN XSHAAYATHIYA", 66507>>, <<"OLD PERSIAN SIGN DAHYAAUSH", 66508>>,
    <<"OLD PERSIAN SIGN DAHYAAUSH-2", 66509>>, <<"OLD PERSIAN SIGN BAGA", 66510>>,
    <<"OLD PERSIAN SIGN BUUMISH", 66511>>, <<"OLD PERSIAN WORD DIVIDER", 66512>>,
    <<"OLD PERSIAN NUMBER ONE", 66513>>, <<"OLD PERSIAN NUMBER TWO", 66514>>,
    <<"OLD PERSIAN NUMBER TEN", 66515>>, <<"OLD PERSIAN NUMBER TWENTY", 66516>>,
    <<"OLD PERSIAN NUMBER HUNDRED", 66517>>, <<"DESERET CAPITAL LETTER LONG I", 66560>>,
    <<"DESERET CAPITAL LETTER LONG E", 66561>>, <<"DESERET CAPITAL LETTER LONG A", 66562>>,
    <<"DESERET CAPITAL LETTER LONG AH", 66563>>, <<"DESERET CAPITAL LETTER LONG O", 66564>>,
    <<"DESERET CAPITAL LETTER LONG OO", 66565>>, <<"DESERET CAPITAL LETTER SHORT I", 66566>>,
    <<"DESERET CAPITAL LETTER SHORT E", 66567>>, <<"DESERET CAPITAL LETTER SHORT A", 66568>>,
    <<"DESERET CAPITAL LETTER SHORT AH", 66569>>, <<"DESERET CAPITAL LETTER SHORT O", 66570>>,
    <<"DESERET CAPITAL LETTER SHORT OO", 66571>>, <<"DESERET CAPITAL LETTER AY", 66572>>,
    <<"DESERET CAPITAL LETTER OW", 66573>>, <<"DESERET CAPITAL LETTER WU", 66574>>,
    <<"DESERET CAPITAL LETTER YEE", 66575>>, <<"DESERET CAPITAL LETTER H", 66576>>,
    <<"DESERET CAPITAL LETTER PEE", 66577>>, <<"DESERET CAPITAL LETTER BEE", 66578>>,
    <<"DESERET CAPITAL LETTER TEE", 66579>>, <<"DESERET CAPITAL LETTER DEE", 66580>>,
    <<"DESERET CAPITAL LETTER CHEE", 66581>>, <<"DESERET CAPITAL LETTER JEE", 66582>>,
    <<"DESERET CAPITAL LETTER KAY", 66583>>, <<"DESERET CAPITAL LETTER GAY", 66584>>,
    <<"DESERET CAPITAL LETTER EF", 66585>>, <<"DESERET CAPITAL LETTER VEE", 66586>>,
    <<"DESERET CAPITAL LETTER ETH", 66587>>, <<"DESERET CAPITAL LETTER THEE", 66588>>,
    <<"DESERET CAPITAL LETTER ES", 66589>>, <<"DESERET CAPITAL LETTER ZEE", 66590>>,
    <<"DESERET CAPITAL LETTER ESH", 66591>>, <<"DESERET CAPITAL LETTER ZHEE", 66592>>,
    <<"DESERET CAPITAL LETTER ER", 66593>>, <<"DESERET CAPITAL LETTER EL", 66594>>,
    <<"DESERET CAPITAL LETTER EM", 66595>>, <<"DESERET CAPITAL LETTER EN", 66596>>,
    <<"DESERET CAPITAL LETTER ENG", 66597>>, <<"DESERET CAPITAL LETTER OI", 66598>>,
    <<"DESERET CAPITAL LETTER EW", 66599>>, <<"DESERET SMALL LETTER LONG I", 66600>>,
    <<"DESERET SMALL LETTER LONG E", 66601>>, <<"DESERET SMALL LETTER LONG A", 66602>>,
    <<"DESERET SMALL LETTER LONG AH", 66603>>, <<"DESERET SMALL LETTER LONG O", 66604>>,
    <<"DESERET SMALL LETTER LONG OO", 66605>>, <<"DESERET SMALL LETTER SHORT I", 66606>>,
    <<"DESERET SMALL LETTER SHORT E", 66607>>, <<"DESERET SMALL LETTER SHORT A", 66608>>,
    <<"DESERET SMALL LETTER SHORT AH", 66609>>, <<"DESERET SMALL LETTER SHORT O", 66610>>,
    <<"DESERET SMALL LETTER SHORT OO", 66611>>, <<"DESERET SMALL LETTER AY", 66612>>,
    <<"DESERET SMALL LETTER OW", 66613>>, <<"DESERET SMALL LETTER WU", 66614>>,
    <<"DESERET SMALL LETTER YEE", 66615>>, <<"DESERET SMALL LETTER H", 66616>>,
    <<"DESERET SMALL LETTER PEE", 66617>>, <<"DESERET SMALL LETTER BEE", 66618>>,
    <<"DESERET SMALL LETTER TEE", 66619>>, <<"DESERET SMALL LETTER DEE", 66620>>,
    <<"DESERET SMALL LETTER CHEE", 66621>>, <<"DESERET SMALL LETTER JEE", 66622>>,
    <<"DESERET SMALL LETTER KAY", 66623>>, <<"DESERET SMALL LETTER GAY", 66624>>,
    <<"DESERET SMALL LETTER EF", 66625>>, <<"DESERET SMALL LETTER VEE", 66626>>,
    <<"DESERET SMALL LETTER ETH", 66627>>, <<"DESERET SMALL LETTER THEE", 66628>>,
    <<"DESERET SMALL LETTER ES", 66629>>, <<"DESERET SMALL LETTER ZEE", 66630>>,
    <<"DESERET SMALL LETTER ESH", 66631>>, <<"DESERET SMALL LETTER ZHEE", 66632>>,
    <<"DESERET SMALL LETTER ER", 66633>>, <<"DESERET SMALL LETTER EL", 66634>>,
    <<"DESERET SMALL LETTER EM", 66635>>, <<"DESERET SMALL LETTER EN", 66636>>,
    <<"DESERET SMALL LETTER ENG", 66637>>, <<"DESERET SMALL LETTER OI", 66638>>,
    <<"DESERET SMALL LETTER EW", 66639>>, <<"SHAVIAN LETTER PEEP", 66640>>,
    <<"SHAVIAN LETTER TOT", 66641>>, <<"SHAVIAN LETTER KICK", 66642>>, <<"SHAVIAN LETTER FEE", 66643>>,
    <<"SHAVIAN LETTER THIGH", 66644>>, <<"SHAVIAN LETTER SO", 66645>>,
    <<"SHAVIAN LETTER SURE", 66646>>, <<"SHAVIAN LETTER CHURCH", 66647>>,
    <<"SHAVIAN LETTER YEA", 66648>>, <<"SHAVIAN LETTER HUNG", 66649>>, <<"SHAVIAN LETTER BIB", 66650>>,
    <<"SHAVIAN LETTER DEAD", 66651>>, <<"SHAVIAN LETTER GAG", 66652>>, <<"SHAVIAN LETTER VOW", 66653>>,
    <<"SHAVIAN LETTER THEY", 66654>>, <<"SHAVIAN LETTER ZOO", 66655>>,
    <<"SHAVIAN LETTER MEASURE", 66656>>, <<"SHAVIAN LETTER JUDGE", 66657>>,
    <<"SHAVIAN LETTER WOE", 66658>>, <<"SHAVIAN LETTER HA-HA", 66659>>,
    <<"SHAVIAN LETTER LOLL", 66660>>, <<"SHAVIAN LETTER MIME", 66661>>, <<"SHAVIAN LETTER IF", 66662>>,
    <<"SHAVIAN LETTER EGG", 66663>>, <<"SHAVIAN LETTER ASH", 66664>>, <<"SHAVIAN LETTER ADO", 66665>>,
    <<"SHAVIAN LETTER ON", 66666>>, <<"SHAVIAN LETTER WOOL", 66667>>, <<"SHAVIAN LETTER OUT", 66668>>,
    <<"SHAVIAN LETTER AH", 66669>>, <<"SHAVIAN LETTER ROAR", 66670>>, <<"SHAVIAN LETTER NUN", 66671>>,
    <<"SHAVIAN LETTER EAT", 66672>>, <<"SHAVIAN LETTER AGE", 66673>>, <<"SHAVIAN LETTER ICE", 66674>>,
    <<"SHAVIAN LETTER UP", 66675>>, <<"SHAVIAN LETTER OAK", 66676>>, <<"SHAVIAN LETTER OOZE", 66677>>,
    <<"SHAVIAN LETTER OIL", 66678>>, <<"SHAVIAN LETTER AWE", 66679>>, <<"SHAVIAN LETTER ARE", 66680>>,
    <<"SHAVIAN LETTER OR", 66681>>, <<"SHAVIAN LETTER AIR", 66682>>, <<"SHAVIAN LETTER ERR", 66683>>,
    <<"SHAVIAN LETTER ARRAY", 66684>>, <<"SHAVIAN LETTER EAR", 66685>>,
    <<"SHAVIAN LETTER IAN", 66686>>, <<"SHAVIAN LETTER YEW", 66687>>, <<"OSMANYA LETTER ALEF", 66688>>,
    <<"OSMANYA LETTER BA", 66689>>, <<"OSMANYA LETTER TA", 66690>>, <<"OSMANYA LETTER JA", 66691>>,
    <<"OSMANYA LETTER XA", 66692>>, <<"OSMANYA LETTER KHA", 66693>>, <<"OSMANYA LETTER DEEL", 66694>>,
    <<"OSMANYA LETTER RA", 66695>>, <<"OSMANYA LETTER SA", 66696>>, <<"OSMANYA LETTER SHIIN", 66697>>,
    <<"OSMANYA LETTER DHA", 66698>>, <<"OSMANYA LETTER CAYN", 66699>>, <<"OSMANYA LETTER GA", 66700>>,
    <<"OSMANYA LETTER FA", 66701>>, <<"OSMANYA LETTER QAAF", 66702>>, <<"OSMANYA LETTER KAAF", 66703>>,
    <<"OSMANYA LETTER LAAN", 66704>>, <<"OSMANYA LETTER MIIN", 66705>>,
    <<"OSMANYA LETTER NUUN", 66706>>, <<"OSMANYA LETTER WAW", 66707>>, <<"OSMANYA LETTER HA", 66708>>,
    <<"OSMANYA LETTER YA", 66709>>, <<"OSMANYA LETTER A", 66710>>, <<"OSMANYA LETTER E", 66711>>,
    <<"OSMANYA LETTER I", 66712>>, <<"OSMANYA LETTER O", 66713>>, <<"OSMANYA LETTER U", 66714>>,
    <<"OSMANYA LETTER AA", 66715>>, <<"OSMANYA LETTER EE", 66716>>, <<"OSMANYA LETTER OO", 66717>>,
    <<"OSMANYA DIGIT ZERO", 66720>>, <<"OSMANYA DIGIT ONE", 66721>>, <<"OSMANYA DIGIT TWO", 66722>>,
    <<"OSMANYA DIGIT THREE", 66723>>, <<"OSMANYA DIGIT FOUR", 66724>>, <<"OSMANYA DIGIT FIVE", 66725>>,
    <<"OSMANYA DIGIT SIX", 66726>>, <<"OSMANYA DIGIT SEVEN", 66727>>, <<"OSMANYA DIGIT EIGHT", 66728>>,
    <<"OSMANYA DIGIT NINE", 66729>>, <<"OSAGE CAPITAL LETTER A", 66736>>,
    <<"OSAGE CAPITAL LETTER AI", 66737>>, <<"OSAGE CAPITAL LETTER AIN", 66738>>,
    <<"OSAGE CAPITAL LETTER AH", 66739>>, <<"OSAGE CAPITAL LETTER BRA", 66740>>,
    <<"OSAGE CAPITAL LETTER CHA", 66741>>, <<"OSAGE CAPITAL LETTER EHCHA", 66742>>,
    <<"OSAGE CAPITAL LETTER E", 66743>>, <<"OSAGE CAPITAL LETTER EIN", 66744>>,
    <<"OSAGE CAPITAL LETTER HA", 66745>>, <<"OSAGE CAPITAL LETTER HYA", 66746>>,
    <<"OSAGE CAPITAL LETTER I", 66747>>, <<"OSAGE CAPITAL LETTER KA", 66748>>,
    <<"OSAGE CAPITAL LETTER EHKA", 66749>>, <<"OSAGE CAPITAL LETTER KYA", 66750>>,
    <<"OSAGE CAPITAL LETTER LA", 66751>>, <<"OSAGE CAPITAL LETTER MA", 66752>>,
    <<"OSAGE CAPITAL LETTER NA", 66753>>, <<"OSAGE CAPITAL LETTER O", 66754>>,
    <<"OSAGE CAPITAL LETTER OIN", 66755>>, <<"OSAGE CAPITAL LETTER PA", 66756>>,
    <<"OSAGE CAPITAL LETTER EHPA", 66757>>, <<"OSAGE CAPITAL LETTER SA", 66758>>,
    <<"OSAGE CAPITAL LETTER SHA", 66759>>, <<"OSAGE CAPITAL LETTER TA", 66760>>,
    <<"OSAGE CAPITAL LETTER EHTA", 66761>>, <<"OSAGE CAPITAL LETTER TSA", 66762>>,
    <<"OSAGE CAPITAL LETTER EHTSA", 66763>>, <<"OSAGE CAPITAL LETTER TSHA", 66764>>,
    <<"OSAGE CAPITAL LETTER DHA", 66765>>, <<"OSAGE CAPITAL LETTER U", 66766>>,
    <<"OSAGE CAPITAL LETTER WA", 66767>>, <<"OSAGE CAPITAL LETTER KHA", 66768>>,
    <<"OSAGE CAPITAL LETTER GHA", 66769>>, <<"OSAGE CAPITAL LETTER ZA", 66770>>,
    <<"OSAGE CAPITAL LETTER ZHA", 66771>>, <<"OSAGE SMALL LETTER A", 66776>>,
    <<"OSAGE SMALL LETTER AI", 66777>>, <<"OSAGE SMALL LETTER AIN", 66778>>,
    <<"OSAGE SMALL LETTER AH", 66779>>, <<"OSAGE SMALL LETTER BRA", 66780>>,
    <<"OSAGE SMALL LETTER CHA", 66781>>, <<"OSAGE SMALL LETTER EHCHA", 66782>>,
    <<"OSAGE SMALL LETTER E", 66783>>, <<"OSAGE SMALL LETTER EIN", 66784>>,
    <<"OSAGE SMALL LETTER HA", 66785>>, <<"OSAGE SMALL LETTER HYA", 66786>>,
    <<"OSAGE SMALL LETTER I", 66787>>, <<"OSAGE SMALL LETTER KA", 66788>>,
    <<"OSAGE SMALL LETTER EHKA", 66789>>, <<"OSAGE SMALL LETTER KYA", 66790>>,
    <<"OSAGE SMALL LETTER LA", 66791>>, <<"OSAGE SMALL LETTER MA", 66792>>,
    <<"OSAGE SMALL LETTER NA", 66793>>, <<"OSAGE SMALL LETTER O", 66794>>,
    <<"OSAGE SMALL LETTER OIN", 66795>>, <<"OSAGE SMALL LETTER PA", 66796>>,
    <<"OSAGE SMALL LETTER EHPA", 66797>>, <<"OSAGE SMALL LETTER SA", 66798>>,
    <<"OSAGE SMALL LETTER SHA", 66799>>, <<"OSAGE SMALL LETTER TA", 66800>>,
    <<"OSAGE SMALL LETTER EHTA", 66801>>, <<"OSAGE SMALL LETTER TSA", 66802>>,
    <<"OSAGE SMALL LETTER EHTSA", 66803>>, <<"OSAGE SMALL LETTER TSHA", 66804>>,
    <<"OSAGE SMALL LETTER DHA", 66805>>, <<"OSAGE SMALL LETTER U", 66806>>,
    <<"OSAGE SMALL LETTER WA", 66807>>, <<"OSAGE SMALL LETTER KHA", 66808>>,
    <<"OSAGE SMALL LETTER GHA", 66809>>, <<"OSAGE SMALL LETTER ZA", 66810>>,
    <<"OSAGE SMALL LETTER ZHA", 66811>>, <<"ELBASAN LETTER A", 66816>>, <<"ELBASAN LETTER BE", 66817>>,
    <<"ELBASAN LETTER CE", 66818>>, <<"ELBASAN LETTER CHE", 66819>>, <<"ELBASAN LETTER DE", 66820>>,
    <<"ELBASAN LETTER NDE", 66821>>, <<"ELBASAN LETTER DHE", 66822>>, <<"ELBASAN LETTER EI", 66823>>,
    <<"ELBASAN LETTER E", 66824>>, <<"ELBASAN LETTER FE", 66825>>, <<"ELBASAN LETTER GE", 66826>>,
    <<"ELBASAN LETTER GJE", 66827>>, <<"ELBASAN LETTER HE", 66828>>, <<"ELBASAN LETTER I", 66829>>,
    <<"ELBASAN LETTER JE", 66830>>, <<"ELBASAN LETTER KE", 66831>>, <<"ELBASAN LETTER LE", 66832>>,
    <<"ELBASAN LETTER LLE", 66833>>, <<"ELBASAN LETTER ME", 66834>>, <<"ELBASAN LETTER NE", 66835>>,
    <<"ELBASAN LETTER NA", 66836>>, <<"ELBASAN LETTER NJE", 66837>>, <<"ELBASAN LETTER O", 66838>>,
    <<"ELBASAN LETTER PE", 66839>>, <<"ELBASAN LETTER QE", 66840>>, <<"ELBASAN LETTER RE", 66841>>,
    <<"ELBASAN LETTER RRE", 66842>>, <<"ELBASAN LETTER SE", 66843>>, <<"ELBASAN LETTER SHE", 66844>>,
    <<"ELBASAN LETTER TE", 66845>>, <<"ELBASAN LETTER THE", 66846>>, <<"ELBASAN LETTER U", 66847>>,
    <<"ELBASAN LETTER VE", 66848>>, <<"ELBASAN LETTER XE", 66849>>, <<"ELBASAN LETTER Y", 66850>>,
    <<"ELBASAN LETTER ZE", 66851>>, <<"ELBASAN LETTER ZHE", 66852>>, <<"ELBASAN LETTER GHE", 66853>>,
    <<"ELBASAN LETTER GHAMMA", 66854>>, <<"ELBASAN LETTER KHE", 66855>>,
    <<"CAUCASIAN ALBANIAN LETTER ALT", 66864>>, <<"CAUCASIAN ALBANIAN LETTER BET", 66865>>,
    <<"CAUCASIAN ALBANIAN LETTER GIM", 66866>>, <<"CAUCASIAN ALBANIAN LETTER DAT", 66867>>,
    <<"CAUCASIAN ALBANIAN LETTER EB", 66868>>, <<"CAUCASIAN ALBANIAN LETTER ZARL", 66869>>,
    <<"CAUCASIAN ALBANIAN LETTER EYN", 66870>>, <<"CAUCASIAN ALBANIAN LETTER ZHIL", 66871>>,
    <<"CAUCASIAN ALBANIAN LETTER TAS", 66872>>, <<"CAUCASIAN ALBANIAN LETTER CHA", 66873>>,
    <<"CAUCASIAN ALBANIAN LETTER YOWD", 66874>>, <<"CAUCASIAN ALBANIAN LETTER ZHA", 66875>>,
    <<"CAUCASIAN ALBANIAN LETTER IRB", 66876>>, <<"CAUCASIAN ALBANIAN LETTER SHA", 66877>>,
    <<"CAUCASIAN ALBANIAN LETTER LAN", 66878>>, <<"CAUCASIAN ALBANIAN LETTER INYA", 66879>>,
    <<"CAUCASIAN ALBANIAN LETTER XEYN", 66880>>, <<"CAUCASIAN ALBANIAN LETTER DYAN", 66881>>,
    <<"CAUCASIAN ALBANIAN LETTER CAR", 66882>>, <<"CAUCASIAN ALBANIAN LETTER JHOX", 66883>>,
    <<"CAUCASIAN ALBANIAN LETTER KAR", 66884>>, <<"CAUCASIAN ALBANIAN LETTER LYIT", 66885>>,
    <<"CAUCASIAN ALBANIAN LETTER HEYT", 66886>>, <<"CAUCASIAN ALBANIAN LETTER QAY", 66887>>,
    <<"CAUCASIAN ALBANIAN LETTER AOR", 66888>>, <<"CAUCASIAN ALBANIAN LETTER CHOY", 66889>>,
    <<"CAUCASIAN ALBANIAN LETTER CHI", 66890>>, <<"CAUCASIAN ALBANIAN LETTER CYAY", 66891>>,
    <<"CAUCASIAN ALBANIAN LETTER MAQ", 66892>>, <<"CAUCASIAN ALBANIAN LETTER QAR", 66893>>,
    <<"CAUCASIAN ALBANIAN LETTER NOWC", 66894>>, <<"CAUCASIAN ALBANIAN LETTER DZYAY", 66895>>,
    <<"CAUCASIAN ALBANIAN LETTER SHAK", 66896>>, <<"CAUCASIAN ALBANIAN LETTER JAYN", 66897>>,
    <<"CAUCASIAN ALBANIAN LETTER ON", 66898>>, <<"CAUCASIAN ALBANIAN LETTER TYAY", 66899>>,
    <<"CAUCASIAN ALBANIAN LETTER FAM", 66900>>, <<"CAUCASIAN ALBANIAN LETTER DZAY", 66901>>,
    <<"CAUCASIAN ALBANIAN LETTER CHAT", 66902>>, <<"CAUCASIAN ALBANIAN LETTER PEN", 66903>>,
    <<"CAUCASIAN ALBANIAN LETTER GHEYS", 66904>>, <<"CAUCASIAN ALBANIAN LETTER RAT", 66905>>,
    <<"CAUCASIAN ALBANIAN LETTER SEYK", 66906>>, <<"CAUCASIAN ALBANIAN LETTER VEYZ", 66907>>,
    <<"CAUCASIAN ALBANIAN LETTER TIWR", 66908>>, <<"CAUCASIAN ALBANIAN LETTER SHOY", 66909>>,
    <<"CAUCASIAN ALBANIAN LETTER IWN", 66910>>, <<"CAUCASIAN ALBANIAN LETTER CYAW", 66911>>,
    <<"CAUCASIAN ALBANIAN LETTER CAYN", 66912>>, <<"CAUCASIAN ALBANIAN LETTER YAYD", 66913>>,
    <<"CAUCASIAN ALBANIAN LETTER PIWR", 66914>>, <<"CAUCASIAN ALBANIAN LETTER KIW", 66915>>,
    <<"CAUCASIAN ALBANIAN CITATION MARK", 66927>>, <<"VITHKUQI CAPITAL LETTER A", 66928>>,
    <<"VITHKUQI CAPITAL LETTER BBE", 66929>>, <<"VITHKUQI CAPITAL LETTER BE", 66930>>,
    <<"VITHKUQI CAPITAL LETTER CE", 66931>>, <<"VITHKUQI CAPITAL LETTER CHE", 66932>>,
    <<"VITHKUQI CAPITAL LETTER DE", 66933>>, <<"VITHKUQI CAPITAL LETTER DHE", 66934>>,
    <<"VITHKUQI CAPITAL LETTER EI", 66935>>, <<"VITHKUQI CAPITAL LETTER E", 66936>>,
    <<"VITHKUQI CAPITAL LETTER FE", 66937>>, <<"VITHKUQI CAPITAL LETTER GA", 66938>>,
    <<"VITHKUQI CAPITAL LETTER HA", 66940>>, <<"VITHKUQI CAPITAL LETTER HHA", 66941>>,
    <<"VITHKUQI CAPITAL LETTER I", 66942>>, <<"VITHKUQI CAPITAL LETTER IJE", 66943>>,
    <<"VITHKUQI CAPITAL LETTER JE", 66944>>, <<"VITHKUQI CAPITAL LETTER KA", 66945>>,
    <<"VITHKUQI CAPITAL LETTER LA", 66946>>, <<"VITHKUQI CAPITAL LETTER LLA", 66947>>,
    <<"VITHKUQI CAPITAL LETTER ME", 66948>>, <<"VITHKUQI CAPITAL LETTER NE", 66949>>,
    <<"VITHKUQI CAPITAL LETTER NJE", 66950>>, <<"VITHKUQI CAPITAL LETTER O", 66951>>,
    <<"VITHKUQI CAPITAL LETTER PE", 66952>>, <<"VITHKUQI CAPITAL LETTER QA", 66953>>,
    <<"VITHKUQI CAPITAL LETTER RE", 66954>>, <<"VITHKUQI CAPITAL LETTER SE", 66956>>,
    <<"VITHKUQI CAPITAL LETTER SHE", 66957>>, <<"VITHKUQI CAPITAL LETTER TE", 66958>>,
    <<"VITHKUQI CAPITAL LETTER THE", 66959>>, <<"VITHKUQI CAPITAL LETTER U", 66960>>,
    <<"VITHKUQI CAPITAL LETTER VE", 66961>>, <<"VITHKUQI CAPITAL LETTER XE", 66962>>,
    <<"VITHKUQI CAPITAL LETTER Y", 66964>>, <<"VITHKUQI CAPITAL LETTER ZE", 66965>>,
    <<"VITHKUQI SMALL LETTER A", 66967>>, <<"VITHKUQI SMALL LETTER BBE", 66968>>,
    <<"VITHKUQI SMALL LETTER BE", 66969>>, <<"VITHKUQI SMALL LETTER CE", 66970>>,
    <<"VITHKUQI SMALL LETTER CHE", 66971>>, <<"VITHKUQI SMALL LETTER DE", 66972>>,
    <<"VITHKUQI SMALL LETTER DHE", 66973>>, <<"VITHKUQI SMALL LETTER EI", 66974>>,
    <<"VITHKUQI SMALL LETTER E", 66975>>, <<"VITHKUQI SMALL LETTER FE", 66976>>,
    <<"VITHKUQI SMALL LETTER GA", 66977>>, <<"VITHKUQI SMALL LETTER HA", 66979>>,
    <<"VITHKUQI SMALL LETTER HHA", 66980>>, <<"VITHKUQI SMALL LETTER I", 66981>>,
    <<"VITHKUQI SMALL LETTER IJE", 66982>>, <<"VITHKUQI SMALL LETTER JE", 66983>>,
    <<"VITHKUQI SMALL LETTER KA", 66984>>, <<"VITHKUQI SMALL LETTER LA", 66985>>,
    <<"VITHKUQI SMALL LETTER LLA", 66986>>, <<"VITHKUQI SMALL LETTER ME", 66987>>,
    <<"VITHKUQI SMALL LETTER NE", 66988>>, <<"VITHKUQI SMALL LETTER NJE", 66989>>,
    <<"VITHKUQI SMALL LETTER O", 66990>>, <<"VITHKUQI SMALL LETTER PE", 66991>>,
    <<"VITHKUQI SMALL LETTER QA", 66992>>, <<"VITHKUQI SMALL LETTER RE", 66993>>,
    <<"VITHKUQI SMALL LETTER SE", 66995>>, <<"VITHKUQI SMALL LETTER SHE", 66996>>,
    <<"VITHKUQI SMALL LETTER TE", 66997>>, <<"VITHKUQI SMALL LETTER THE", 66998>>,
    <<"VITHKUQI SMALL LETTER U", 66999>>, <<"VITHKUQI SMALL LETTER VE", 67000>>,
    <<"VITHKUQI SMALL LETTER XE", 67001>>, <<"VITHKUQI SMALL LETTER Y", 67003>>,
    <<"VITHKUQI SMALL LETTER ZE", 67004>>, <<"LINEAR A SIGN AB001", 67072>>,
    <<"LINEAR A SIGN AB002", 67073>>, <<"LINEAR A SIGN AB003", 67074>>,
    <<"LINEAR A SIGN AB004", 67075>>, <<"LINEAR A SIGN AB005", 67076>>,
    <<"LINEAR A SIGN AB006", 67077>>, <<"LINEAR A SIGN AB007", 67078>>,
    <<"LINEAR A SIGN AB008", 67079>>, <<"LINEAR A SIGN AB009", 67080>>,
    <<"LINEAR A SIGN AB010", 67081>>, <<"LINEAR A SIGN AB011", 67082>>,
    <<"LINEAR A SIGN AB013", 67083>>, <<"LINEAR A SIGN AB016", 67084>>,
    <<"LINEAR A SIGN AB017", 67085>>, <<"LINEAR A SIGN AB020", 67086>>,
    <<"LINEAR A SIGN AB021", 67087>>, <<"LINEAR A SIGN AB021F", 67088>>,
    <<"LINEAR A SIGN AB021M", 67089>>, <<"LINEAR A SIGN AB022", 67090>>,
    <<"LINEAR A SIGN AB022F", 67091>>, <<"LINEAR A SIGN AB022M", 67092>>,
    <<"LINEAR A SIGN AB023", 67093>>, <<"LINEAR A SIGN AB023M", 67094>>,
    <<"LINEAR A SIGN AB024", 67095>>, <<"LINEAR A SIGN AB026", 67096>>,
    <<"LINEAR A SIGN AB027", 67097>>, <<"LINEAR A SIGN AB028", 67098>>,
    <<"LINEAR A SIGN A028B", 67099>>, <<"LINEAR A SIGN AB029", 67100>>,
    <<"LINEAR A SIGN AB030", 67101>>, <<"LINEAR A SIGN AB031", 67102>>,
    <<"LINEAR A SIGN AB034", 67103>>, <<"LINEAR A SIGN AB037", 67104>>,
    <<"LINEAR A SIGN AB038", 67105>>, <<"LINEAR A SIGN AB039", 67106>>,
    <<"LINEAR A SIGN AB040", 67107>>, <<"LINEAR A SIGN AB041", 67108>>,
    <<"LINEAR A SIGN AB044", 67109>>, <<"LINEAR A SIGN AB045", 67110>>,
    <<"LINEAR A SIGN AB046", 67111>>, <<"LINEAR A SIGN AB047", 67112>>,
    <<"LINEAR A SIGN AB048", 67113>>, <<"LINEAR A SIGN AB049", 67114>>,
    <<"LINEAR A SIGN AB050", 67115>>, <<"LINEAR A SIGN AB051", 67116>>,
    <<"LINEAR A SIGN AB053", 67117>>, <<"LINEAR A SIGN AB054", 67118>>,
    <<"LINEAR A SIGN AB055", 67119>>, <<"LINEAR A SIGN AB056", 67120>>,
    <<"LINEAR A SIGN AB057", 67121>>, <<"LINEAR A SIGN AB058", 67122>>,
    <<"LINEAR A SIGN AB059", 67123>>, <<"LINEAR A SIGN AB060", 67124>>,
    <<"LINEAR A SIGN AB061", 67125>>, <<"LINEAR A SIGN AB065", 67126>>,
    <<"LINEAR A SIGN AB066", 67127>>, <<"LINEAR A SIGN AB067", 67128>>,
    <<"LINEAR A SIGN AB069", 67129>>, <<"LINEAR A SIGN AB070", 67130>>,
    <<"LINEAR A SIGN AB073", 67131>>, <<"LINEAR A SIGN AB074", 67132>>,
    <<"LINEAR A SIGN AB076", 67133>>, <<"LINEAR A SIGN AB077", 67134>>,
    <<"LINEAR A SIGN AB078", 67135>>, <<"LINEAR A SIGN AB079", 67136>>,
    <<"LINEAR A SIGN AB080", 67137>>, <<"LINEAR A SIGN AB081", 67138>>,
    <<"LINEAR A SIGN AB082", 67139>>, <<"LINEAR A SIGN AB085", 67140>>,
    <<"LINEAR A SIGN AB086", 67141>>, <<"LINEAR A SIGN AB087", 67142>>,
    <<"LINEAR A SIGN A100-102", 67143>>, <<"LINEAR A SIGN AB118", 67144>>,
    <<"LINEAR A SIGN AB120", 67145>>, <<"LINEAR A SIGN A120B", 67146>>,
    <<"LINEAR A SIGN AB122", 67147>>, <<"LINEAR A SIGN AB123", 67148>>,
    <<"LINEAR A SIGN AB131A", 67149>>, <<"LINEAR A SIGN AB131B", 67150>>,
    <<"LINEAR A SIGN A131C", 67151>>, <<"LINEAR A SIGN AB164", 67152>>,
    <<"LINEAR A SIGN AB171", 67153>>, <<"LINEAR A SIGN AB180", 67154>>,
    <<"LINEAR A SIGN AB188", 67155>>, <<"LINEAR A SIGN AB191", 67156>>,
    <<"LINEAR A SIGN A301", 67157>>, <<"LINEAR A SIGN A302", 67158>>, <<"LINEAR A SIGN A303", 67159>>,
    <<"LINEAR A SIGN A304", 67160>>, <<"LINEAR A SIGN A305", 67161>>, <<"LINEAR A SIGN A306", 67162>>,
    <<"LINEAR A SIGN A307", 67163>>, <<"LINEAR A SIGN A308", 67164>>, <<"LINEAR A SIGN A309A", 67165>>,
    <<"LINEAR A SIGN A309B", 67166>>, <<"LINEAR A SIGN A309C", 67167>>,
    <<"LINEAR A SIGN A310", 67168>>, <<"LINEAR A SIGN A311", 67169>>, <<"LINEAR A SIGN A312", 67170>>,
    <<"LINEAR A SIGN A313A", 67171>>, <<"LINEAR A SIGN A313B", 67172>>,
    <<"LINEAR A SIGN A313C", 67173>>, <<"LINEAR A SIGN A314", 67174>>, <<"LINEAR A SIGN A315", 67175>>,
    <<"LINEAR A SIGN A316", 67176>>, <<"LINEAR A SIGN A317", 67177>>, <<"LINEAR A SIGN A318", 67178>>,
    <<"LINEAR A SIGN A319", 67179>>, <<"LINEAR A SIGN A320", 67180>>, <<"LINEAR A SIGN A321", 67181>>,
    <<"LINEAR A SIGN A322", 67182>>, <<"LINEAR A SIGN A323", 67183>>, <<"LINEAR A SIGN A324", 67184>>,
    <<"LINEAR A SIGN A325", 67185>>, <<"LINEAR A SIGN A326", 67186>>, <<"LINEAR A SIGN A327", 67187>>,
    <<"LINEAR A SIGN A328", 67188>>, <<"LINEAR A SIGN A329", 67189>>, <<"LINEAR A SIGN A330", 67190>>,
    <<"LINEAR A SIGN A331", 67191>>, <<"LINEAR A SIGN A332", 67192>>, <<"LINEAR A SIGN A333", 67193>>,
    <<"LINEAR A SIGN A334", 67194>>, <<"LINEAR A SIGN A335", 67195>>, <<"LINEAR A SIGN A336", 67196>>,
    <<"LINEAR A SIGN A337", 67197>>, <<"LINEAR A SIGN A338", 67198>>, <<"LINEAR A SIGN A339", 67199>>,
    <<"LINEAR A SIGN A340", 67200>>, <<"LINEAR A SIGN A341", 67201>>, <<"LINEAR A SIGN A342", 67202>>,
    <<"LINEAR A SIGN A343", 67203>>, <<"LINEAR A SIGN A344", 67204>>, <<"LINEAR A SIGN A345", 67205>>,
    <<"LINEAR A SIGN A346", 67206>>, <<"LINEAR A SIGN A347", 67207>>, <<"LINEAR A SIGN A348", 67208>>,
    <<"LINEAR A SIGN A349", 67209>>, <<"LINEAR A SIGN A350", 67210>>, <<"LINEAR A SIGN A351", 67211>>,
    <<"LINEAR A SIGN A352", 67212>>, <<"LINEAR A SIGN A353", 67213>>, <<"LINEAR A SIGN A354", 67214>>,
    <<"LINEAR A SIGN A355", 67215>>, <<"LINEAR A SIGN A356", 67216>>, <<"LINEAR A SIGN A357", 67217>>,
    <<"LINEAR A SIGN A358", 67218>>, <<"LINEAR A SIGN A359", 67219>>, <<"LINEAR A SIGN A360", 67220>>,
    <<"LINEAR A SIGN A361", 67221>>, <<"LINEAR A SIGN A362", 67222>>, <<"LINEAR A SIGN A363", 67223>>,
    <<"LINEAR A SIGN A364", 67224>>, <<"LINEAR A SIGN A365", 67225>>, <<"LINEAR A SIGN A366", 67226>>,
    <<"LINEAR A SIGN A367", 67227>>, <<"LINEAR A SIGN A368", 67228>>, <<"LINEAR A SIGN A369", 67229>>,
    <<"LINEAR A SIGN A370", 67230>>, <<"LINEAR A SIGN A371", 67231>>,
    <<"LINEAR A SIGN A400-VAS", 67232>>, <<"LINEAR A SIGN A401-VAS", 67233>>,
    <<"LINEAR A SIGN A402-VAS", 67234>>, <<"LINEAR A SIGN A403-VAS", 67235>>,
    <<"LINEAR A SIGN A404-VAS", 67236>>, <<"LINEAR A SIGN A405-VAS", 67237>>,
    <<"LINEAR A SIGN A406-VAS", 67238>>, <<"LINEAR A SIGN A407-VAS", 67239>>,
    <<"LINEAR A SIGN A408-VAS", 67240>>, <<"LINEAR A SIGN A409-VAS", 67241>>,
    <<"LINEAR A SIGN A410-VAS", 67242>>, <<"LINEAR A SIGN A411-VAS", 67243>>,
    <<"LINEAR A SIGN A412-VAS", 67244>>, <<"LINEAR A SIGN A413-VAS", 67245>>,
    <<"LINEAR A SIGN A414-VAS", 67246>>, <<"LINEAR A SIGN A415-VAS", 67247>>,
    <<"LINEAR A SIGN A416-VAS", 67248>>, <<"LINEAR A SIGN A417-VAS", 67249>>,
    <<"LINEAR A SIGN A418-VAS", 67250>>, <<"LINEAR A SIGN A501", 67251>>,
    <<"LINEAR A SIGN A502", 67252>>, <<"LINEAR A SIGN A503", 67253>>, <<"LINEAR A SIGN A504", 67254>>,
    <<"LINEAR A SIGN A505", 67255>>, <<"LINEAR A SIGN A506", 67256>>, <<"LINEAR A SIGN A508", 67257>>,
    <<"LINEAR A SIGN A509", 67258>>, <<"LINEAR A SIGN A510", 67259>>, <<"LINEAR A SIGN A511", 67260>>,
    <<"LINEAR A SIGN A512", 67261>>, <<"LINEAR A SIGN A513", 67262>>, <<"LINEAR A SIGN A515", 67263>>,
    <<"LINEAR A SIGN A516", 67264>>, <<"LINEAR A SIGN A520", 67265>>, <<"LINEAR A SIGN A521", 67266>>,
    <<"LINEAR A SIGN A523", 67267>>, <<"LINEAR A SIGN A524", 67268>>, <<"LINEAR A SIGN A525", 67269>>,
    <<"LINEAR A SIGN A526", 67270>>, <<"LINEAR A SIGN A527", 67271>>, <<"LINEAR A SIGN A528", 67272>>,
    <<"LINEAR A SIGN A529", 67273>>, <<"LINEAR A SIGN A530", 67274>>, <<"LINEAR A SIGN A531", 67275>>,
    <<"LINEAR A SIGN A532", 67276>>, <<"LINEAR A SIGN A534", 67277>>, <<"LINEAR A SIGN A535", 67278>>,
    <<"LINEAR A SIGN A536", 67279>>, <<"LINEAR A SIGN A537", 67280>>, <<"LINEAR A SIGN A538", 67281>>,
    <<"LINEAR A SIGN A539", 67282>>, <<"LINEAR A SIGN A540", 67283>>, <<"LINEAR A SIGN A541", 67284>>,
    <<"LINEAR A SIGN A542", 67285>>, <<"LINEAR A SIGN A545", 67286>>, <<"LINEAR A SIGN A547", 67287>>,
    <<"LINEAR A SIGN A548", 67288>>, <<"LINEAR A SIGN A549", 67289>>, <<"LINEAR A SIGN A550", 67290>>,
    <<"LINEAR A SIGN A551", 67291>>, <<"LINEAR A SIGN A552", 67292>>, <<"LINEAR A SIGN A553", 67293>>,
    <<"LINEAR A SIGN A554", 67294>>, <<"LINEAR A SIGN A555", 67295>>, <<"LINEAR A SIGN A556", 67296>>,
    <<"LINEAR A SIGN A557", 67297>>, <<"LINEAR A SIGN A559", 67298>>, <<"LINEAR A SIGN A563", 67299>>,
    <<"LINEAR A SIGN A564", 67300>>, <<"LINEAR A SIGN A565", 67301>>, <<"LINEAR A SIGN A566", 67302>>,
    <<"LINEAR A SIGN A568", 67303>>, <<"LINEAR A SIGN A569", 67304>>, <<"LINEAR A SIGN A570", 67305>>,
    <<"LINEAR A SIGN A571", 67306>>, <<"LINEAR A SIGN A572", 67307>>, <<"LINEAR A SIGN A573", 67308>>,
    <<"LINEAR A SIGN A574", 67309>>, <<"LINEAR A SIGN A575", 67310>>, <<"LINEAR A SIGN A576", 67311>>,
    <<"LINEAR A SIGN A577", 67312>>, <<"LINEAR A SIGN A578", 67313>>, <<"LINEAR A SIGN A579", 67314>>,
    <<"LINEAR A SIGN A580", 67315>>, <<"LINEAR A SIGN A581", 67316>>, <<"LINEAR A SIGN A582", 67317>>,
    <<"LINEAR A SIGN A583", 67318>>, <<"LINEAR A SIGN A584", 67319>>, <<"LINEAR A SIGN A585", 67320>>,
    <<"LINEAR A SIGN A586", 67321>>, <<"LINEAR A SIGN A587", 67322>>, <<"LINEAR A SIGN A588", 67323>>,
    <<"LINEAR A SIGN A589", 67324>>, <<"LINEAR A SIGN A591", 67325>>, <<"LINEAR A SIGN A592", 67326>>,
    <<"LINEAR A SIGN A594", 67327>>, <<"LINEAR A SIGN A595", 67328>>, <<"LINEAR A SIGN A596", 67329>>,
    <<"LINEAR A SIGN A598", 67330>>, <<"LINEAR A SIGN A600", 67331>>, <<"LINEAR A SIGN A601", 67332>>,
    <<"LINEAR A SIGN A602", 67333>>, <<"LINEAR A SIGN A603", 67334>>, <<"LINEAR A SIGN A604", 67335>>,
    <<"LINEAR A SIGN A606", 67336>>, <<"LINEAR A SIGN A608", 67337>>, <<"LINEAR A SIGN A609", 67338>>,
    <<"LINEAR A SIGN A610", 67339>>, <<"LINEAR A SIGN A611", 67340>>, <<"LINEAR A SIGN A612", 67341>>,
    <<"LINEAR A SIGN A613", 67342>>, <<"LINEAR A SIGN A614", 67343>>, <<"LINEAR A SIGN A615", 67344>>,
    <<"LINEAR A SIGN A616", 67345>>, <<"LINEAR A SIGN A617", 67346>>, <<"LINEAR A SIGN A618", 67347>>,
    <<"LINEAR A SIGN A619", 67348>>, <<"LINEAR A SIGN A620", 67349>>, <<"LINEAR A SIGN A621", 67350>>,
    <<"LINEAR A SIGN A622", 67351>>, <<"LINEAR A SIGN A623", 67352>>, <<"LINEAR A SIGN A624", 67353>>,
    <<"LINEAR A SIGN A626", 67354>>, <<"LINEAR A SIGN A627", 67355>>, <<"LINEAR A SIGN A628", 67356>>,
    <<"LINEAR A SIGN A629", 67357>>, <<"LINEAR A SIGN A634", 67358>>, <<"LINEAR A SIGN A637", 67359>>,
    <<"LINEAR A SIGN A638", 67360>>, <<"LINEAR A SIGN A640", 67361>>, <<"LINEAR A SIGN A642", 67362>>,
    <<"LINEAR A SIGN A643", 67363>>, <<"LINEAR A SIGN A644", 67364>>, <<"LINEAR A SIGN A645", 67365>>,
    <<"LINEAR A SIGN A646", 67366>>, <<"LINEAR A SIGN A648", 67367>>, <<"LINEAR A SIGN A649", 67368>>,
    <<"LINEAR A SIGN A651", 67369>>, <<"LINEAR A SIGN A652", 67370>>, <<"LINEAR A SIGN A653", 67371>>,
    <<"LINEAR A SIGN A654", 67372>>, <<"LINEAR A SIGN A655", 67373>>, <<"LINEAR A SIGN A656", 67374>>,
    <<"LINEAR A SIGN A657", 67375>>, <<"LINEAR A SIGN A658", 67376>>, <<"LINEAR A SIGN A659", 67377>>,
    <<"LINEAR A SIGN A660", 67378>>, <<"LINEAR A SIGN A661", 67379>>, <<"LINEAR A SIGN A662", 67380>>,
    <<"LINEAR A SIGN A663", 67381>>, <<"LINEAR A SIGN A664", 67382>>,
    <<"LINEAR A SIGN A701 A", 67392>>, <<"LINEAR A SIGN A702 B", 67393>>,
    <<"LINEAR A SIGN A703 D", 67394>>, <<"LINEAR A SIGN A704 E", 67395>>,
    <<"LINEAR A SIGN A705 F", 67396>>, <<"LINEAR A SIGN A706 H", 67397>>,
    <<"LINEAR A SIGN A707 J", 67398>>, <<"LINEAR A SIGN A708 K", 67399>>,
    <<"LINEAR A SIGN A709 L", 67400>>, <<"LINEAR A SIGN A709-2 L2", 67401>>,
    <<"LINEAR A SIGN A709-3 L3", 67402>>, <<"LINEAR A SIGN A709-4 L4", 67403>>,
    <<"LINEAR A SIGN A709-6 L6", 67404>>, <<"LINEAR A SIGN A710 W", 67405>>,
    <<"LINEAR A SIGN A711 X", 67406>>, <<"LINEAR A SIGN A712 Y", 67407>>,
    <<"LINEAR A SIGN A713 OMEGA", 67408>>, <<"LINEAR A SIGN A714 ABB", 67409>>,
    <<"LINEAR A SIGN A715 BB", 67410>>, <<"LINEAR A SIGN A717 DD", 67411>>,
    <<"LINEAR A SIGN A726 EYYY", 67412>>, <<"LINEAR A SIGN A732 JE", 67413>>,
    <<"LINEAR A SIGN A800", 67424>>, <<"LINEAR A SIGN A801", 67425>>, <<"LINEAR A SIGN A802", 67426>>,
    <<"LINEAR A SIGN A803", 67427>>, <<"LINEAR A SIGN A804", 67428>>, <<"LINEAR A SIGN A805", 67429>>,
    <<"LINEAR A SIGN A806", 67430>>, <<"LINEAR A SIGN A807", 67431>>,
    <<"MODIFIER LETTER SMALL CAPITAL AA", 67456>>,
    <<"MODIFIER LETTER SUPERSCRIPT TRIANGULAR COLON", 67457>>,
    <<"MODIFIER LETTER SUPERSCRIPT HALF TRIANGULAR COLON", 67458>>,
    <<"MODIFIER LETTER SMALL AE", 67459>>, <<"MODIFIER LETTER SMALL CAPITAL B", 67460>>,
    <<"MODIFIER LETTER SMALL B WITH HOOK", 67461>>, <<"MODIFIER LETTER SMALL DZ DIGRAPH", 67463>>,
    <<"MODIFIER LETTER SMALL DZ DIGRAPH WITH RETROFLEX HOOK", 67464>>,
    <<"MODIFIER LETTER SMALL DZ DIGRAPH WITH CURL", 67465>>,
    <<"MODIFIER LETTER SMALL DEZH DIGRAPH", 67466>>, <<"MODIFIER LETTER SMALL D WITH TAIL", 67467>>,
    <<"MODIFIER LETTER SMALL D WITH HOOK", 67468>>,
    <<"MODIFIER LETTER SMALL D WITH HOOK AND TAIL", 67469>>,
    <<"MODIFIER LETTER SMALL REVERSED E", 67470>>,
    <<"MODIFIER LETTER SMALL CLOSED REVERSED OPEN E", 67471>>,
    <<"MODIFIER LETTER SMALL FENG DIGRAPH", 67472>>, <<"MODIFIER LETTER SMALL RAMS HORN", 67473>>,
    <<"MODIFIER LETTER SMALL CAPITAL G", 67474>>, <<"MODIFIER LETTER SMALL G WITH HOOK", 67475>>,
    <<"MODIFIER LETTER SMALL CAPITAL G WITH HOOK", 67476>>,
    <<"MODIFIER LETTER SMALL H WITH STROKE", 67477>>, <<"MODIFIER LETTER SMALL CAPITAL H", 67478>>,
    <<"MODIFIER LETTER SMALL HENG WITH HOOK", 67479>>,
    <<"MODIFIER LETTER SMALL DOTLESS J WITH STROKE AND HOOK", 67480>>,
    <<"MODIFIER LETTER SMALL LS DIGRAPH", 67481>>, <<"MODIFIER LETTER SMALL LZ DIGRAPH", 67482>>,
    <<"MODIFIER LETTER SMALL L WITH BELT", 67483>>,
    <<"MODIFIER LETTER SMALL CAPITAL L WITH BELT", 67484>>,
    <<"MODIFIER LETTER SMALL L WITH RETROFLEX HOOK AND BELT", 67485>>,
    <<"MODIFIER LETTER SMALL LEZH", 67486>>,
    <<"MODIFIER LETTER SMALL LEZH WITH RETROFLEX HOOK", 67487>>,
    <<"MODIFIER LETTER SMALL TURNED Y", 67488>>, <<"MODIFIER LETTER SMALL TURNED Y WITH BELT", 67489>>,
    <<"MODIFIER LETTER SMALL O WITH STROKE", 67490>>, <<"MODIFIER LETTER SMALL CAPITAL OE", 67491>>,
    <<"MODIFIER LETTER SMALL CLOSED OMEGA", 67492>>, <<"MODIFIER LETTER SMALL Q", 67493>>,
    <<"MODIFIER LETTER SMALL TURNED R WITH LONG LEG", 67494>>,
    <<"MODIFIER LETTER SMALL TURNED R WITH LONG LEG AND RETROFLEX HOOK", 67495>>,
    <<"MODIFIER LETTER SMALL R WITH TAIL", 67496>>, <<"MODIFIER LETTER SMALL R WITH FISHHOOK", 67497>>,
    <<"MODIFIER LETTER SMALL CAPITAL R", 67498>>,
    <<"MODIFIER LETTER SMALL TC DIGRAPH WITH CURL", 67499>>,
    <<"MODIFIER LETTER SMALL TS DIGRAPH", 67500>>,
    <<"MODIFIER LETTER SMALL TS DIGRAPH WITH RETROFLEX HOOK", 67501>>,
    <<"MODIFIER LETTER SMALL TESH DIGRAPH", 67502>>,
    <<"MODIFIER LETTER SMALL T WITH RETROFLEX HOOK", 67503>>,
    <<"MODIFIER LETTER SMALL V WITH RIGHT HOOK", 67504>>, <<"MODIFIER LETTER SMALL CAPITAL Y", 67506>>,
    <<"MODIFIER LETTER GLOTTAL STOP WITH STROKE", 67507>>,
    <<"MODIFIER LETTER REVERSED GLOTTAL STOP WITH STROKE", 67508>>,
    <<"MODIFIER LETTER BILABIAL CLICK", 67509>>, <<"MODIFIER LETTER DENTAL CLICK", 67510>>,
    <<"MODIFIER LETTER LATERAL CLICK", 67511>>, <<"MODIFIER LETTER ALVEOLAR CLICK", 67512>>,
    <<"MODIFIER LETTER RETROFLEX CLICK WITH RETROFLEX HOOK", 67513>>,
    <<"MODIFIER LETTER SMALL S WITH CURL", 67514>>, <<"CYPRIOT SYLLABLE A", 67584>>,
    <<"CYPRIOT SYLLABLE E", 67585>>, <<"CYPRIOT SYLLABLE I", 67586>>, <<"CYPRIOT SYLLABLE O", 67587>>,
    <<"CYPRIOT SYLLABLE U", 67588>>, <<"CYPRIOT SYLLABLE JA", 67589>>,
    <<"CYPRIOT SYLLABLE JO", 67592>>, <<"CYPRIOT SYLLABLE KA", 67594>>,
    <<"CYPRIOT SYLLABLE KE", 67595>>, <<"CYPRIOT SYLLABLE KI", 67596>>,
    <<"CYPRIOT SYLLABLE KO", 67597>>, <<"CYPRIOT SYLLABLE KU", 67598>>,
    <<"CYPRIOT SYLLABLE LA", 67599>>, <<"CYPRIOT SYLLABLE LE", 67600>>,
    <<"CYPRIOT SYLLABLE LI", 67601>>, <<"CYPRIOT SYLLABLE LO", 67602>>,
    <<"CYPRIOT SYLLABLE LU", 67603>>, <<"CYPRIOT SYLLABLE MA", 67604>>,
    <<"CYPRIOT SYLLABLE ME", 67605>>, <<"CYPRIOT SYLLABLE MI", 67606>>,
    <<"CYPRIOT SYLLABLE MO", 67607>>, <<"CYPRIOT SYLLABLE MU", 67608>>,
    <<"CYPRIOT SYLLABLE NA", 67609>>, <<"CYPRIOT SYLLABLE NE", 67610>>,
    <<"CYPRIOT SYLLABLE NI", 67611>>, <<"CYPRIOT SYLLABLE NO", 67612>>,
    <<"CYPRIOT SYLLABLE NU", 67613>>, <<"CYPRIOT SYLLABLE PA", 67614>>,
    <<"CYPRIOT SYLLABLE PE", 67615>>, <<"CYPRIOT SYLLABLE PI", 67616>>,
    <<"CYPRIOT SYLLABLE PO", 67617>>, <<"CYPRIOT SYLLABLE PU", 67618>>,
    <<"CYPRIOT SYLLABLE RA", 67619>>, <<"CYPRIOT SYLLABLE RE", 67620>>,
    <<"CYPRIOT SYLLABLE RI", 67621>>, <<"CYPRIOT SYLLABLE RO", 67622>>,
    <<"CYPRIOT SYLLABLE RU", 67623>>, <<"CYPRIOT SYLLABLE SA", 67624>>,
    <<"CYPRIOT SYLLABLE SE", 67625>>, <<"CYPRIOT SYLLABLE SI", 67626>>,
    <<"CYPRIOT SYLLABLE SO", 67627>>, <<"CYPRIOT SYLLABLE SU", 67628>>,
    <<"CYPRIOT SYLLABLE TA", 67629>>, <<"CYPRIOT SYLLABLE TE", 67630>>,
    <<"CYPRIOT SYLLABLE TI", 67631>>, <<"CYPRIOT SYLLABLE TO", 67632>>,
    <<"CYPRIOT SYLLABLE TU", 67633>>, <<"CYPRIOT SYLLABLE WA", 67634>>,
    <<"CYPRIOT SYLLABLE WE", 67635>>, <<"CYPRIOT SYLLABLE WI", 67636>>,
    <<"CYPRIOT SYLLABLE WO", 67637>>, <<"CYPRIOT SYLLABLE XA", 67639>>,
    <<"CYPRIOT SYLLABLE XE", 67640>>, <<"CYPRIOT SYLLABLE ZA", 67644>>,
    <<"CYPRIOT SYLLABLE ZO", 67647>>, <<"IMPERIAL ARAMAIC LETTER ALEPH", 67648>>,
    <<"IMPERIAL ARAMAIC LETTER BETH", 67649>>, <<"IMPERIAL ARAMAIC LETTER GIMEL", 67650>>,
    <<"IMPERIAL ARAMAIC LETTER DALETH", 67651>>, <<"IMPERIAL ARAMAIC LETTER HE", 67652>>,
    <<"IMPERIAL ARAMAIC LETTER WAW", 67653>>, <<"IMPERIAL ARAMAIC LETTER ZAYIN", 67654>>,
    <<"IMPERIAL ARAMAIC LETTER HETH", 67655>>, <<"IMPERIAL ARAMAIC LETTER TETH", 67656>>,
    <<"IMPERIAL ARAMAIC LETTER YODH", 67657>>, <<"IMPERIAL ARAMAIC LETTER KAPH", 67658>>,
    <<"IMPERIAL ARAMAIC LETTER LAMEDH", 67659>>, <<"IMPERIAL ARAMAIC LETTER MEM", 67660>>,
    <<"IMPERIAL ARAMAIC LETTER NUN", 67661>>, <<"IMPERIAL ARAMAIC LETTER SAMEKH", 67662>>,
    <<"IMPERIAL ARAMAIC LETTER AYIN", 67663>>, <<"IMPERIAL ARAMAIC LETTER PE", 67664>>,
    <<"IMPERIAL ARAMAIC LETTER SADHE", 67665>>, <<"IMPERIAL ARAMAIC LETTER QOPH", 67666>>,
    <<"IMPERIAL ARAMAIC LETTER RESH", 67667>>, <<"IMPERIAL ARAMAIC LETTER SHIN", 67668>>,
    <<"IMPERIAL ARAMAIC LETTER TAW", 67669>>, <<"IMPERIAL ARAMAIC SECTION SIGN", 67671>>,
    <<"IMPERIAL ARAMAIC NUMBER ONE", 67672>>, <<"IMPERIAL ARAMAIC NUMBER TWO", 67673>>,
    <<"IMPERIAL ARAMAIC NUMBER THREE", 67674>>, <<"IMPERIAL ARAMAIC NUMBER TEN", 67675>>,
    <<"IMPERIAL ARAMAIC NUMBER TWENTY", 67676>>, <<"IMPERIAL ARAMAIC NUMBER ONE HUNDRED", 67677>>,
    <<"IMPERIAL ARAMAIC NUMBER ONE THOUSAND", 67678>>,
    <<"IMPERIAL ARAMAIC NUMBER TEN THOUSAND", 67679>>, <<"PALMYRENE LETTER ALEPH", 67680>>,
    <<"PALMYRENE LETTER BETH", 67681>>, <<"PALMYRENE LETTER GIMEL", 67682>>,
    <<"PALMYRENE LETTER DALETH", 67683>>, <<"PALMYRENE LETTER HE", 67684>>,
    <<"PALMYRENE LETTER WAW", 67685>>, <<"PALMYRENE LETTER ZAYIN", 67686>>,
    <<"PALMYRENE LETTER HETH", 67687>>, <<"PALMYRENE LETTER TETH", 67688>>,
    <<"PALMYRENE LETTER YODH", 67689>>, <<"PALMYRENE LETTER KAPH", 67690>>,
    <<"PALMYRENE LETTER LAMEDH", 67691>>, <<"PALMYRENE LETTER MEM", 67692>>,
    <<"PALMYRENE LETTER FINAL NUN", 67693>>, <<"PALMYRENE LETTER NUN", 67694>>,
    <<"PALMYRENE LETTER SAMEKH", 67695>>, <<"PALMYRENE LETTER AYIN", 67696>>,
    <<"PALMYRENE LETTER PE", 67697>>, <<"PALMYRENE LETTER SADHE", 67698>>,
    <<"PALMYRENE LETTER QOPH", 67699>>, <<"PALMYRENE LETTER RESH", 67700>>,
    <<"PALMYRENE LETTER SHIN", 67701>>, <<"PALMYRENE LETTER TAW", 67702>>,
    <<"PALMYRENE LEFT-POINTING FLEURON", 67703>>, <<"PALMYRENE RIGHT-POINTING FLEURON", 67704>>,
    <<"PALMYRENE NUMBER ONE", 67705>>, <<"PALMYRENE NUMBER TWO", 67706>>,
    <<"PALMYRENE NUMBER THREE", 67707>>, <<"PALMYRENE NUMBER FOUR", 67708>>,
    <<"PALMYRENE NUMBER FIVE", 67709>>, <<"PALMYRENE NUMBER TEN", 67710>>,
    <<"PALMYRENE NUMBER TWENTY", 67711>>, <<"NABATAEAN LETTER FINAL ALEPH", 67712>>,
    <<"NABATAEAN LETTER ALEPH", 67713>>, <<"NABATAEAN LETTER FINAL BETH", 67714>>,
    <<"NABATAEAN LETTER BETH", 67715>>, <<"NABATAEAN LETTER GIMEL", 67716>>,
    <<"NABATAEAN LETTER DALETH", 67717>>, <<"NABATAEAN LETTER FINAL HE", 67718>>,
    <<"NABATAEAN LETTER HE", 67719>>, <<"NABATAEAN LETTER WAW", 67720>>,
    <<"NABATAEAN LETTER ZAYIN", 67721>>, <<"NABATAEAN LETTER HETH", 67722>>,
    <<"NABATAEAN LETTER TETH", 67723>>, <<"NABATAEAN LETTER FINAL YODH", 67724>>,
    <<"NABATAEAN LETTER YODH", 67725>>, <<"NABATAEAN LETTER FINAL KAPH", 67726>>,
    <<"NABATAEAN LETTER KAPH", 67727>>, <<"NABATAEAN LETTER FINAL LAMEDH", 67728>>,
    <<"NABATAEAN LETTER LAMEDH", 67729>>, <<"NABATAEAN LETTER FINAL MEM", 67730>>,
    <<"NABATAEAN LETTER MEM", 67731>>, <<"NABATAEAN LETTER FINAL NUN", 67732>>,
    <<"NABATAEAN LETTER NUN", 67733>>, <<"NABATAEAN LETTER SAMEKH", 67734>>,
    <<"NABATAEAN LETTER AYIN", 67735>>, <<"NABATAEAN LETTER PE", 67736>>,
    <<"NABATAEAN LETTER SADHE", 67737>>, <<"NABATAEAN LETTER QOPH", 67738>>,
    <<"NABATAEAN LETTER RESH", 67739>>, <<"NABATAEAN LETTER FINAL SHIN", 67740>>,
    <<"NABATAEAN LETTER SHIN", 67741>>, <<"NABATAEAN LETTER TAW", 67742>>,
    <<"NABATAEAN NUMBER ONE", 67751>>, <<"NABATAEAN NUMBER TWO", 67752>>,
    <<"NABATAEAN NUMBER THREE", 67753>>, <<"NABATAEAN NUMBER FOUR", 67754>>,
    <<"NABATAEAN CRUCIFORM NUMBER FOUR", 67755>>, <<"NABATAEAN NUMBER FIVE", 67756>>,
    <<"NABATAEAN NUMBER TEN", 67757>>, <<"NABATAEAN NUMBER TWENTY", 67758>>,
    <<"NABATAEAN NUMBER ONE HUNDRED", 67759>>, <<"HATRAN LETTER ALEPH", 67808>>,
    <<"HATRAN LETTER BETH", 67809>>, <<"HATRAN LETTER GIMEL", 67810>>,
    <<"HATRAN LETTER DALETH-RESH", 67811>>, <<"HATRAN LETTER HE", 67812>>,
    <<"HATRAN LETTER WAW", 67813>>, <<"HATRAN LETTER ZAYN", 67814>>, <<"HATRAN LETTER HETH", 67815>>,
    <<"HATRAN LETTER TETH", 67816>>, <<"HATRAN LETTER YODH", 67817>>, <<"HATRAN LETTER KAPH", 67818>>,
    <<"HATRAN LETTER LAMEDH", 67819>>, <<"HATRAN LETTER MEM", 67820>>, <<"HATRAN LETTER NUN", 67821>>,
    <<"HATRAN LETTER SAMEKH", 67822>>, <<"HATRAN LETTER AYN", 67823>>, <<"HATRAN LETTER PE", 67824>>,
    <<"HATRAN LETTER SADHE", 67825>>, <<"HATRAN LETTER QOPH", 67826>>, <<"HATRAN LETTER SHIN", 67828>>,
    <<"HATRAN LETTER TAW", 67829>>, <<"HATRAN NUMBER ONE", 67835>>, <<"HATRAN NUMBER FIVE", 67836>>,
    <<"HATRAN NUMBER TEN", 67837>>, <<"HATRAN NUMBER TWENTY", 67838>>,
    <<"HATRAN NUMBER ONE HUNDRED", 67839>>, <<"PHOENICIAN LETTER ALF", 67840>>,
    <<"PHOENICIAN LETTER BET", 67841>>, <<"PHOENICIAN LETTER GAML", 67842>>,
    <<"PHOENICIAN LETTER DELT", 67843>>, <<"PHOENICIAN LETTER HE", 67844>>,
    <<"PHOENICIAN LETTER WAU", 67845>>, <<"PHOENICIAN LETTER ZAI", 67846>>,
    <<"PHOENICIAN LETTER HET", 67847>>, <<"PHOENICIAN LETTER TET", 67848>>,
    <<"PHOENICIAN LETTER YOD", 67849>>, <<"PHOENICIAN LETTER KAF", 67850>>,
    <<"PHOENICIAN LETTER LAMD", 67851>>, <<"PHOENICIAN LETTER MEM", 67852>>,
    <<"PHOENICIAN LETTER NUN", 67853>>, <<"PHOENICIAN LETTER SEMK", 67854>>,
    <<"PHOENICIAN LETTER AIN", 67855>>, <<"PHOENICIAN LETTER PE", 67856>>,
    <<"PHOENICIAN LETTER SADE", 67857>>, <<"PHOENICIAN LETTER QOF", 67858>>,
    <<"PHOENICIAN LETTER ROSH", 67859>>, <<"PHOENICIAN LETTER SHIN", 67860>>,
    <<"PHOENICIAN LETTER TAU", 67861>>, <<"PHOENICIAN NUMBER ONE", 67862>>,
    <<"PHOENICIAN NUMBER TEN", 67863>>, <<"PHOENICIAN NUMBER TWENTY", 67864>>,
    <<"PHOENICIAN NUMBER ONE HUNDRED", 67865>>, <<"PHOENICIAN NUMBER TWO", 67866>>,
    <<"PHOENICIAN NUMBER THREE", 67867>>, <<"PHOENICIAN WORD SEPARATOR", 67871>>,
    <<"LYDIAN LETTER A", 67872>>, <<"LYDIAN LETTER B", 67873>>, <<"LYDIAN LETTER G", 67874>>,
    <<"LYDIAN LETTER D", 67875>>, <<"LYDIAN LETTER E", 67876>>, <<"LYDIAN LETTER V", 67877>>,
    <<"LYDIAN LETTER I", 67878>>, <<"LYDIAN LETTER Y", 67879>>, <<"LYDIAN LETTER K", 67880>>,
    <<"LYDIAN LETTER L", 67881>>, <<"LYDIAN LETTER M", 67882>>, <<"LYDIAN LETTER N", 67883>>,
    <<"LYDIAN LETTER O", 67884>>, <<"LYDIAN LETTER R", 67885>>, <<"LYDIAN LETTER SS", 67886>>,
    <<"LYDIAN LETTER T", 67887>>, <<"LYDIAN LETTER U", 67888>>, <<"LYDIAN LETTER F", 67889>>,
    <<"LYDIAN LETTER Q", 67890>>, <<"LYDIAN LETTER S", 67891>>, <<"LYDIAN LETTER TT", 67892>>,
    <<"LYDIAN LETTER AN", 67893>>, <<"LYDIAN LETTER EN", 67894>>, <<"LYDIAN LETTER LY", 67895>>,
    <<"LYDIAN LETTER NN", 67896>>, <<"LYDIAN LETTER C", 67897>>, <<"LYDIAN TRIANGULAR MARK", 67903>>,
    <<"MEROITIC HIEROGLYPHIC LETTER A", 67968>>, <<"MEROITIC HIEROGLYPHIC LETTER E", 67969>>,
    <<"MEROITIC HIEROGLYPHIC LETTER I", 67970>>, <<"MEROITIC HIEROGLYPHIC LETTER O", 67971>>,
    <<"MEROITIC HIEROGLYPHIC LETTER YA", 67972>>, <<"MEROITIC HIEROGLYPHIC LETTER WA", 67973>>,
    <<"MEROITIC HIEROGLYPHIC LETTER BA", 67974>>, <<"MEROITIC HIEROGLYPHIC LETTER BA-2", 67975>>,
    <<"MEROITIC HIEROGLYPHIC LETTER PA", 67976>>, <<"MEROITIC HIEROGLYPHIC LETTER MA", 67977>>,
    <<"MEROITIC HIEROGLYPHIC LETTER NA", 67978>>, <<"MEROITIC HIEROGLYPHIC LETTER NA-2", 67979>>,
    <<"MEROITIC HIEROGLYPHIC LETTER NE", 67980>>, <<"MEROITIC HIEROGLYPHIC LETTER NE-2", 67981>>,
    <<"MEROITIC HIEROGLYPHIC LETTER RA", 67982>>, <<"MEROITIC HIEROGLYPHIC LETTER RA-2", 67983>>,
    <<"MEROITIC HIEROGLYPHIC LETTER LA", 67984>>, <<"MEROITIC HIEROGLYPHIC LETTER KHA", 67985>>,
    <<"MEROITIC HIEROGLYPHIC LETTER HHA", 67986>>, <<"MEROITIC HIEROGLYPHIC LETTER SA", 67987>>,
    <<"MEROITIC HIEROGLYPHIC LETTER SA-2", 67988>>, <<"MEROITIC HIEROGLYPHIC LETTER SE", 67989>>,
    <<"MEROITIC HIEROGLYPHIC LETTER KA", 67990>>, <<"MEROITIC HIEROGLYPHIC LETTER QA", 67991>>,
    <<"MEROITIC HIEROGLYPHIC LETTER TA", 67992>>, <<"MEROITIC HIEROGLYPHIC LETTER TA-2", 67993>>,
    <<"MEROITIC HIEROGLYPHIC LETTER TE", 67994>>, <<"MEROITIC HIEROGLYPHIC LETTER TE-2", 67995>>,
    <<"MEROITIC HIEROGLYPHIC LETTER TO", 67996>>, <<"MEROITIC HIEROGLYPHIC LETTER DA", 67997>>,
    <<"MEROITIC HIEROGLYPHIC SYMBOL VIDJ", 67998>>, <<"MEROITIC HIEROGLYPHIC SYMBOL VIDJ-2", 67999>>,
    <<"MEROITIC CURSIVE LETTER A", 68000>>, <<"MEROITIC CURSIVE LETTER E", 68001>>,
    <<"MEROITIC CURSIVE LETTER I", 68002>>, <<"MEROITIC CURSIVE LETTER O", 68003>>,
    <<"MEROITIC CURSIVE LETTER YA", 68004>>, <<"MEROITIC CURSIVE LETTER WA", 68005>>,
    <<"MEROITIC CURSIVE LETTER BA", 68006>>, <<"MEROITIC CURSIVE LETTER PA", 68007>>,
    <<"MEROITIC CURSIVE LETTER MA", 68008>>, <<"MEROITIC CURSIVE LETTER NA", 68009>>,
    <<"MEROITIC CURSIVE LETTER NE", 68010>>, <<"MEROITIC CURSIVE LETTER RA", 68011>>,
    <<"MEROITIC CURSIVE LETTER LA", 68012>>, <<"MEROITIC CURSIVE LETTER KHA", 68013>>,
    <<"MEROITIC CURSIVE LETTER HHA", 68014>>, <<"MEROITIC CURSIVE LETTER SA", 68015>>,
    <<"MEROITIC CURSIVE LETTER ARCHAIC SA", 68016>>, <<"MEROITIC CURSIVE LETTER SE", 68017>>,
    <<"MEROITIC CURSIVE LETTER KA", 68018>>, <<"MEROITIC CURSIVE LETTER QA", 68019>>,
    <<"MEROITIC CURSIVE LETTER TA", 68020>>, <<"MEROITIC CURSIVE LETTER TE", 68021>>,
    <<"MEROITIC CURSIVE LETTER TO", 68022>>, <<"MEROITIC CURSIVE LETTER DA", 68023>>,
    <<"MEROITIC CURSIVE FRACTION ELEVEN TWELFTHS", 68028>>,
    <<"MEROITIC CURSIVE FRACTION ONE HALF", 68029>>, <<"MEROITIC CURSIVE LOGOGRAM RMT", 68030>>,
    <<"MEROITIC CURSIVE LOGOGRAM IMN", 68031>>, <<"MEROITIC CURSIVE NUMBER ONE", 68032>>,
    <<"MEROITIC CURSIVE NUMBER TWO", 68033>>, <<"MEROITIC CURSIVE NUMBER THREE", 68034>>,
    <<"MEROITIC CURSIVE NUMBER FOUR", 68035>>, <<"MEROITIC CURSIVE NUMBER FIVE", 68036>>,
    <<"MEROITIC CURSIVE NUMBER SIX", 68037>>, <<"MEROITIC CURSIVE NUMBER SEVEN", 68038>>,
    <<"MEROITIC CURSIVE NUMBER EIGHT", 68039>>, <<"MEROITIC CURSIVE NUMBER NINE", 68040>>,
    <<"MEROITIC CURSIVE NUMBER TEN", 68041>>, <<"MEROITIC CURSIVE NUMBER TWENTY", 68042>>,
    <<"MEROITIC CURSIVE NUMBER THIRTY", 68043>>, <<"MEROITIC CURSIVE NUMBER FORTY", 68044>>,
    <<"MEROITIC CURSIVE NUMBER FIFTY", 68045>>, <<"MEROITIC CURSIVE NUMBER SIXTY", 68046>>,
    <<"MEROITIC CURSIVE NUMBER SEVENTY", 68047>>, <<"MEROITIC CURSIVE NUMBER ONE HUNDRED", 68050>>,
    <<"MEROITIC CURSIVE NUMBER TWO HUNDRED", 68051>>,
    <<"MEROITIC CURSIVE NUMBER THREE HUNDRED", 68052>>,
    <<"MEROITIC CURSIVE NUMBER FOUR HUNDRED", 68053>>,
    <<"MEROITIC CURSIVE NUMBER FIVE HUNDRED", 68054>>,
    <<"MEROITIC CURSIVE NUMBER SIX HUNDRED", 68055>>,
    <<"MEROITIC CURSIVE NUMBER SEVEN HUNDRED", 68056>>,
    <<"MEROITIC CURSIVE NUMBER EIGHT HUNDRED", 68057>>,
    <<"MEROITIC CURSIVE NUMBER NINE HUNDRED", 68058>>,
    <<"MEROITIC CURSIVE NUMBER ONE THOUSAND", 68059>>,
    <<"MEROITIC CURSIVE NUMBER TWO THOUSAND", 68060>>,
    <<"MEROITIC CURSIVE NUMBER THREE THOUSAND", 68061>>,
    <<"MEROITIC CURSIVE NUMBER FOUR THOUSAND", 68062>>,
    <<"MEROITIC CURSIVE NUMBER FIVE THOUSAND", 68063>>,
    <<"MEROITIC CURSIVE NUMBER SIX THOUSAND", 68064>>,
    <<"MEROITIC CURSIVE NUMBER SEVEN THOUSAND", 68065>>,
    <<"MEROITIC CURSIVE NUMBER EIGHT THOUSAND", 68066>>,
    <<"MEROITIC CURSIVE NUMBER NINE THOUSAND", 68067>>,
    <<"MEROITIC CURSIVE NUMBER TEN THOUSAND", 68068>>,
    <<"MEROITIC CURSIVE NUMBER TWENTY THOUSAND", 68069>>,
    <<"MEROITIC CURSIVE NUMBER THIRTY THOUSAND", 68070>>,
    <<"MEROITIC CURSIVE NUMBER FORTY THOUSAND", 68071>>,
    <<"MEROITIC CURSIVE NUMBER FIFTY THOUSAND", 68072>>,
    <<"MEROITIC CURSIVE NUMBER SIXTY THOUSAND", 68073>>,
    <<"MEROITIC CURSIVE NUMBER SEVENTY THOUSAND", 68074>>,
    <<"MEROITIC CURSIVE NUMBER EIGHTY THOUSAND", 68075>>,
    <<"MEROITIC CURSIVE NUMBER NINETY THOUSAND", 68076>>,
    <<"MEROITIC CURSIVE NUMBER ONE HUNDRED THOUSAND", 68077>>,
    <<"MEROITIC CURSIVE NUMBER TWO HUNDRED THOUSAND", 68078>>,
    <<"MEROITIC CURSIVE NUMBER THREE HUNDRED THOUSAND", 68079>>,
    <<"MEROITIC CURSIVE NUMBER FOUR HUNDRED THOUSAND", 68080>>,
    <<"MEROITIC CURSIVE NUMBER FIVE HUNDRED THOUSAND", 68081>>,
    <<"MEROITIC CURSIVE NUMBER SIX HUNDRED THOUSAND", 68082>>,
    <<"MEROITIC CURSIVE NUMBER SEVEN HUNDRED THOUSAND", 68083>>,
    <<"MEROITIC CURSIVE NUMBER EIGHT HUNDRED THOUSAND", 68084>>,
    <<"MEROITIC CURSIVE NUMBER NINE HUNDRED THOUSAND", 68085>>,
    <<"MEROITIC CURSIVE FRACTION ONE TWELFTH", 68086>>,
    <<"MEROITIC CURSIVE FRACTION TWO TWELFTHS", 68087>>,
    <<"MEROITIC CURSIVE FRACTION THREE TWELFTHS", 68088>>,
    <<"MEROITIC CURSIVE FRACTION FOUR TWELFTHS", 68089>>,
    <<"MEROITIC CURSIVE FRACTION FIVE TWELFTHS", 68090>>,
    <<"MEROITIC CURSIVE FRACTION SIX TWELFTHS", 68091>>,
    <<"MEROITIC CURSIVE FRACTION SEVEN TWELFTHS", 68092>>,
    <<"MEROITIC CURSIVE FRACTION EIGHT TWELFTHS", 68093>>,
    <<"MEROITIC CURSIVE FRACTION NINE TWELFTHS", 68094>>,
    <<"MEROITIC CURSIVE FRACTION TEN TWELFTHS", 68095>>, <<"KHAROSHTHI LETTER A", 68096>>,
    <<"KHAROSHTHI VOWEL SIGN I", 68097>>, <<"KHAROSHTHI VOWEL SIGN U", 68098>>,
    <<"KHAROSHTHI VOWEL SIGN VOCALIC R", 68099>>, <<"KHAROSHTHI VOWEL SIGN E", 68101>>,
    <<"KHAROSHTHI VOWEL SIGN O", 68102>>, <<"KHAROSHTHI VOWEL LENGTH MARK", 68108>>,
    <<"KHAROSHTHI SIGN DOUBLE RING BELOW", 68109>>, <<"KHAROSHTHI SIGN ANUSVARA", 68110>>,
    <<"KHAROSHTHI SIGN VISARGA", 68111>>, <<"KHAROSHTHI LETTER KA", 68112>>,
    <<"KHAROSHTHI LETTER KHA", 68113>>, <<"KHAROSHTHI LETTER GA", 68114>>,
    <<"KHAROSHTHI LETTER GHA", 68115>>, <<"KHAROSHTHI LETTER CA", 68117>>,
    <<"KHAROSHTHI LETTER CHA", 68118>>, <<"KHAROSHTHI LETTER JA", 68119>>,
    <<"KHAROSHTHI LETTER NYA", 68121>>, <<"KHAROSHTHI LETTER TTA", 68122>>,
    <<"KHAROSHTHI LETTER TTHA", 68123>>, <<"KHAROSHTHI LETTER DDA", 68124>>,
    <<"KHAROSHTHI LETTER DDHA", 68125>>, <<"KHAROSHTHI LETTER NNA", 68126>>,
    <<"KHAROSHTHI LETTER TA", 68127>>, <<"KHAROSHTHI LETTER THA", 68128>>,
    <<"KHAROSHTHI LETTER DA", 68129>>, <<"KHAROSHTHI LETTER DHA", 68130>>,
    <<"KHAROSHTHI LETTER NA", 68131>>, <<"KHAROSHTHI LETTER PA", 68132>>,
    <<"KHAROSHTHI LETTER PHA", 68133>>, <<"KHAROSHTHI LETTER BA", 68134>>,
    <<"KHAROSHTHI LETTER BHA", 68135>>, <<"KHAROSHTHI LETTER MA", 68136>>,
    <<"KHAROSHTHI LETTER YA", 68137>>, <<"KHAROSHTHI LETTER RA", 68138>>,
    <<"KHAROSHTHI LETTER LA", 68139>>, <<"KHAROSHTHI LETTER VA", 68140>>,
    <<"KHAROSHTHI LETTER SHA", 68141>>, <<"KHAROSHTHI LETTER SSA", 68142>>,
    <<"KHAROSHTHI LETTER SA", 68143>>, <<"KHAROSHTHI LETTER ZA", 68144>>,
    <<"KHAROSHTHI LETTER HA", 68145>>, <<"KHAROSHTHI LETTER KKA", 68146>>,
    <<"KHAROSHTHI LETTER TTTHA", 68147>>, <<"KHAROSHTHI LETTER TTTA", 68148>>,
    <<"KHAROSHTHI LETTER VHA", 68149>>, <<"KHAROSHTHI SIGN BAR ABOVE", 68152>>,
    <<"KHAROSHTHI SIGN CAUDA", 68153>>, <<"KHAROSHTHI SIGN DOT BELOW", 68154>>,
    <<"KHAROSHTHI VIRAMA", 68159>>, <<"KHAROSHTHI DIGIT ONE", 68160>>,
    <<"KHAROSHTHI DIGIT TWO", 68161>>, <<"KHAROSHTHI DIGIT THREE", 68162>>,
    <<"KHAROSHTHI DIGIT FOUR", 68163>>, <<"KHAROSHTHI NUMBER TEN", 68164>>,
    <<"KHAROSHTHI NUMBER TWENTY", 68165>>, <<"KHAROSHTHI NUMBER ONE HUNDRED", 68166>>,
    <<"KHAROSHTHI NUMBER ONE THOUSAND", 68167>>, <<"KHAROSHTHI FRACTION ONE HALF", 68168>>,
    <<"KHAROSHTHI PUNCTUATION DOT", 68176>>, <<"KHAROSHTHI PUNCTUATION SMALL CIRCLE", 68177>>,
    <<"KHAROSHTHI PUNCTUATION CIRCLE", 68178>>, <<"KHAROSHTHI PUNCTUATION CRESCENT BAR", 68179>>,
    <<"KHAROSHTHI PUNCTUATION MANGALAM", 68180>>, <<"KHAROSHTHI PUNCTUATION LOTUS", 68181>>,
    <<"KHAROSHTHI PUNCTUATION DANDA", 68182>>, <<"KHAROSHTHI PUNCTUATION DOUBLE DANDA", 68183>>,
    <<"KHAROSHTHI PUNCTUATION LINES", 68184>>, <<"OLD SOUTH ARABIAN LETTER HE", 68192>>,
    <<"OLD SOUTH ARABIAN LETTER LAMEDH", 68193>>, <<"OLD SOUTH ARABIAN LETTER HETH", 68194>>,
    <<"OLD SOUTH ARABIAN LETTER MEM", 68195>>, <<"OLD SOUTH ARABIAN LETTER QOPH", 68196>>,
    <<"OLD SOUTH ARABIAN LETTER WAW", 68197>>, <<"OLD SOUTH ARABIAN LETTER SHIN", 68198>>,
    <<"OLD SOUTH ARABIAN LETTER RESH", 68199>>, <<"OLD SOUTH ARABIAN LETTER BETH", 68200>>,
    <<"OLD SOUTH ARABIAN LETTER TAW", 68201>>, <<"OLD SOUTH ARABIAN LETTER SAT", 68202>>,
    <<"OLD SOUTH ARABIAN LETTER KAPH", 68203>>, <<"OLD SOUTH ARABIAN LETTER NUN", 68204>>,
    <<"OLD SOUTH ARABIAN LETTER KHETH", 68205>>, <<"OLD SOUTH ARABIAN LETTER SADHE", 68206>>,
    <<"OLD SOUTH ARABIAN LETTER SAMEKH", 68207>>, <<"OLD SOUTH ARABIAN LETTER FE", 68208>>,
    <<"OLD SOUTH ARABIAN LETTER ALEF", 68209>>, <<"OLD SOUTH ARABIAN LETTER AYN", 68210>>,
    <<"OLD SOUTH ARABIAN LETTER DHADHE", 68211>>, <<"OLD SOUTH ARABIAN LETTER GIMEL", 68212>>,
    <<"OLD SOUTH ARABIAN LETTER DALETH", 68213>>, <<"OLD SOUTH ARABIAN LETTER GHAYN", 68214>>,
    <<"OLD SOUTH ARABIAN LETTER TETH", 68215>>, <<"OLD SOUTH ARABIAN LETTER ZAYN", 68216>>,
    <<"OLD SOUTH ARABIAN LETTER DHALETH", 68217>>, <<"OLD SOUTH ARABIAN LETTER YODH", 68218>>,
    <<"OLD SOUTH ARABIAN LETTER THAW", 68219>>, <<"OLD SOUTH ARABIAN LETTER THETH", 68220>>,
    <<"OLD SOUTH ARABIAN NUMBER ONE", 68221>>, <<"OLD SOUTH ARABIAN NUMBER FIFTY", 68222>>,
    <<"OLD SOUTH ARABIAN NUMERIC INDICATOR", 68223>>, <<"OLD NORTH ARABIAN LETTER HEH", 68224>>,
    <<"OLD NORTH ARABIAN LETTER LAM", 68225>>, <<"OLD NORTH ARABIAN LETTER HAH", 68226>>,
    <<"OLD NORTH ARABIAN LETTER MEEM", 68227>>, <<"OLD NORTH ARABIAN LETTER QAF", 68228>>,
    <<"OLD NORTH ARABIAN LETTER WAW", 68229>>, <<"OLD NORTH ARABIAN LETTER ES-2", 68230>>,
    <<"OLD NORTH ARABIAN LETTER REH", 68231>>, <<"OLD NORTH ARABIAN LETTER BEH", 68232>>,
    <<"OLD NORTH ARABIAN LETTER TEH", 68233>>, <<"OLD NORTH ARABIAN LETTER ES-1", 68234>>,
    <<"OLD NORTH ARABIAN LETTER KAF", 68235>>, <<"OLD NORTH ARABIAN LETTER NOON", 68236>>,
    <<"OLD NORTH ARABIAN LETTER KHAH", 68237>>, <<"OLD NORTH ARABIAN LETTER SAD", 68238>>,
    <<"OLD NORTH ARABIAN LETTER ES-3", 68239>>, <<"OLD NORTH ARABIAN LETTER FEH", 68240>>,
    <<"OLD NORTH ARABIAN LETTER ALEF", 68241>>, <<"OLD NORTH ARABIAN LETTER AIN", 68242>>,
    <<"OLD NORTH ARABIAN LETTER DAD", 68243>>, <<"OLD NORTH ARABIAN LETTER GEEM", 68244>>,
    <<"OLD NORTH ARABIAN LETTER DAL", 68245>>, <<"OLD NORTH ARABIAN LETTER GHAIN", 68246>>,
    <<"OLD NORTH ARABIAN LETTER TAH", 68247>>, <<"OLD NORTH ARABIAN LETTER ZAIN", 68248>>,
    <<"OLD NORTH ARABIAN LETTER THAL", 68249>>, <<"OLD NORTH ARABIAN LETTER YEH", 68250>>,
    <<"OLD NORTH ARABIAN LETTER THEH", 68251>>, <<"OLD NORTH ARABIAN LETTER ZAH", 68252>>,
    <<"OLD NORTH ARABIAN NUMBER ONE", 68253>>, <<"OLD NORTH ARABIAN NUMBER TEN", 68254>>,
    <<"OLD NORTH ARABIAN NUMBER TWENTY", 68255>>, <<"MANICHAEAN LETTER ALEPH", 68288>>,
    <<"MANICHAEAN LETTER BETH", 68289>>, <<"MANICHAEAN LETTER BHETH", 68290>>,
    <<"MANICHAEAN LETTER GIMEL", 68291>>, <<"MANICHAEAN LETTER GHIMEL", 68292>>,
    <<"MANICHAEAN LETTER DALETH", 68293>>, <<"MANICHAEAN LETTER HE", 68294>>,
    <<"MANICHAEAN LETTER WAW", 68295>>, <<"MANICHAEAN SIGN UD", 68296>>,
    <<"MANICHAEAN LETTER ZAYIN", 68297>>, <<"MANICHAEAN LETTER ZHAYIN", 68298>>,
    <<"MANICHAEAN LETTER JAYIN", 68299>>, <<"MANICHAEAN LETTER JHAYIN", 68300>>,
    <<"MANICHAEAN LETTER HETH", 68301>>, <<"MANICHAEAN LETTER TETH", 68302>>,
    <<"MANICHAEAN LETTER YODH", 68303>>, <<"MANICHAEAN LETTER KAPH", 68304>>,
    <<"MANICHAEAN LETTER XAPH", 68305>>, <<"MANICHAEAN LETTER KHAPH", 68306>>,
    <<"MANICHAEAN LETTER LAMEDH", 68307>>, <<"MANICHAEAN LETTER DHAMEDH", 68308>>,
    <<"MANICHAEAN LETTER THAMEDH", 68309>>, <<"MANICHAEAN LETTER MEM", 68310>>,
    <<"MANICHAEAN LETTER NUN", 68311>>, <<"MANICHAEAN LETTER SAMEKH", 68312>>,
    <<"MANICHAEAN LETTER AYIN", 68313>>, <<"MANICHAEAN LETTER AAYIN", 68314>>,
    <<"MANICHAEAN LETTER PE", 68315>>, <<"MANICHAEAN LETTER FE", 68316>>,
    <<"MANICHAEAN LETTER SADHE", 68317>>, <<"MANICHAEAN LETTER QOPH", 68318>>,
    <<"MANICHAEAN LETTER XOPH", 68319>>, <<"MANICHAEAN LETTER QHOPH", 68320>>,
    <<"MANICHAEAN LETTER RESH", 68321>>, <<"MANICHAEAN LETTER SHIN", 68322>>,
    <<"MANICHAEAN LETTER SSHIN", 68323>>, <<"MANICHAEAN LETTER TAW", 68324>>,
    <<"MANICHAEAN ABBREVIATION MARK ABOVE", 68325>>, <<"MANICHAEAN ABBREVIATION MARK BELOW", 68326>>,
    <<"MANICHAEAN NUMBER ONE", 68331>>, <<"MANICHAEAN NUMBER FIVE", 68332>>,
    <<"MANICHAEAN NUMBER TEN", 68333>>, <<"MANICHAEAN NUMBER TWENTY", 68334>>,
    <<"MANICHAEAN NUMBER ONE HUNDRED", 68335>>, <<"MANICHAEAN PUNCTUATION STAR", 68336>>,
    <<"MANICHAEAN PUNCTUATION FLEURON", 68337>>,
    <<"MANICHAEAN PUNCTUATION DOUBLE DOT WITHIN DOT", 68338>>,
    <<"MANICHAEAN PUNCTUATION DOT WITHIN DOT", 68339>>, <<"MANICHAEAN PUNCTUATION DOT", 68340>>,
    <<"MANICHAEAN PUNCTUATION TWO DOTS", 68341>>, <<"MANICHAEAN PUNCTUATION LINE FILLER", 68342>>,
    <<"AVESTAN LETTER A", 68352>>, <<"AVESTAN LETTER AA", 68353>>, <<"AVESTAN LETTER AO", 68354>>,
    <<"AVESTAN LETTER AAO", 68355>>, <<"AVESTAN LETTER AN", 68356>>, <<"AVESTAN LETTER AAN", 68357>>,
    <<"AVESTAN LETTER AE", 68358>>, <<"AVESTAN LETTER AEE", 68359>>, <<"AVESTAN LETTER E", 68360>>,
    <<"AVESTAN LETTER EE", 68361>>, <<"AVESTAN LETTER O", 68362>>, <<"AVESTAN LETTER OO", 68363>>,
    <<"AVESTAN LETTER I", 68364>>, <<"AVESTAN LETTER II", 68365>>, <<"AVESTAN LETTER U", 68366>>,
    <<"AVESTAN LETTER UU", 68367>>, <<"AVESTAN LETTER KE", 68368>>, <<"AVESTAN LETTER XE", 68369>>,
    <<"AVESTAN LETTER XYE", 68370>>, <<"AVESTAN LETTER XVE", 68371>>, <<"AVESTAN LETTER GE", 68372>>,
    <<"AVESTAN LETTER GGE", 68373>>, <<"AVESTAN LETTER GHE", 68374>>, <<"AVESTAN LETTER CE", 68375>>,
    <<"AVESTAN LETTER JE", 68376>>, <<"AVESTAN LETTER TE", 68377>>, <<"AVESTAN LETTER THE", 68378>>,
    <<"AVESTAN LETTER DE", 68379>>, <<"AVESTAN LETTER DHE", 68380>>, <<"AVESTAN LETTER TTE", 68381>>,
    <<"AVESTAN LETTER PE", 68382>>, <<"AVESTAN LETTER FE", 68383>>, <<"AVESTAN LETTER BE", 68384>>,
    <<"AVESTAN LETTER BHE", 68385>>, <<"AVESTAN LETTER NGE", 68386>>, <<"AVESTAN LETTER NGYE", 68387>>,
    <<"AVESTAN LETTER NGVE", 68388>>, <<"AVESTAN LETTER NE", 68389>>, <<"AVESTAN LETTER NYE", 68390>>,
    <<"AVESTAN LETTER NNE", 68391>>, <<"AVESTAN LETTER ME", 68392>>, <<"AVESTAN LETTER HME", 68393>>,
    <<"AVESTAN LETTER YYE", 68394>>, <<"AVESTAN LETTER YE", 68395>>, <<"AVESTAN LETTER VE", 68396>>,
    <<"AVESTAN LETTER RE", 68397>>, <<"AVESTAN LETTER LE", 68398>>, <<"AVESTAN LETTER SE", 68399>>,
    <<"AVESTAN LETTER ZE", 68400>>, <<"AVESTAN LETTER SHE", 68401>>, <<"AVESTAN LETTER ZHE", 68402>>,
    <<"AVESTAN LETTER SHYE", 68403>>, <<"AVESTAN LETTER SSHE", 68404>>, <<"AVESTAN LETTER HE", 68405>>,
    <<"AVESTAN ABBREVIATION MARK", 68409>>, <<"TINY TWO DOTS OVER ONE DOT PUNCTUATION", 68410>>,
    <<"SMALL TWO DOTS OVER ONE DOT PUNCTUATION", 68411>>,
    <<"LARGE TWO DOTS OVER ONE DOT PUNCTUATION", 68412>>,
    <<"LARGE ONE DOT OVER TWO DOTS PUNCTUATION", 68413>>,
    <<"LARGE TWO RINGS OVER ONE RING PUNCTUATION", 68414>>,
    <<"LARGE ONE RING OVER TWO RINGS PUNCTUATION", 68415>>,
    <<"INSCRIPTIONAL PARTHIAN LETTER ALEPH", 68416>>, <<"INSCRIPTIONAL PARTHIAN LETTER BETH", 68417>>,
    <<"INSCRIPTIONAL PARTHIAN LETTER GIMEL", 68418>>,
    <<"INSCRIPTIONAL PARTHIAN LETTER DALETH", 68419>>, <<"INSCRIPTIONAL PARTHIAN LETTER HE", 68420>>,
    <<"INSCRIPTIONAL PARTHIAN LETTER WAW", 68421>>, <<"INSCRIPTIONAL PARTHIAN LETTER ZAYIN", 68422>>,
    <<"INSCRIPTIONAL PARTHIAN LETTER HETH", 68423>>, <<"INSCRIPTIONAL PARTHIAN LETTER TETH", 68424>>,
    <<"INSCRIPTIONAL PARTHIAN LETTER YODH", 68425>>, <<"INSCRIPTIONAL PARTHIAN LETTER KAPH", 68426>>,
    <<"INSCRIPTIONAL PARTHIAN LETTER LAMEDH", 68427>>, <<"INSCRIPTIONAL PARTHIAN LETTER MEM", 68428>>,
    <<"INSCRIPTIONAL PARTHIAN LETTER NUN", 68429>>, <<"INSCRIPTIONAL PARTHIAN LETTER SAMEKH", 68430>>,
    <<"INSCRIPTIONAL PARTHIAN LETTER AYIN", 68431>>, <<"INSCRIPTIONAL PARTHIAN LETTER PE", 68432>>,
    <<"INSCRIPTIONAL PARTHIAN LETTER SADHE", 68433>>, <<"INSCRIPTIONAL PARTHIAN LETTER QOPH", 68434>>,
    <<"INSCRIPTIONAL PARTHIAN LETTER RESH", 68435>>, <<"INSCRIPTIONAL PARTHIAN LETTER SHIN", 68436>>,
    <<"INSCRIPTIONAL PARTHIAN LETTER TAW", 68437>>, <<"INSCRIPTIONAL PARTHIAN NUMBER ONE", 68440>>,
    <<"INSCRIPTIONAL PARTHIAN NUMBER TWO", 68441>>, <<"INSCRIPTIONAL PARTHIAN NUMBER THREE", 68442>>,
    <<"INSCRIPTIONAL PARTHIAN NUMBER FOUR", 68443>>, <<"INSCRIPTIONAL PARTHIAN NUMBER TEN", 68444>>,
    <<"INSCRIPTIONAL PARTHIAN NUMBER TWENTY", 68445>>,
    <<"INSCRIPTIONAL PARTHIAN NUMBER ONE HUNDRED", 68446>>,
    <<"INSCRIPTIONAL PARTHIAN NUMBER ONE THOUSAND", 68447>>,
    <<"INSCRIPTIONAL PAHLAVI LETTER ALEPH", 68448>>, <<"INSCRIPTIONAL PAHLAVI LETTER BETH", 68449>>,
    <<"INSCRIPTIONAL PAHLAVI LETTER GIMEL", 68450>>, <<"INSCRIPTIONAL PAHLAVI LETTER DALETH", 68451>>,
    <<"INSCRIPTIONAL PAHLAVI LETTER HE", 68452>>,
    <<"INSCRIPTIONAL PAHLAVI LETTER WAW-AYIN-RESH", 68453>>,
    <<"INSCRIPTIONAL PAHLAVI LETTER ZAYIN", 68454>>, <<"INSCRIPTIONAL PAHLAVI LETTER HETH", 68455>>,
    <<"INSCRIPTIONAL PAHLAVI LETTER TETH", 68456>>, <<"INSCRIPTIONAL PAHLAVI LETTER YODH", 68457>>,
    <<"INSCRIPTIONAL PAHLAVI LETTER KAPH", 68458>>, <<"INSCRIPTIONAL PAHLAVI LETTER LAMEDH", 68459>>,
    <<"INSCRIPTIONAL PAHLAVI LETTER MEM-QOPH", 68460>>, <<"INSCRIPTIONAL PAHLAVI LETTER NUN", 68461>>,
    <<"INSCRIPTIONAL PAHLAVI LETTER SAMEKH", 68462>>, <<"INSCRIPTIONAL PAHLAVI LETTER PE", 68463>>,
    <<"INSCRIPTIONAL PAHLAVI LETTER SADHE", 68464>>, <<"INSCRIPTIONAL PAHLAVI LETTER SHIN", 68465>>,
    <<"INSCRIPTIONAL PAHLAVI LETTER TAW", 68466>>, <<"INSCRIPTIONAL PAHLAVI NUMBER ONE", 68472>>,
    <<"INSCRIPTIONAL PAHLAVI NUMBER TWO", 68473>>, <<"INSCRIPTIONAL PAHLAVI NUMBER THREE", 68474>>,
    <<"INSCRIPTIONAL PAHLAVI NUMBER FOUR", 68475>>, <<"INSCRIPTIONAL PAHLAVI NUMBER TEN", 68476>>,
    <<"INSCRIPTIONAL PAHLAVI NUMBER TWENTY", 68477>>,
    <<"INSCRIPTIONAL PAHLAVI NUMBER ONE HUNDRED", 68478>>,
    <<"INSCRIPTIONAL PAHLAVI NUMBER ONE THOUSAND", 68479>>, <<"PSALTER PAHLAVI LETTER ALEPH", 68480>>,
    <<"PSALTER PAHLAVI LETTER BETH", 68481>>, <<"PSALTER PAHLAVI LETTER GIMEL", 68482>>,
    <<"PSALTER PAHLAVI LETTER DALETH", 68483>>, <<"PSALTER PAHLAVI LETTER HE", 68484>>,
    <<"PSALTER PAHLAVI LETTER WAW-AYIN-RESH", 68485>>, <<"PSALTER PAHLAVI LETTER ZAYIN", 68486>>,
    <<"PSALTER PAHLAVI LETTER HETH", 68487>>, <<"PSALTER PAHLAVI LETTER YODH", 68488>>,
    <<"PSALTER PAHLAVI LETTER KAPH", 68489>>, <<"PSALTER PAHLAVI LETTER LAMEDH", 68490>>,
    <<"PSALTER PAHLAVI LETTER MEM-QOPH", 68491>>, <<"PSALTER PAHLAVI LETTER NUN", 68492>>,
    <<"PSALTER PAHLAVI LETTER SAMEKH", 68493>>, <<"PSALTER PAHLAVI LETTER PE", 68494>>,
    <<"PSALTER PAHLAVI LETTER SADHE", 68495>>, <<"PSALTER PAHLAVI LETTER SHIN", 68496>>,
    <<"PSALTER PAHLAVI LETTER TAW", 68497>>, <<"PSALTER PAHLAVI SECTION MARK", 68505>>,
    <<"PSALTER PAHLAVI TURNED SECTION MARK", 68506>>,
    <<"PSALTER PAHLAVI FOUR DOTS WITH CROSS", 68507>>, <<"PSALTER PAHLAVI FOUR DOTS WITH DOT", 68508>>,
    <<"PSALTER PAHLAVI NUMBER ONE", 68521>>, <<"PSALTER PAHLAVI NUMBER TWO", 68522>>,
    <<"PSALTER PAHLAVI NUMBER THREE", 68523>>, <<"PSALTER PAHLAVI NUMBER FOUR", 68524>>,
    <<"PSALTER PAHLAVI NUMBER TEN", 68525>>, <<"PSALTER PAHLAVI NUMBER TWENTY", 68526>>,
    <<"PSALTER PAHLAVI NUMBER ONE HUNDRED", 68527>>, <<"OLD TURKIC LETTER ORKHON A", 68608>>,
    <<"OLD TURKIC LETTER YENISEI A", 68609>>, <<"OLD TURKIC LETTER YENISEI AE", 68610>>,
    <<"OLD TURKIC LETTER ORKHON I", 68611>>, <<"OLD TURKIC LETTER YENISEI I", 68612>>,
    <<"OLD TURKIC LETTER YENISEI E", 68613>>, <<"OLD TURKIC LETTER ORKHON O", 68614>>,
    <<"OLD TURKIC LETTER ORKHON OE", 68615>>, <<"OLD TURKIC LETTER YENISEI OE", 68616>>,
    <<"OLD TURKIC LETTER ORKHON AB", 68617>>, <<"OLD TURKIC LETTER YENISEI AB", 68618>>,
    <<"OLD TURKIC LETTER ORKHON AEB", 68619>>, <<"OLD TURKIC LETTER YENISEI AEB", 68620>>,
    <<"OLD TURKIC LETTER ORKHON AG", 68621>>, <<"OLD TURKIC LETTER YENISEI AG", 68622>>,
    <<"OLD TURKIC LETTER ORKHON AEG", 68623>>, <<"OLD TURKIC LETTER YENISEI AEG", 68624>>,
    <<"OLD TURKIC LETTER ORKHON AD", 68625>>, <<"OLD TURKIC LETTER YENISEI AD", 68626>>,
    <<"OLD TURKIC LETTER ORKHON AED", 68627>>, <<"OLD TURKIC LETTER ORKHON EZ", 68628>>,
    <<"OLD TURKIC LETTER YENISEI EZ", 68629>>, <<"OLD TURKIC LETTER ORKHON AY", 68630>>,
    <<"OLD TURKIC LETTER YENISEI AY", 68631>>, <<"OLD TURKIC LETTER ORKHON AEY", 68632>>,
    <<"OLD TURKIC LETTER YENISEI AEY", 68633>>, <<"OLD TURKIC LETTER ORKHON AEK", 68634>>,
    <<"OLD TURKIC LETTER YENISEI AEK", 68635>>, <<"OLD TURKIC LETTER ORKHON OEK", 68636>>,
    <<"OLD TURKIC LETTER YENISEI OEK", 68637>>, <<"OLD TURKIC LETTER ORKHON AL", 68638>>,
    <<"OLD TURKIC LETTER YENISEI AL", 68639>>, <<"OLD TURKIC LETTER ORKHON AEL", 68640>>,
    <<"OLD TURKIC LETTER ORKHON ELT", 68641>>, <<"OLD TURKIC LETTER ORKHON EM", 68642>>,
    <<"OLD TURKIC LETTER ORKHON AN", 68643>>, <<"OLD TURKIC LETTER ORKHON AEN", 68644>>,
    <<"OLD TURKIC LETTER YENISEI AEN", 68645>>, <<"OLD TURKIC LETTER ORKHON ENT", 68646>>,
    <<"OLD TURKIC LETTER YENISEI ENT", 68647>>, <<"OLD TURKIC LETTER ORKHON ENC", 68648>>,
    <<"OLD TURKIC LETTER YENISEI ENC", 68649>>, <<"OLD TURKIC LETTER ORKHON ENY", 68650>>,
    <<"OLD TURKIC LETTER YENISEI ENY", 68651>>, <<"OLD TURKIC LETTER YENISEI ANG", 68652>>,
    <<"OLD TURKIC LETTER ORKHON ENG", 68653>>, <<"OLD TURKIC LETTER YENISEI AENG", 68654>>,
    <<"OLD TURKIC LETTER ORKHON EP", 68655>>, <<"OLD TURKIC LETTER ORKHON OP", 68656>>,
    <<"OLD TURKIC LETTER ORKHON IC", 68657>>, <<"OLD TURKIC LETTER ORKHON EC", 68658>>,
    <<"OLD TURKIC LETTER YENISEI EC", 68659>>, <<"OLD TURKIC LETTER ORKHON AQ", 68660>>,
    <<"OLD TURKIC LETTER YENISEI AQ", 68661>>, <<"OLD TURKIC LETTER ORKHON IQ", 68662>>,
    <<"OLD TURKIC LETTER YENISEI IQ", 68663>>, <<"OLD TURKIC LETTER ORKHON OQ", 68664>>,
    <<"OLD TURKIC LETTER YENISEI OQ", 68665>>, <<"OLD TURKIC LETTER ORKHON AR", 68666>>,
    <<"OLD TURKIC LETTER YENISEI AR", 68667>>, <<"OLD TURKIC LETTER ORKHON AER", 68668>>,
    <<"OLD TURKIC LETTER ORKHON AS", 68669>>, <<"OLD TURKIC LETTER ORKHON AES", 68670>>,
    <<"OLD TURKIC LETTER ORKHON ASH", 68671>>, <<"OLD TURKIC LETTER YENISEI ASH", 68672>>,
    <<"OLD TURKIC LETTER ORKHON ESH", 68673>>, <<"OLD TURKIC LETTER YENISEI ESH", 68674>>,
    <<"OLD TURKIC LETTER ORKHON AT", 68675>>, <<"OLD TURKIC LETTER YENISEI AT", 68676>>,
    <<"OLD TURKIC LETTER ORKHON AET", 68677>>, <<"OLD TURKIC LETTER YENISEI AET", 68678>>,
    <<"OLD TURKIC LETTER ORKHON OT", 68679>>, <<"OLD TURKIC LETTER ORKHON BASH", 68680>>,
    <<"OLD HUNGARIAN CAPITAL LETTER A", 68736>>, <<"OLD HUNGARIAN CAPITAL LETTER AA", 68737>>,
    <<"OLD HUNGARIAN CAPITAL LETTER EB", 68738>>, <<"OLD HUNGARIAN CAPITAL LETTER AMB", 68739>>,
    <<"OLD HUNGARIAN CAPITAL LETTER EC", 68740>>, <<"OLD HUNGARIAN CAPITAL LETTER ENC", 68741>>,
    <<"OLD HUNGARIAN CAPITAL LETTER ECS", 68742>>, <<"OLD HUNGARIAN CAPITAL LETTER ED", 68743>>,
    <<"OLD HUNGARIAN CAPITAL LETTER AND", 68744>>, <<"OLD HUNGARIAN CAPITAL LETTER E", 68745>>,
    <<"OLD HUNGARIAN CAPITAL LETTER CLOSE E", 68746>>, <<"OLD HUNGARIAN CAPITAL LETTER EE", 68747>>,
    <<"OLD HUNGARIAN CAPITAL LETTER EF", 68748>>, <<"OLD HUNGARIAN CAPITAL LETTER EG", 68749>>,
    <<"OLD HUNGARIAN CAPITAL LETTER EGY", 68750>>, <<"OLD HUNGARIAN CAPITAL LETTER EH", 68751>>,
    <<"OLD HUNGARIAN CAPITAL LETTER I", 68752>>, <<"OLD HUNGARIAN CAPITAL LETTER II", 68753>>,
    <<"OLD HUNGARIAN CAPITAL LETTER EJ", 68754>>, <<"OLD HUNGARIAN CAPITAL LETTER EK", 68755>>,
    <<"OLD HUNGARIAN CAPITAL LETTER AK", 68756>>, <<"OLD HUNGARIAN CAPITAL LETTER UNK", 68757>>,
    <<"OLD HUNGARIAN CAPITAL LETTER EL", 68758>>, <<"OLD HUNGARIAN CAPITAL LETTER ELY", 68759>>,
    <<"OLD HUNGARIAN CAPITAL LETTER EM", 68760>>, <<"OLD HUNGARIAN CAPITAL LETTER EN", 68761>>,
    <<"OLD HUNGARIAN CAPITAL LETTER ENY", 68762>>, <<"OLD HUNGARIAN CAPITAL LETTER O", 68763>>,
    <<"OLD HUNGARIAN CAPITAL LETTER OO", 68764>>,
    <<"OLD HUNGARIAN CAPITAL LETTER NIKOLSBURG OE", 68765>>,
    <<"OLD HUNGARIAN CAPITAL LETTER RUDIMENTA OE", 68766>>,
    <<"OLD HUNGARIAN CAPITAL LETTER OEE", 68767>>, <<"OLD HUNGARIAN CAPITAL LETTER EP", 68768>>,
    <<"OLD HUNGARIAN CAPITAL LETTER EMP", 68769>>, <<"OLD HUNGARIAN CAPITAL LETTER ER", 68770>>,
    <<"OLD HUNGARIAN CAPITAL LETTER SHORT ER", 68771>>, <<"OLD HUNGARIAN CAPITAL LETTER ES", 68772>>,
    <<"OLD HUNGARIAN CAPITAL LETTER ESZ", 68773>>, <<"OLD HUNGARIAN CAPITAL LETTER ET", 68774>>,
    <<"OLD HUNGARIAN CAPITAL LETTER ENT", 68775>>, <<"OLD HUNGARIAN CAPITAL LETTER ETY", 68776>>,
    <<"OLD HUNGARIAN CAPITAL LETTER ECH", 68777>>, <<"OLD HUNGARIAN CAPITAL LETTER U", 68778>>,
    <<"OLD HUNGARIAN CAPITAL LETTER UU", 68779>>,
    <<"OLD HUNGARIAN CAPITAL LETTER NIKOLSBURG UE", 68780>>,
    <<"OLD HUNGARIAN CAPITAL LETTER RUDIMENTA UE", 68781>>,
    <<"OLD HUNGARIAN CAPITAL LETTER EV", 68782>>, <<"OLD HUNGARIAN CAPITAL LETTER EZ", 68783>>,
    <<"OLD HUNGARIAN CAPITAL LETTER EZS", 68784>>,
    <<"OLD HUNGARIAN CAPITAL LETTER ENT-SHAPED SIGN", 68785>>,
    <<"OLD HUNGARIAN CAPITAL LETTER US", 68786>>, <<"OLD HUNGARIAN SMALL LETTER A", 68800>>,
    <<"OLD HUNGARIAN SMALL LETTER AA", 68801>>, <<"OLD HUNGARIAN SMALL LETTER EB", 68802>>,
    <<"OLD HUNGARIAN SMALL LETTER AMB", 68803>>, <<"OLD HUNGARIAN SMALL LETTER EC", 68804>>,
    <<"OLD HUNGARIAN SMALL LETTER ENC", 68805>>, <<"OLD HUNGARIAN SMALL LETTER ECS", 68806>>,
    <<"OLD HUNGARIAN SMALL LETTER ED", 68807>>, <<"OLD HUNGARIAN SMALL LETTER AND", 68808>>,
    <<"OLD HUNGARIAN SMALL LETTER E", 68809>>, <<"OLD HUNGARIAN SMALL LETTER CLOSE E", 68810>>,
    <<"OLD HUNGARIAN SMALL LETTER EE", 68811>>, <<"OLD HUNGARIAN SMALL LETTER EF", 68812>>,
    <<"OLD HUNGARIAN SMALL LETTER EG", 68813>>, <<"OLD HUNGARIAN SMALL LETTER EGY", 68814>>,
    <<"OLD HUNGARIAN SMALL LETTER EH", 68815>>, <<"OLD HUNGARIAN SMALL LETTER I", 68816>>,
    <<"OLD HUNGARIAN SMALL LETTER II", 68817>>, <<"OLD HUNGARIAN SMALL LETTER EJ", 68818>>,
    <<"OLD HUNGARIAN SMALL LETTER EK", 68819>>, <<"OLD HUNGARIAN SMALL LETTER AK", 68820>>,
    <<"OLD HUNGARIAN SMALL LETTER UNK", 68821>>, <<"OLD HUNGARIAN SMALL LETTER EL", 68822>>,
    <<"OLD HUNGARIAN SMALL LETTER ELY", 68823>>, <<"OLD HUNGARIAN SMALL LETTER EM", 68824>>,
    <<"OLD HUNGARIAN SMALL LETTER EN", 68825>>, <<"OLD HUNGARIAN SMALL LETTER ENY", 68826>>,
    <<"OLD HUNGARIAN SMALL LETTER O", 68827>>, <<"OLD HUNGARIAN SMALL LETTER OO", 68828>>,
    <<"OLD HUNGARIAN SMALL LETTER NIKOLSBURG OE", 68829>>,
    <<"OLD HUNGARIAN SMALL LETTER RUDIMENTA OE", 68830>>, <<"OLD HUNGARIAN SMALL LETTER OEE", 68831>>,
    <<"OLD HUNGARIAN SMALL LETTER EP", 68832>>, <<"OLD HUNGARIAN SMALL LETTER EMP", 68833>>,
    <<"OLD HUNGARIAN SMALL LETTER ER", 68834>>, <<"OLD HUNGARIAN SMALL LETTER SHORT ER", 68835>>,
    <<"OLD HUNGARIAN SMALL LETTER ES", 68836>>, <<"OLD HUNGARIAN SMALL LETTER ESZ", 68837>>,
    <<"OLD HUNGARIAN SMALL LETTER ET", 68838>>, <<"OLD HUNGARIAN SMALL LETTER ENT", 68839>>,
    <<"OLD HUNGARIAN SMALL LETTER ETY", 68840>>, <<"OLD HUNGARIAN SMALL LETTER ECH", 68841>>,
    <<"OLD HUNGARIAN SMALL LETTER U", 68842>>, <<"OLD HUNGARIAN SMALL LETTER UU", 68843>>,
    <<"OLD HUNGARIAN SMALL LETTER NIKOLSBURG UE", 68844>>,
    <<"OLD HUNGARIAN SMALL LETTER RUDIMENTA UE", 68845>>, <<"OLD HUNGARIAN SMALL LETTER EV", 68846>>,
    <<"OLD HUNGARIAN SMALL LETTER EZ", 68847>>, <<"OLD HUNGARIAN SMALL LETTER EZS", 68848>>,
    <<"OLD HUNGARIAN SMALL LETTER ENT-SHAPED SIGN", 68849>>,
    <<"OLD HUNGARIAN SMALL LETTER US", 68850>>, <<"OLD HUNGARIAN NUMBER ONE", 68858>>,
    <<"OLD HUNGARIAN NUMBER FIVE", 68859>>, <<"OLD HUNGARIAN NUMBER TEN", 68860>>,
    <<"OLD HUNGARIAN NUMBER FIFTY", 68861>>, <<"OLD HUNGARIAN NUMBER ONE HUNDRED", 68862>>,
    <<"OLD HUNGARIAN NUMBER ONE THOUSAND", 68863>>, <<"HANIFI ROHINGYA LETTER A", 68864>>,
    <<"HANIFI ROHINGYA LETTER BA", 68865>>, <<"HANIFI ROHINGYA LETTER PA", 68866>>,
    <<"HANIFI ROHINGYA LETTER TA", 68867>>, <<"HANIFI ROHINGYA LETTER TTA", 68868>>,
    <<"HANIFI ROHINGYA LETTER JA", 68869>>, <<"HANIFI ROHINGYA LETTER CA", 68870>>,
    <<"HANIFI ROHINGYA LETTER HA", 68871>>, <<"HANIFI ROHINGYA LETTER KHA", 68872>>,
    <<"HANIFI ROHINGYA LETTER FA", 68873>>, <<"HANIFI ROHINGYA LETTER DA", 68874>>,
    <<"HANIFI ROHINGYA LETTER DDA", 68875>>, <<"HANIFI ROHINGYA LETTER RA", 68876>>,
    <<"HANIFI ROHINGYA LETTER RRA", 68877>>, <<"HANIFI ROHINGYA LETTER ZA", 68878>>,
    <<"HANIFI ROHINGYA LETTER SA", 68879>>, <<"HANIFI ROHINGYA LETTER SHA", 68880>>,
    <<"HANIFI ROHINGYA LETTER KA", 68881>>, <<"HANIFI ROHINGYA LETTER GA", 68882>>,
    <<"HANIFI ROHINGYA LETTER LA", 68883>>, <<"HANIFI ROHINGYA LETTER MA", 68884>>,
    <<"HANIFI ROHINGYA LETTER NA", 68885>>, <<"HANIFI ROHINGYA LETTER WA", 68886>>,
    <<"HANIFI ROHINGYA LETTER KINNA WA", 68887>>, <<"HANIFI ROHINGYA LETTER YA", 68888>>,
    <<"HANIFI ROHINGYA LETTER KINNA YA", 68889>>, <<"HANIFI ROHINGYA LETTER NGA", 68890>>,
    <<"HANIFI ROHINGYA LETTER NYA", 68891>>, <<"HANIFI ROHINGYA LETTER VA", 68892>>,
    <<"HANIFI ROHINGYA VOWEL A", 68893>>, <<"HANIFI ROHINGYA VOWEL I", 68894>>,
    <<"HANIFI ROHINGYA VOWEL U", 68895>>, <<"HANIFI ROHINGYA VOWEL E", 68896>>,
    <<"HANIFI ROHINGYA VOWEL O", 68897>>, <<"HANIFI ROHINGYA MARK SAKIN", 68898>>,
    <<"HANIFI ROHINGYA MARK NA KHONNA", 68899>>, <<"HANIFI ROHINGYA SIGN HARBAHAY", 68900>>,
    <<"HANIFI ROHINGYA SIGN TAHALA", 68901>>, <<"HANIFI ROHINGYA SIGN TANA", 68902>>,
    <<"HANIFI ROHINGYA SIGN TASSI", 68903>>, <<"HANIFI ROHINGYA DIGIT ZERO", 68912>>,
    <<"HANIFI ROHINGYA DIGIT ONE", 68913>>, <<"HANIFI ROHINGYA DIGIT TWO", 68914>>,
    <<"HANIFI ROHINGYA DIGIT THREE", 68915>>, <<"HANIFI ROHINGYA DIGIT FOUR", 68916>>,
    <<"HANIFI ROHINGYA DIGIT FIVE", 68917>>, <<"HANIFI ROHINGYA DIGIT SIX", 68918>>,
    <<"HANIFI ROHINGYA DIGIT SEVEN", 68919>>, <<"HANIFI ROHINGYA DIGIT EIGHT", 68920>>,
    <<"HANIFI ROHINGYA DIGIT NINE", 68921>>, <<"RUMI DIGIT ONE", 69216>>, <<"RUMI DIGIT TWO", 69217>>,
    <<"RUMI DIGIT THREE", 69218>>, <<"RUMI DIGIT FOUR", 69219>>, <<"RUMI DIGIT FIVE", 69220>>,
    <<"RUMI DIGIT SIX", 69221>>, <<"RUMI DIGIT SEVEN", 69222>>, <<"RUMI DIGIT EIGHT", 69223>>,
    <<"RUMI DIGIT NINE", 69224>>, <<"RUMI NUMBER TEN", 69225>>, <<"RUMI NUMBER TWENTY", 69226>>,
    <<"RUMI NUMBER THIRTY", 69227>>, <<"RUMI NUMBER FORTY", 69228>>, <<"RUMI NUMBER FIFTY", 69229>>,
    <<"RUMI NUMBER SIXTY", 69230>>, <<"RUMI NUMBER SEVENTY", 69231>>, <<"RUMI NUMBER EIGHTY", 69232>>,
    <<"RUMI NUMBER NINETY", 69233>>, <<"RUMI NUMBER ONE HUNDRED", 69234>>,
    <<"RUMI NUMBER TWO HUNDRED", 69235>>, <<"RUMI NUMBER THREE HUNDRED", 69236>>,
    <<"RUMI NUMBER FOUR HUNDRED", 69237>>, <<"RUMI NUMBER FIVE HUNDRED", 69238>>,
    <<"RUMI NUMBER SIX HUNDRED", 69239>>, <<"RUMI NUMBER SEVEN HUNDRED", 69240>>,
    <<"RUMI NUMBER EIGHT HUNDRED", 69241>>, <<"RUMI NUMBER NINE HUNDRED", 69242>>,
    <<"RUMI FRACTION ONE HALF", 69243>>, <<"RUMI FRACTION ONE QUARTER", 69244>>,
    <<"RUMI FRACTION ONE THIRD", 69245>>, <<"RUMI FRACTION TWO THIRDS", 69246>>,
    <<"YEZIDI LETTER ELIF", 69248>>, <<"YEZIDI LETTER BE", 69249>>, <<"YEZIDI LETTER PE", 69250>>,
    <<"YEZIDI LETTER PHE", 69251>>, <<"YEZIDI LETTER THE", 69252>>, <<"YEZIDI LETTER SE", 69253>>,
    <<"YEZIDI LETTER CIM", 69254>>, <<"YEZIDI LETTER CHIM", 69255>>, <<"YEZIDI LETTER CHHIM", 69256>>,
    <<"YEZIDI LETTER HHA", 69257>>, <<"YEZIDI LETTER XA", 69258>>, <<"YEZIDI LETTER DAL", 69259>>,
    <<"YEZIDI LETTER ZAL", 69260>>, <<"YEZIDI LETTER RA", 69261>>, <<"YEZIDI LETTER RHA", 69262>>,
    <<"YEZIDI LETTER ZA", 69263>>, <<"YEZIDI LETTER JA", 69264>>, <<"YEZIDI LETTER SIN", 69265>>,
    <<"YEZIDI LETTER SHIN", 69266>>, <<"YEZIDI LETTER SAD", 69267>>, <<"YEZIDI LETTER DAD", 69268>>,
    <<"YEZIDI LETTER TA", 69269>>, <<"YEZIDI LETTER ZE", 69270>>, <<"YEZIDI LETTER EYN", 69271>>,
    <<"YEZIDI LETTER XHEYN", 69272>>, <<"YEZIDI LETTER FA", 69273>>, <<"YEZIDI LETTER VA", 69274>>,
    <<"YEZIDI LETTER VA ALTERNATE FORM", 69275>>, <<"YEZIDI LETTER QAF", 69276>>,
    <<"YEZIDI LETTER KAF", 69277>>, <<"YEZIDI LETTER KHAF", 69278>>, <<"YEZIDI LETTER GAF", 69279>>,
    <<"YEZIDI LETTER LAM", 69280>>, <<"YEZIDI LETTER MIM", 69281>>, <<"YEZIDI LETTER NUN", 69282>>,
    <<"YEZIDI LETTER UM", 69283>>, <<"YEZIDI LETTER WAW", 69284>>, <<"YEZIDI LETTER OW", 69285>>,
    <<"YEZIDI LETTER EW", 69286>>, <<"YEZIDI LETTER HAY", 69287>>, <<"YEZIDI LETTER YOT", 69288>>,
    <<"YEZIDI LETTER ET", 69289>>, <<"YEZIDI COMBINING HAMZA MARK", 69291>>,
    <<"YEZIDI COMBINING MADDA MARK", 69292>>, <<"YEZIDI HYPHENATION MARK", 69293>>,
    <<"YEZIDI LETTER LAM WITH DOT ABOVE", 69296>>,
    <<"YEZIDI LETTER YOT WITH CIRCUMFLEX ABOVE", 69297>>, <<"OLD SOGDIAN LETTER ALEPH", 69376>>,
    <<"OLD SOGDIAN LETTER FINAL ALEPH", 69377>>, <<"OLD SOGDIAN LETTER BETH", 69378>>,
    <<"OLD SOGDIAN LETTER FINAL BETH", 69379>>, <<"OLD SOGDIAN LETTER GIMEL", 69380>>,
    <<"OLD SOGDIAN LETTER HE", 69381>>, <<"OLD SOGDIAN LETTER FINAL HE", 69382>>,
    <<"OLD SOGDIAN LETTER WAW", 69383>>, <<"OLD SOGDIAN LETTER ZAYIN", 69384>>,
    <<"OLD SOGDIAN LETTER HETH", 69385>>, <<"OLD SOGDIAN LETTER YODH", 69386>>,
    <<"OLD SOGDIAN LETTER KAPH", 69387>>, <<"OLD SOGDIAN LETTER LAMEDH", 69388>>,
    <<"OLD SOGDIAN LETTER MEM", 69389>>, <<"OLD SOGDIAN LETTER NUN", 69390>>,
    <<"OLD SOGDIAN LETTER FINAL NUN", 69391>>,
    <<"OLD SOGDIAN LETTER FINAL NUN WITH VERTICAL TAIL", 69392>>,
    <<"OLD SOGDIAN LETTER SAMEKH", 69393>>, <<"OLD SOGDIAN LETTER AYIN", 69394>>,
    <<"OLD SOGDIAN LETTER ALTERNATE AYIN", 69395>>, <<"OLD SOGDIAN LETTER PE", 69396>>,
    <<"OLD SOGDIAN LETTER SADHE", 69397>>, <<"OLD SOGDIAN LETTER FINAL SADHE", 69398>>,
    <<"OLD SOGDIAN LETTER FINAL SADHE WITH VERTICAL TAIL", 69399>>,
    <<"OLD SOGDIAN LETTER RESH-AYIN-DALETH", 69400>>, <<"OLD SOGDIAN LETTER SHIN", 69401>>,
    <<"OLD SOGDIAN LETTER TAW", 69402>>, <<"OLD SOGDIAN LETTER FINAL TAW", 69403>>,
    <<"OLD SOGDIAN LETTER FINAL TAW WITH VERTICAL TAIL", 69404>>, <<"OLD SOGDIAN NUMBER ONE", 69405>>,
    <<"OLD SOGDIAN NUMBER TWO", 69406>>, <<"OLD SOGDIAN NUMBER THREE", 69407>>,
    <<"OLD SOGDIAN NUMBER FOUR", 69408>>, <<"OLD SOGDIAN NUMBER FIVE", 69409>>,
    <<"OLD SOGDIAN NUMBER TEN", 69410>>, <<"OLD SOGDIAN NUMBER TWENTY", 69411>>,
    <<"OLD SOGDIAN NUMBER THIRTY", 69412>>, <<"OLD SOGDIAN NUMBER ONE HUNDRED", 69413>>,
    <<"OLD SOGDIAN FRACTION ONE HALF", 69414>>, <<"OLD SOGDIAN LIGATURE AYIN-DALETH", 69415>>,
    <<"SOGDIAN LETTER ALEPH", 69424>>, <<"SOGDIAN LETTER BETH", 69425>>,
    <<"SOGDIAN LETTER GIMEL", 69426>>, <<"SOGDIAN LETTER HE", 69427>>, <<"SOGDIAN LETTER WAW", 69428>>,
    <<"SOGDIAN LETTER ZAYIN", 69429>>, <<"SOGDIAN LETTER HETH", 69430>>,
    <<"SOGDIAN LETTER YODH", 69431>>, <<"SOGDIAN LETTER KAPH", 69432>>,
    <<"SOGDIAN LETTER LAMEDH", 69433>>, <<"SOGDIAN LETTER MEM", 69434>>,
    <<"SOGDIAN LETTER NUN", 69435>>, <<"SOGDIAN LETTER SAMEKH", 69436>>,
    <<"SOGDIAN LETTER AYIN", 69437>>, <<"SOGDIAN LETTER PE", 69438>>,
    <<"SOGDIAN LETTER SADHE", 69439>>, <<"SOGDIAN LETTER RESH-AYIN", 69440>>,
    <<"SOGDIAN LETTER SHIN", 69441>>, <<"SOGDIAN LETTER TAW", 69442>>,
    <<"SOGDIAN LETTER FETH", 69443>>, <<"SOGDIAN LETTER LESH", 69444>>,
    <<"SOGDIAN INDEPENDENT SHIN", 69445>>, <<"SOGDIAN COMBINING DOT BELOW", 69446>>,
    <<"SOGDIAN COMBINING TWO DOTS BELOW", 69447>>, <<"SOGDIAN COMBINING DOT ABOVE", 69448>>,
    <<"SOGDIAN COMBINING TWO DOTS ABOVE", 69449>>, <<"SOGDIAN COMBINING CURVE ABOVE", 69450>>,
    <<"SOGDIAN COMBINING CURVE BELOW", 69451>>, <<"SOGDIAN COMBINING HOOK ABOVE", 69452>>,
    <<"SOGDIAN COMBINING HOOK BELOW", 69453>>, <<"SOGDIAN COMBINING LONG HOOK BELOW", 69454>>,
    <<"SOGDIAN COMBINING RESH BELOW", 69455>>, <<"SOGDIAN COMBINING STROKE BELOW", 69456>>,
    <<"SOGDIAN NUMBER ONE", 69457>>, <<"SOGDIAN NUMBER TEN", 69458>>,
    <<"SOGDIAN NUMBER TWENTY", 69459>>, <<"SOGDIAN NUMBER ONE HUNDRED", 69460>>,
    <<"SOGDIAN PUNCTUATION TWO VERTICAL BARS", 69461>>,
    <<"SOGDIAN PUNCTUATION TWO VERTICAL BARS WITH DOTS", 69462>>,
    <<"SOGDIAN PUNCTUATION CIRCLE WITH DOT", 69463>>,
    <<"SOGDIAN PUNCTUATION TWO CIRCLES WITH DOTS", 69464>>,
    <<"SOGDIAN PUNCTUATION HALF CIRCLE WITH DOT", 69465>>, <<"OLD UYGHUR LETTER ALEPH", 69488>>,
    <<"OLD UYGHUR LETTER BETH", 69489>>, <<"OLD UYGHUR LETTER GIMEL-HETH", 69490>>,
    <<"OLD UYGHUR LETTER WAW", 69491>>, <<"OLD UYGHUR LETTER ZAYIN", 69492>>,
    <<"OLD UYGHUR LETTER FINAL HETH", 69493>>, <<"OLD UYGHUR LETTER YODH", 69494>>,
    <<"OLD UYGHUR LETTER KAPH", 69495>>, <<"OLD UYGHUR LETTER LAMEDH", 69496>>,
    <<"OLD UYGHUR LETTER MEM", 69497>>, <<"OLD UYGHUR LETTER NUN", 69498>>,
    <<"OLD UYGHUR LETTER SAMEKH", 69499>>, <<"OLD UYGHUR LETTER PE", 69500>>,
    <<"OLD UYGHUR LETTER SADHE", 69501>>, <<"OLD UYGHUR LETTER RESH", 69502>>,
    <<"OLD UYGHUR LETTER SHIN", 69503>>, <<"OLD UYGHUR LETTER TAW", 69504>>,
    <<"OLD UYGHUR LETTER LESH", 69505>>, <<"OLD UYGHUR COMBINING DOT ABOVE", 69506>>,
    <<"OLD UYGHUR COMBINING DOT BELOW", 69507>>, <<"OLD UYGHUR COMBINING TWO DOTS ABOVE", 69508>>,
    <<"OLD UYGHUR COMBINING TWO DOTS BELOW", 69509>>, <<"OLD UYGHUR PUNCTUATION BAR", 69510>>,
    <<"OLD UYGHUR PUNCTUATION TWO BARS", 69511>>, <<"OLD UYGHUR PUNCTUATION TWO DOTS", 69512>>,
    <<"OLD UYGHUR PUNCTUATION FOUR DOTS", 69513>>, <<"CHORASMIAN LETTER ALEPH", 69552>>,
    <<"CHORASMIAN LETTER SMALL ALEPH", 69553>>, <<"CHORASMIAN LETTER BETH", 69554>>,
    <<"CHORASMIAN LETTER GIMEL", 69555>>, <<"CHORASMIAN LETTER DALETH", 69556>>,
    <<"CHORASMIAN LETTER HE", 69557>>, <<"CHORASMIAN LETTER WAW", 69558>>,
    <<"CHORASMIAN LETTER CURLED WAW", 69559>>, <<"CHORASMIAN LETTER ZAYIN", 69560>>,
    <<"CHORASMIAN LETTER HETH", 69561>>, <<"CHORASMIAN LETTER YODH", 69562>>,
    <<"CHORASMIAN LETTER KAPH", 69563>>, <<"CHORASMIAN LETTER LAMEDH", 69564>>,
    <<"CHORASMIAN LETTER MEM", 69565>>, <<"CHORASMIAN LETTER NUN", 69566>>,
    <<"CHORASMIAN LETTER SAMEKH", 69567>>, <<"CHORASMIAN LETTER AYIN", 69568>>,
    <<"CHORASMIAN LETTER PE", 69569>>, <<"CHORASMIAN LETTER RESH", 69570>>,
    <<"CHORASMIAN LETTER SHIN", 69571>>, <<"CHORASMIAN LETTER TAW", 69572>>,
    <<"CHORASMIAN NUMBER ONE", 69573>>, <<"CHORASMIAN NUMBER TWO", 69574>>,
    <<"CHORASMIAN NUMBER THREE", 69575>>, <<"CHORASMIAN NUMBER FOUR", 69576>>,
    <<"CHORASMIAN NUMBER TEN", 69577>>, <<"CHORASMIAN NUMBER TWENTY", 69578>>,
    <<"CHORASMIAN NUMBER ONE HUNDRED", 69579>>, <<"ELYMAIC LETTER ALEPH", 69600>>,
    <<"ELYMAIC LETTER BETH", 69601>>, <<"ELYMAIC LETTER GIMEL", 69602>>,
    <<"ELYMAIC LETTER DALETH", 69603>>, <<"ELYMAIC LETTER HE", 69604>>,
    <<"ELYMAIC LETTER WAW", 69605>>, <<"ELYMAIC LETTER ZAYIN", 69606>>,
    <<"ELYMAIC LETTER HETH", 69607>>, <<"ELYMAIC LETTER TETH", 69608>>,
    <<"ELYMAIC LETTER YODH", 69609>>, <<"ELYMAIC LETTER KAPH", 69610>>,
    <<"ELYMAIC LETTER LAMEDH", 69611>>, <<"ELYMAIC LETTER MEM", 69612>>,
    <<"ELYMAIC LETTER NUN", 69613>>, <<"ELYMAIC LETTER SAMEKH", 69614>>,
    <<"ELYMAIC LETTER AYIN", 69615>>, <<"ELYMAIC LETTER PE", 69616>>,
    <<"ELYMAIC LETTER SADHE", 69617>>, <<"ELYMAIC LETTER QOPH", 69618>>,
    <<"ELYMAIC LETTER RESH", 69619>>, <<"ELYMAIC LETTER SHIN", 69620>>,
    <<"ELYMAIC LETTER TAW", 69621>>, <<"ELYMAIC LIGATURE ZAYIN-YODH", 69622>>,
    <<"BRAHMI SIGN CANDRABINDU", 69632>>, <<"BRAHMI SIGN ANUSVARA", 69633>>,
    <<"BRAHMI SIGN VISARGA", 69634>>, <<"BRAHMI SIGN JIHVAMULIYA", 69635>>,
    <<"BRAHMI SIGN UPADHMANIYA", 69636>>, <<"BRAHMI LETTER A", 69637>>, <<"BRAHMI LETTER AA", 69638>>,
    <<"BRAHMI LETTER I", 69639>>, <<"BRAHMI LETTER II", 69640>>, <<"BRAHMI LETTER U", 69641>>,
    <<"BRAHMI LETTER UU", 69642>>, <<"BRAHMI LETTER VOCALIC R", 69643>>,
    <<"BRAHMI LETTER VOCALIC RR", 69644>>, <<"BRAHMI LETTER VOCALIC L", 69645>>,
    <<"BRAHMI LETTER VOCALIC LL", 69646>>, <<"BRAHMI LETTER E", 69647>>, <<"BRAHMI LETTER AI", 69648>>,
    <<"BRAHMI LETTER O", 69649>>, <<"BRAHMI LETTER AU", 69650>>, <<"BRAHMI LETTER KA", 69651>>,
    <<"BRAHMI LETTER KHA", 69652>>, <<"BRAHMI LETTER GA", 69653>>, <<"BRAHMI LETTER GHA", 69654>>,
    <<"BRAHMI LETTER NGA", 69655>>, <<"BRAHMI LETTER CA", 69656>>, <<"BRAHMI LETTER CHA", 69657>>,
    <<"BRAHMI LETTER JA", 69658>>, <<"BRAHMI LETTER JHA", 69659>>, <<"BRAHMI LETTER NYA", 69660>>,
    <<"BRAHMI LETTER TTA", 69661>>, <<"BRAHMI LETTER TTHA", 69662>>, <<"BRAHMI LETTER DDA", 69663>>,
    <<"BRAHMI LETTER DDHA", 69664>>, <<"BRAHMI LETTER NNA", 69665>>, <<"BRAHMI LETTER TA", 69666>>,
    <<"BRAHMI LETTER THA", 69667>>, <<"BRAHMI LETTER DA", 69668>>, <<"BRAHMI LETTER DHA", 69669>>,
    <<"BRAHMI LETTER NA", 69670>>, <<"BRAHMI LETTER PA", 69671>>, <<"BRAHMI LETTER PHA", 69672>>,
    <<"BRAHMI LETTER BA", 69673>>, <<"BRAHMI LETTER BHA", 69674>>, <<"BRAHMI LETTER MA", 69675>>,
    <<"BRAHMI LETTER YA", 69676>>, <<"BRAHMI LETTER RA", 69677>>, <<"BRAHMI LETTER LA", 69678>>,
    <<"BRAHMI LETTER VA", 69679>>, <<"BRAHMI LETTER SHA", 69680>>, <<"BRAHMI LETTER SSA", 69681>>,
    <<"BRAHMI LETTER SA", 69682>>, <<"BRAHMI LETTER HA", 69683>>, <<"BRAHMI LETTER LLA", 69684>>,
    <<"BRAHMI LETTER OLD TAMIL LLLA", 69685>>, <<"BRAHMI LETTER OLD TAMIL RRA", 69686>>,
    <<"BRAHMI LETTER OLD TAMIL NNNA", 69687>>, <<"BRAHMI VOWEL SIGN AA", 69688>>,
    <<"BRAHMI VOWEL SIGN BHATTIPROLU AA", 69689>>, <<"BRAHMI VOWEL SIGN I", 69690>>,
    <<"BRAHMI VOWEL SIGN II", 69691>>, <<"BRAHMI VOWEL SIGN U", 69692>>,
    <<"BRAHMI VOWEL SIGN UU", 69693>>, <<"BRAHMI VOWEL SIGN VOCALIC R", 69694>>,
    <<"BRAHMI VOWEL SIGN VOCALIC RR", 69695>>, <<"BRAHMI VOWEL SIGN VOCALIC L", 69696>>,
    <<"BRAHMI VOWEL SIGN VOCALIC LL", 69697>>, <<"BRAHMI VOWEL SIGN E", 69698>>,
    <<"BRAHMI VOWEL SIGN AI", 69699>>, <<"BRAHMI VOWEL SIGN O", 69700>>,
    <<"BRAHMI VOWEL SIGN AU", 69701>>, <<"BRAHMI VIRAMA", 69702>>, <<"BRAHMI DANDA", 69703>>,
    <<"BRAHMI DOUBLE DANDA", 69704>>, <<"BRAHMI PUNCTUATION DOT", 69705>>,
    <<"BRAHMI PUNCTUATION DOUBLE DOT", 69706>>, <<"BRAHMI PUNCTUATION LINE", 69707>>,
    <<"BRAHMI PUNCTUATION CRESCENT BAR", 69708>>, <<"BRAHMI PUNCTUATION LOTUS", 69709>>,
    <<"BRAHMI NUMBER ONE", 69714>>, <<"BRAHMI NUMBER TWO", 69715>>, <<"BRAHMI NUMBER THREE", 69716>>,
    <<"BRAHMI NUMBER FOUR", 69717>>, <<"BRAHMI NUMBER FIVE", 69718>>, <<"BRAHMI NUMBER SIX", 69719>>,
    <<"BRAHMI NUMBER SEVEN", 69720>>, <<"BRAHMI NUMBER EIGHT", 69721>>,
    <<"BRAHMI NUMBER NINE", 69722>>, <<"BRAHMI NUMBER TEN", 69723>>, <<"BRAHMI NUMBER TWENTY", 69724>>,
    <<"BRAHMI NUMBER THIRTY", 69725>>, <<"BRAHMI NUMBER FORTY", 69726>>,
    <<"BRAHMI NUMBER FIFTY", 69727>>, <<"BRAHMI NUMBER SIXTY", 69728>>,
    <<"BRAHMI NUMBER SEVENTY", 69729>>, <<"BRAHMI NUMBER EIGHTY", 69730>>,
    <<"BRAHMI NUMBER NINETY", 69731>>, <<"BRAHMI NUMBER ONE HUNDRED", 69732>>,
    <<"BRAHMI NUMBER ONE THOUSAND", 69733>>, <<"BRAHMI DIGIT ZERO", 69734>>,
    <<"BRAHMI DIGIT ONE", 69735>>, <<"BRAHMI DIGIT TWO", 69736>>, <<"BRAHMI DIGIT THREE", 69737>>,
    <<"BRAHMI DIGIT FOUR", 69738>>, <<"BRAHMI DIGIT FIVE", 69739>>, <<"BRAHMI DIGIT SIX", 69740>>,
    <<"BRAHMI DIGIT SEVEN", 69741>>, <<"BRAHMI DIGIT EIGHT", 69742>>, <<"BRAHMI DIGIT NINE", 69743>>,
    <<"BRAHMI SIGN OLD TAMIL VIRAMA", 69744>>, <<"BRAHMI LETTER OLD TAMIL SHORT E", 69745>>,
    <<"BRAHMI LETTER OLD TAMIL SHORT O", 69746>>, <<"BRAHMI VOWEL SIGN OLD TAMIL SHORT E", 69747>>,
    <<"BRAHMI VOWEL SIGN OLD TAMIL SHORT O", 69748>>, <<"BRAHMI LETTER OLD TAMIL LLA", 69749>>,
    <<"BRAHMI NUMBER JOINER", 69759>>, <<"KAITHI SIGN CANDRABINDU", 69760>>,
    <<"KAITHI SIGN ANUSVARA", 69761>>, <<"KAITHI SIGN VISARGA", 69762>>, <<"KAITHI LETTER A", 69763>>,
    <<"KAITHI LETTER AA", 69764>>, <<"KAITHI LETTER I", 69765>>, <<"KAITHI LETTER II", 69766>>,
    <<"KAITHI LETTER U", 69767>>, <<"KAITHI LETTER UU", 69768>>, <<"KAITHI LETTER E", 69769>>,
    <<"KAITHI LETTER AI", 69770>>, <<"KAITHI LETTER O", 69771>>, <<"KAITHI LETTER AU", 69772>>,
    <<"KAITHI LETTER KA", 69773>>, <<"KAITHI LETTER KHA", 69774>>, <<"KAITHI LETTER GA", 69775>>,
    <<"KAITHI LETTER GHA", 69776>>, <<"KAITHI LETTER NGA", 69777>>, <<"KAITHI LETTER CA", 69778>>,
    <<"KAITHI LETTER CHA", 69779>>, <<"KAITHI LETTER JA", 69780>>, <<"KAITHI LETTER JHA", 69781>>,
    <<"KAITHI LETTER NYA", 69782>>, <<"KAITHI LETTER TTA", 69783>>, <<"KAITHI LETTER TTHA", 69784>>,
    <<"KAITHI LETTER DDA", 69785>>, <<"KAITHI LETTER DDDHA", 69786>>, <<"KAITHI LETTER DDHA", 69787>>,
    <<"KAITHI LETTER RHA", 69788>>, <<"KAITHI LETTER NNA", 69789>>, <<"KAITHI LETTER TA", 69790>>,
    <<"KAITHI LETTER THA", 69791>>, <<"KAITHI LETTER DA", 69792>>, <<"KAITHI LETTER DHA", 69793>>,
    <<"KAITHI LETTER NA", 69794>>, <<"KAITHI LETTER PA", 69795>>, <<"KAITHI LETTER PHA", 69796>>,
    <<"KAITHI LETTER BA", 69797>>, <<"KAITHI LETTER BHA", 69798>>, <<"KAITHI LETTER MA", 69799>>,
    <<"KAITHI LETTER YA", 69800>>, <<"KAITHI LETTER RA", 69801>>, <<"KAITHI LETTER LA", 69802>>,
    <<"KAITHI LETTER VA", 69803>>, <<"KAITHI LETTER SHA", 69804>>, <<"KAITHI LETTER SSA", 69805>>,
    <<"KAITHI LETTER SA", 69806>>, <<"KAITHI LETTER HA", 69807>>, <<"KAITHI VOWEL SIGN AA", 69808>>,
    <<"KAITHI VOWEL SIGN I", 69809>>, <<"KAITHI VOWEL SIGN II", 69810>>,
    <<"KAITHI VOWEL SIGN U", 69811>>, <<"KAITHI VOWEL SIGN UU", 69812>>,
    <<"KAITHI VOWEL SIGN E", 69813>>, <<"KAITHI VOWEL SIGN AI", 69814>>,
    <<"KAITHI VOWEL SIGN O", 69815>>, <<"KAITHI VOWEL SIGN AU", 69816>>,
    <<"KAITHI SIGN VIRAMA", 69817>>, <<"KAITHI SIGN NUKTA", 69818>>,
    <<"KAITHI ABBREVIATION SIGN", 69819>>, <<"KAITHI ENUMERATION SIGN", 69820>>,
    <<"KAITHI NUMBER SIGN", 69821>>, <<"KAITHI SECTION MARK", 69822>>,
    <<"KAITHI DOUBLE SECTION MARK", 69823>>, <<"KAITHI DANDA", 69824>>,
    <<"KAITHI DOUBLE DANDA", 69825>>, <<"KAITHI VOWEL SIGN VOCALIC R", 69826>>,
    <<"KAITHI NUMBER SIGN ABOVE", 69837>>, <<"SORA SOMPENG LETTER SAH", 69840>>,
    <<"SORA SOMPENG LETTER TAH", 69841>>, <<"SORA SOMPENG LETTER BAH", 69842>>,
    <<"SORA SOMPENG LETTER CAH", 69843>>, <<"SORA SOMPENG LETTER DAH", 69844>>,
    <<"SORA SOMPENG LETTER GAH", 69845>>, <<"SORA SOMPENG LETTER MAH", 69846>>,
    <<"SORA SOMPENG LETTER NGAH", 69847>>, <<"SORA SOMPENG LETTER LAH", 69848>>,
    <<"SORA SOMPENG LETTER NAH", 69849>>, <<"SORA SOMPENG LETTER VAH", 69850>>,
    <<"SORA SOMPENG LETTER PAH", 69851>>, <<"SORA SOMPENG LETTER YAH", 69852>>,
    <<"SORA SOMPENG LETTER RAH", 69853>>, <<"SORA SOMPENG LETTER HAH", 69854>>,
    <<"SORA SOMPENG LETTER KAH", 69855>>, <<"SORA SOMPENG LETTER JAH", 69856>>,
    <<"SORA SOMPENG LETTER NYAH", 69857>>, <<"SORA SOMPENG LETTER AH", 69858>>,
    <<"SORA SOMPENG LETTER EEH", 69859>>, <<"SORA SOMPENG LETTER IH", 69860>>,
    <<"SORA SOMPENG LETTER UH", 69861>>, <<"SORA SOMPENG LETTER OH", 69862>>,
    <<"SORA SOMPENG LETTER EH", 69863>>, <<"SORA SOMPENG LETTER MAE", 69864>>,
    <<"SORA SOMPENG DIGIT ZERO", 69872>>, <<"SORA SOMPENG DIGIT ONE", 69873>>,
    <<"SORA SOMPENG DIGIT TWO", 69874>>, <<"SORA SOMPENG DIGIT THREE", 69875>>,
    <<"SORA SOMPENG DIGIT FOUR", 69876>>, <<"SORA SOMPENG DIGIT FIVE", 69877>>,
    <<"SORA SOMPENG DIGIT SIX", 69878>>, <<"SORA SOMPENG DIGIT SEVEN", 69879>>,
    <<"SORA SOMPENG DIGIT EIGHT", 69880>>, <<"SORA SOMPENG DIGIT NINE", 69881>>,
    <<"CHAKMA SIGN CANDRABINDU", 69888>>, <<"CHAKMA SIGN ANUSVARA", 69889>>,
    <<"CHAKMA SIGN VISARGA", 69890>>, <<"CHAKMA LETTER AA", 69891>>, <<"CHAKMA LETTER I", 69892>>,
    <<"CHAKMA LETTER U", 69893>>, <<"CHAKMA LETTER E", 69894>>, <<"CHAKMA LETTER KAA", 69895>>,
    <<"CHAKMA LETTER KHAA", 69896>>, <<"CHAKMA LETTER GAA", 69897>>, <<"CHAKMA LETTER GHAA", 69898>>,
    <<"CHAKMA LETTER NGAA", 69899>>, <<"CHAKMA LETTER CAA", 69900>>, <<"CHAKMA LETTER CHAA", 69901>>,
    <<"CHAKMA LETTER JAA", 69902>>, <<"CHAKMA LETTER JHAA", 69903>>, <<"CHAKMA LETTER NYAA", 69904>>,
    <<"CHAKMA LETTER TTAA", 69905>>, <<"CHAKMA LETTER TTHAA", 69906>>, <<"CHAKMA LETTER DDAA", 69907>>,
    <<"CHAKMA LETTER DDHAA", 69908>>, <<"CHAKMA LETTER NNAA", 69909>>, <<"CHAKMA LETTER TAA", 69910>>,
    <<"CHAKMA LETTER THAA", 69911>>, <<"CHAKMA LETTER DAA", 69912>>, <<"CHAKMA LETTER DHAA", 69913>>,
    <<"CHAKMA LETTER NAA", 69914>>, <<"CHAKMA LETTER PAA", 69915>>, <<"CHAKMA LETTER PHAA", 69916>>,
    <<"CHAKMA LETTER BAA", 69917>>, <<"CHAKMA LETTER BHAA", 69918>>, <<"CHAKMA LETTER MAA", 69919>>,
    <<"CHAKMA LETTER YYAA", 69920>>, <<"CHAKMA LETTER YAA", 69921>>, <<"CHAKMA LETTER RAA", 69922>>,
    <<"CHAKMA LETTER LAA", 69923>>, <<"CHAKMA LETTER WAA", 69924>>, <<"CHAKMA LETTER SAA", 69925>>,
    <<"CHAKMA LETTER HAA", 69926>>, <<"CHAKMA VOWEL SIGN A", 69927>>, <<"CHAKMA VOWEL SIGN I", 69928>>,
    <<"CHAKMA VOWEL SIGN II", 69929>>, <<"CHAKMA VOWEL SIGN U", 69930>>,
    <<"CHAKMA VOWEL SIGN UU", 69931>>, <<"CHAKMA VOWEL SIGN E", 69932>>,
    <<"CHAKMA VOWEL SIGN AI", 69933>>, <<"CHAKMA VOWEL SIGN O", 69934>>,
    <<"CHAKMA VOWEL SIGN AU", 69935>>, <<"CHAKMA VOWEL SIGN OI", 69936>>, <<"CHAKMA O MARK", 69937>>,
    <<"CHAKMA AU MARK", 69938>>, <<"CHAKMA VIRAMA", 69939>>, <<"CHAKMA MAAYYAA", 69940>>,
    <<"CHAKMA DIGIT ZERO", 69942>>, <<"CHAKMA DIGIT ONE", 69943>>, <<"CHAKMA DIGIT TWO", 69944>>,
    <<"CHAKMA DIGIT THREE", 69945>>, <<"CHAKMA DIGIT FOUR", 69946>>, <<"CHAKMA DIGIT FIVE", 69947>>,
    <<"CHAKMA DIGIT SIX", 69948>>, <<"CHAKMA DIGIT SEVEN", 69949>>, <<"CHAKMA DIGIT EIGHT", 69950>>,
    <<"CHAKMA DIGIT NINE", 69951>>, <<"CHAKMA SECTION MARK", 69952>>, <<"CHAKMA DANDA", 69953>>,
    <<"CHAKMA DOUBLE DANDA", 69954>>, <<"CHAKMA QUESTION MARK", 69955>>,
    <<"CHAKMA LETTER LHAA", 69956>>, <<"CHAKMA VOWEL SIGN AA", 69957>>,
    <<"CHAKMA VOWEL SIGN EI", 69958>>, <<"CHAKMA LETTER VAA", 69959>>, <<"MAHAJANI LETTER A", 69968>>,
    <<"MAHAJANI LETTER I", 69969>>, <<"MAHAJANI LETTER U", 69970>>, <<"MAHAJANI LETTER E", 69971>>,
    <<"MAHAJANI LETTER O", 69972>>, <<"MAHAJANI LETTER KA", 69973>>, <<"MAHAJANI LETTER KHA", 69974>>,
    <<"MAHAJANI LETTER GA", 69975>>, <<"MAHAJANI LETTER GHA", 69976>>, <<"MAHAJANI LETTER CA", 69977>>,
    <<"MAHAJANI LETTER CHA", 69978>>, <<"MAHAJANI LETTER JA", 69979>>,
    <<"MAHAJANI LETTER JHA", 69980>>, <<"MAHAJANI LETTER NYA", 69981>>,
    <<"MAHAJANI LETTER TTA", 69982>>, <<"MAHAJANI LETTER TTHA", 69983>>,
    <<"MAHAJANI LETTER DDA", 69984>>, <<"MAHAJANI LETTER DDHA", 69985>>,
    <<"MAHAJANI LETTER NNA", 69986>>, <<"MAHAJANI LETTER TA", 69987>>,
    <<"MAHAJANI LETTER THA", 69988>>, <<"MAHAJANI LETTER DA", 69989>>,
    <<"MAHAJANI LETTER DHA", 69990>>, <<"MAHAJANI LETTER NA", 69991>>, <<"MAHAJANI LETTER PA", 69992>>,
    <<"MAHAJANI LETTER PHA", 69993>>, <<"MAHAJANI LETTER BA", 69994>>,
    <<"MAHAJANI LETTER BHA", 69995>>, <<"MAHAJANI LETTER MA", 69996>>, <<"MAHAJANI LETTER RA", 69997>>,
    <<"MAHAJANI LETTER LA", 69998>>, <<"MAHAJANI LETTER VA", 69999>>, <<"MAHAJANI LETTER SA", 70000>>,
    <<"MAHAJANI LETTER HA", 70001>>, <<"MAHAJANI LETTER RRA", 70002>>,
    <<"MAHAJANI SIGN NUKTA", 70003>>, <<"MAHAJANI ABBREVIATION SIGN", 70004>>,
    <<"MAHAJANI SECTION MARK", 70005>>, <<"MAHAJANI LIGATURE SHRI", 70006>>,
    <<"SHARADA SIGN CANDRABINDU", 70016>>, <<"SHARADA SIGN ANUSVARA", 70017>>,
    <<"SHARADA SIGN VISARGA", 70018>>, <<"SHARADA LETTER A", 70019>>, <<"SHARADA LETTER AA", 70020>>,
    <<"SHARADA LETTER I", 70021>>, <<"SHARADA LETTER II", 70022>>, <<"SHARADA LETTER U", 70023>>,
    <<"SHARADA LETTER UU", 70024>>, <<"SHARADA LETTER VOCALIC R", 70025>>,
    <<"SHARADA LETTER VOCALIC RR", 70026>>, <<"SHARADA LETTER VOCALIC L", 70027>>,
    <<"SHARADA LETTER VOCALIC LL", 70028>>, <<"SHARADA LETTER E", 70029>>,
    <<"SHARADA LETTER AI", 70030>>, <<"SHARADA LETTER O", 70031>>, <<"SHARADA LETTER AU", 70032>>,
    <<"SHARADA LETTER KA", 70033>>, <<"SHARADA LETTER KHA", 70034>>, <<"SHARADA LETTER GA", 70035>>,
    <<"SHARADA LETTER GHA", 70036>>, <<"SHARADA LETTER NGA", 70037>>, <<"SHARADA LETTER CA", 70038>>,
    <<"SHARADA LETTER CHA", 70039>>, <<"SHARADA LETTER JA", 70040>>, <<"SHARADA LETTER JHA", 70041>>,
    <<"SHARADA LETTER NYA", 70042>>, <<"SHARADA LETTER TTA", 70043>>, <<"SHARADA LETTER TTHA", 70044>>,
    <<"SHARADA LETTER DDA", 70045>>, <<"SHARADA LETTER DDHA", 70046>>, <<"SHARADA LETTER NNA", 70047>>,
    <<"SHARADA LETTER TA", 70048>>, <<"SHARADA LETTER THA", 70049>>, <<"SHARADA LETTER DA", 70050>>,
    <<"SHARADA LETTER DHA", 70051>>, <<"SHARADA LETTER NA", 70052>>, <<"SHARADA LETTER PA", 70053>>,
    <<"SHARADA LETTER PHA", 70054>>, <<"SHARADA LETTER BA", 70055>>, <<"SHARADA LETTER BHA", 70056>>,
    <<"SHARADA LETTER MA", 70057>>, <<"SHARADA LETTER YA", 70058>>, <<"SHARADA LETTER RA", 70059>>,
    <<"SHARADA LETTER LA", 70060>>, <<"SHARADA LETTER LLA", 70061>>, <<"SHARADA LETTER VA", 70062>>,
    <<"SHARADA LETTER SHA", 70063>>, <<"SHARADA LETTER SSA", 70064>>, <<"SHARADA LETTER SA", 70065>>,
    <<"SHARADA LETTER HA", 70066>>, <<"SHARADA VOWEL SIGN AA", 70067>>,
    <<"SHARADA VOWEL SIGN I", 70068>>, <<"SHARADA VOWEL SIGN II", 70069>>,
    <<"SHARADA VOWEL SIGN U", 70070>>, <<"SHARADA VOWEL SIGN UU", 70071>>,
    <<"SHARADA VOWEL SIGN VOCALIC R", 70072>>, <<"SHARADA VOWEL SIGN VOCALIC RR", 70073>>,
    <<"SHARADA VOWEL SIGN VOCALIC L", 70074>>, <<"SHARADA VOWEL SIGN VOCALIC LL", 70075>>,
    <<"SHARADA VOWEL SIGN E", 70076>>, <<"SHARADA VOWEL SIGN AI", 70077>>,
    <<"SHARADA VOWEL SIGN O", 70078>>, <<"SHARADA VOWEL SIGN AU", 70079>>,
    <<"SHARADA SIGN VIRAMA", 70080>>, <<"SHARADA SIGN AVAGRAHA", 70081>>,
    <<"SHARADA SIGN JIHVAMULIYA", 70082>>, <<"SHARADA SIGN UPADHMANIYA", 70083>>,
    <<"SHARADA OM", 70084>>, <<"SHARADA DANDA", 70085>>, <<"SHARADA DOUBLE DANDA", 70086>>,
    <<"SHARADA ABBREVIATION SIGN", 70087>>, <<"SHARADA SEPARATOR", 70088>>,
    <<"SHARADA SANDHI MARK", 70089>>, <<"SHARADA SIGN NUKTA", 70090>>,
    <<"SHARADA VOWEL MODIFIER MARK", 70091>>, <<"SHARADA EXTRA SHORT VOWEL MARK", 70092>>,
    <<"SHARADA SUTRA MARK", 70093>>, <<"SHARADA VOWEL SIGN PRISHTHAMATRA E", 70094>>,
    <<"SHARADA SIGN INVERTED CANDRABINDU", 70095>>, <<"SHARADA DIGIT ZERO", 70096>>,
    <<"SHARADA DIGIT ONE", 70097>>, <<"SHARADA DIGIT TWO", 70098>>, <<"SHARADA DIGIT THREE", 70099>>,
    <<"SHARADA DIGIT FOUR", 70100>>, <<"SHARADA DIGIT FIVE", 70101>>, <<"SHARADA DIGIT SIX", 70102>>,
    <<"SHARADA DIGIT SEVEN", 70103>>, <<"SHARADA DIGIT EIGHT", 70104>>,
    <<"SHARADA DIGIT NINE", 70105>>, <<"SHARADA EKAM", 70106>>, <<"SHARADA SIGN SIDDHAM", 70107>>,
    <<"SHARADA HEADSTROKE", 70108>>, <<"SHARADA CONTINUATION SIGN", 70109>>,
    <<"SHARADA SECTION MARK-1", 70110>>, <<"SHARADA SECTION MARK-2", 70111>>,
    <<"SINHALA ARCHAIC DIGIT ONE", 70113>>, <<"SINHALA ARCHAIC DIGIT TWO", 70114>>,
    <<"SINHALA ARCHAIC DIGIT THREE", 70115>>, <<"SINHALA ARCHAIC DIGIT FOUR", 70116>>,
    <<"SINHALA ARCHAIC DIGIT FIVE", 70117>>, <<"SINHALA ARCHAIC DIGIT SIX", 70118>>,
    <<"SINHALA ARCHAIC DIGIT SEVEN", 70119>>, <<"SINHALA ARCHAIC DIGIT EIGHT", 70120>>,
    <<"SINHALA ARCHAIC DIGIT NINE", 70121>>, <<"SINHALA ARCHAIC NUMBER TEN", 70122>>,
    <<"SINHALA ARCHAIC NUMBER TWENTY", 70123>>, <<"SINHALA ARCHAIC NUMBER THIRTY", 70124>>,
    <<"SINHALA ARCHAIC NUMBER FORTY", 70125>>, <<"SINHALA ARCHAIC NUMBER FIFTY", 70126>>,
    <<"SINHALA ARCHAIC NUMBER SIXTY", 70127>>, <<"SINHALA ARCHAIC NUMBER SEVENTY", 70128>>,
    <<"SINHALA ARCHAIC NUMBER EIGHTY", 70129>>, <<"SINHALA ARCHAIC NUMBER NINETY", 70130>>,
    <<"SINHALA ARCHAIC NUMBER ONE HUNDRED", 70131>>, <<"SINHALA ARCHAIC NUMBER ONE THOUSAND", 70132>>,
    <<"KHOJKI LETTER A", 70144>>, <<"KHOJKI LETTER AA", 70145>>, <<"KHOJKI LETTER I", 70146>>,
    <<"KHOJKI LETTER U", 70147>>, <<"KHOJKI LETTER E", 70148>>, <<"KHOJKI LETTER AI", 70149>>,
    <<"KHOJKI LETTER O", 70150>>, <<"KHOJKI LETTER AU", 70151>>, <<"KHOJKI LETTER KA", 70152>>,
    <<"KHOJKI LETTER KHA", 70153>>, <<"KHOJKI LETTER GA", 70154>>, <<"KHOJKI LETTER GGA", 70155>>,
    <<"KHOJKI LETTER GHA", 70156>>, <<"KHOJKI LETTER NGA", 70157>>, <<"KHOJKI LETTER CA", 70158>>,
    <<"KHOJKI LETTER CHA", 70159>>, <<"KHOJKI LETTER JA", 70160>>, <<"KHOJKI LETTER JJA", 70161>>,
    <<"KHOJKI LETTER NYA", 70163>>, <<"KHOJKI LETTER TTA", 70164>>, <<"KHOJKI LETTER TTHA", 70165>>,
    <<"KHOJKI LETTER DDA", 70166>>, <<"KHOJKI LETTER DDHA", 70167>>, <<"KHOJKI LETTER NNA", 70168>>,
    <<"KHOJKI LETTER TA", 70169>>, <<"KHOJKI LETTER THA", 70170>>, <<"KHOJKI LETTER DA", 70171>>,
    <<"KHOJKI LETTER DDDA", 70172>>, <<"KHOJKI LETTER DHA", 70173>>, <<"KHOJKI LETTER NA", 70174>>,
    <<"KHOJKI LETTER PA", 70175>>, <<"KHOJKI LETTER PHA", 70176>>, <<"KHOJKI LETTER BA", 70177>>,
    <<"KHOJKI LETTER BBA", 70178>>, <<"KHOJKI LETTER BHA", 70179>>, <<"KHOJKI LETTER MA", 70180>>,
    <<"KHOJKI LETTER YA", 70181>>, <<"KHOJKI LETTER RA", 70182>>, <<"KHOJKI LETTER LA", 70183>>,
    <<"KHOJKI LETTER VA", 70184>>, <<"KHOJKI LETTER SA", 70185>>, <<"KHOJKI LETTER HA", 70186>>,
    <<"KHOJKI LETTER LLA", 70187>>, <<"KHOJKI VOWEL SIGN AA", 70188>>,
    <<"KHOJKI VOWEL SIGN I", 70189>>, <<"KHOJKI VOWEL SIGN II", 70190>>,
    <<"KHOJKI VOWEL SIGN U", 70191>>, <<"KHOJKI VOWEL SIGN E", 70192>>,
    <<"KHOJKI VOWEL SIGN AI", 70193>>, <<"KHOJKI VOWEL SIGN O", 70194>>,
    <<"KHOJKI VOWEL SIGN AU", 70195>>, <<"KHOJKI SIGN ANUSVARA", 70196>>,
    <<"KHOJKI SIGN VIRAMA", 70197>>, <<"KHOJKI SIGN NUKTA", 70198>>, <<"KHOJKI SIGN SHADDA", 70199>>,
    <<"KHOJKI DANDA", 70200>>, <<"KHOJKI DOUBLE DANDA", 70201>>, <<"KHOJKI WORD SEPARATOR", 70202>>,
    <<"KHOJKI SECTION MARK", 70203>>, <<"KHOJKI DOUBLE SECTION MARK", 70204>>,
    <<"KHOJKI ABBREVIATION SIGN", 70205>>, <<"KHOJKI SIGN SUKUN", 70206>>,
    <<"MULTANI LETTER A", 70272>>, <<"MULTANI LETTER I", 70273>>, <<"MULTANI LETTER U", 70274>>,
    <<"MULTANI LETTER E", 70275>>, <<"MULTANI LETTER KA", 70276>>, <<"MULTANI LETTER KHA", 70277>>,
    <<"MULTANI LETTER GA", 70278>>, <<"MULTANI LETTER GHA", 70280>>, <<"MULTANI LETTER CA", 70282>>,
    <<"MULTANI LETTER CHA", 70283>>, <<"MULTANI LETTER JA", 70284>>, <<"MULTANI LETTER JJA", 70285>>,
    <<"MULTANI LETTER NYA", 70287>>, <<"MULTANI LETTER TTA", 70288>>, <<"MULTANI LETTER TTHA", 70289>>,
    <<"MULTANI LETTER DDA", 70290>>, <<"MULTANI LETTER DDDA", 70291>>,
    <<"MULTANI LETTER DDHA", 70292>>, <<"MULTANI LETTER NNA", 70293>>, <<"MULTANI LETTER TA", 70294>>,
    <<"MULTANI LETTER THA", 70295>>, <<"MULTANI LETTER DA", 70296>>, <<"MULTANI LETTER DHA", 70297>>,
    <<"MULTANI LETTER NA", 70298>>, <<"MULTANI LETTER PA", 70299>>, <<"MULTANI LETTER PHA", 70300>>,
    <<"MULTANI LETTER BA", 70301>>, <<"MULTANI LETTER BHA", 70303>>, <<"MULTANI LETTER MA", 70304>>,
    <<"MULTANI LETTER YA", 70305>>, <<"MULTANI LETTER RA", 70306>>, <<"MULTANI LETTER LA", 70307>>,
    <<"MULTANI LETTER VA", 70308>>, <<"MULTANI LETTER SA", 70309>>, <<"MULTANI LETTER HA", 70310>>,
    <<"MULTANI LETTER RRA", 70311>>, <<"MULTANI LETTER RHA", 70312>>,
    <<"MULTANI SECTION MARK", 70313>>, <<"KHUDAWADI LETTER A", 70320>>,
    <<"KHUDAWADI LETTER AA", 70321>>, <<"KHUDAWADI LETTER I", 70322>>,
    <<"KHUDAWADI LETTER II", 70323>>, <<"KHUDAWADI LETTER U", 70324>>,
    <<"KHUDAWADI LETTER UU", 70325>>, <<"KHUDAWADI LETTER E", 70326>>,
    <<"KHUDAWADI LETTER AI", 70327>>, <<"KHUDAWADI LETTER O", 70328>>,
    <<"KHUDAWADI LETTER AU", 70329>>, <<"KHUDAWADI LETTER KA", 70330>>,
    <<"KHUDAWADI LETTER KHA", 70331>>, <<"KHUDAWADI LETTER GA", 70332>>,
    <<"KHUDAWADI LETTER GGA", 70333>>, <<"KHUDAWADI LETTER GHA", 70334>>,
    <<"KHUDAWADI LETTER NGA", 70335>>, <<"KHUDAWADI LETTER CA", 70336>>,
    <<"KHUDAWADI LETTER CHA", 70337>>, <<"KHUDAWADI LETTER JA", 70338>>,
    <<"KHUDAWADI LETTER JJA", 70339>>, <<"KHUDAWADI LETTER JHA", 70340>>,
    <<"KHUDAWADI LETTER NYA", 70341>>, <<"KHUDAWADI LETTER TTA", 70342>>,
    <<"KHUDAWADI LETTER TTHA", 70343>>, <<"KHUDAWADI LETTER DDA", 70344>>,
    <<"KHUDAWADI LETTER DDDA", 70345>>, <<"KHUDAWADI LETTER RRA", 70346>>,
    <<"KHUDAWADI LETTER DDHA", 70347>>, <<"KHUDAWADI LETTER NNA", 70348>>,
    <<"KHUDAWADI LETTER TA", 70349>>, <<"KHUDAWADI LETTER THA", 70350>>,
    <<"KHUDAWADI LETTER DA", 70351>>, <<"KHUDAWADI LETTER DHA", 70352>>,
    <<"KHUDAWADI LETTER NA", 70353>>, <<"KHUDAWADI LETTER PA", 70354>>,
    <<"KHUDAWADI LETTER PHA", 70355>>, <<"KHUDAWADI LETTER BA", 70356>>,
    <<"KHUDAWADI LETTER BBA", 70357>>, <<"KHUDAWADI LETTER BHA", 70358>>,
    <<"KHUDAWADI LETTER MA", 70359>>, <<"KHUDAWADI LETTER YA", 70360>>,
    <<"KHUDAWADI LETTER RA", 70361>>, <<"KHUDAWADI LETTER LA", 70362>>,
    <<"KHUDAWADI LETTER VA", 70363>>, <<"KHUDAWADI LETTER SHA", 70364>>,
    <<"KHUDAWADI LETTER SA", 70365>>, <<"KHUDAWADI LETTER HA", 70366>>,
    <<"KHUDAWADI SIGN ANUSVARA", 70367>>, <<"KHUDAWADI VOWEL SIGN AA", 70368>>,
    <<"KHUDAWADI VOWEL SIGN I", 70369>>, <<"KHUDAWADI VOWEL SIGN II", 70370>>,
    <<"KHUDAWADI VOWEL SIGN U", 70371>>, <<"KHUDAWADI VOWEL SIGN UU", 70372>>,
    <<"KHUDAWADI VOWEL SIGN E", 70373>>, <<"KHUDAWADI VOWEL SIGN AI", 70374>>,
    <<"KHUDAWADI VOWEL SIGN O", 70375>>, <<"KHUDAWADI VOWEL SIGN AU", 70376>>,
    <<"KHUDAWADI SIGN NUKTA", 70377>>, <<"KHUDAWADI SIGN VIRAMA", 70378>>,
    <<"KHUDAWADI DIGIT ZERO", 70384>>, <<"KHUDAWADI DIGIT ONE", 70385>>,
    <<"KHUDAWADI DIGIT TWO", 70386>>, <<"KHUDAWADI DIGIT THREE", 70387>>,
    <<"KHUDAWADI DIGIT FOUR", 70388>>, <<"KHUDAWADI DIGIT FIVE", 70389>>,
    <<"KHUDAWADI DIGIT SIX", 70390>>, <<"KHUDAWADI DIGIT SEVEN", 70391>>,
    <<"KHUDAWADI DIGIT EIGHT", 70392>>, <<"KHUDAWADI DIGIT NINE", 70393>>,
    <<"GRANTHA SIGN COMBINING ANUSVARA ABOVE", 70400>>, <<"GRANTHA SIGN CANDRABINDU", 70401>>,
    <<"GRANTHA SIGN ANUSVARA", 70402>>, <<"GRANTHA SIGN VISARGA", 70403>>,
    <<"GRANTHA LETTER A", 70405>>, <<"GRANTHA LETTER AA", 70406>>, <<"GRANTHA LETTER I", 70407>>,
    <<"GRANTHA LETTER II", 70408>>, <<"GRANTHA LETTER U", 70409>>, <<"GRANTHA LETTER UU", 70410>>,
    <<"GRANTHA LETTER VOCALIC R", 70411>>, <<"GRANTHA LETTER VOCALIC L", 70412>>,
    <<"GRANTHA LETTER EE", 70415>>, <<"GRANTHA LETTER AI", 70416>>, <<"GRANTHA LETTER OO", 70419>>,
    <<"GRANTHA LETTER AU", 70420>>, <<"GRANTHA LETTER KA", 70421>>, <<"GRANTHA LETTER KHA", 70422>>,
    <<"GRANTHA LETTER GA", 70423>>, <<"GRANTHA LETTER GHA", 70424>>, <<"GRANTHA LETTER NGA", 70425>>,
    <<"GRANTHA LETTER CA", 70426>>, <<"GRANTHA LETTER CHA", 70427>>, <<"GRANTHA LETTER JA", 70428>>,
    <<"GRANTHA LETTER JHA", 70429>>, <<"GRANTHA LETTER NYA", 70430>>, <<"GRANTHA LETTER TTA", 70431>>,
    <<"GRANTHA LETTER TTHA", 70432>>, <<"GRANTHA LETTER DDA", 70433>>,
    <<"GRANTHA LETTER DDHA", 70434>>, <<"GRANTHA LETTER NNA", 70435>>, <<"GRANTHA LETTER TA", 70436>>,
    <<"GRANTHA LETTER THA", 70437>>, <<"GRANTHA LETTER DA", 70438>>, <<"GRANTHA LETTER DHA", 70439>>,
    <<"GRANTHA LETTER NA", 70440>>, <<"GRANTHA LETTER PA", 70442>>, <<"GRANTHA LETTER PHA", 70443>>,
    <<"GRANTHA LETTER BA", 70444>>, <<"GRANTHA LETTER BHA", 70445>>, <<"GRANTHA LETTER MA", 70446>>,
    <<"GRANTHA LETTER YA", 70447>>, <<"GRANTHA LETTER RA", 70448>>, <<"GRANTHA LETTER LA", 70450>>,
    <<"GRANTHA LETTER LLA", 70451>>, <<"GRANTHA LETTER VA", 70453>>, <<"GRANTHA LETTER SHA", 70454>>,
    <<"GRANTHA LETTER SSA", 70455>>, <<"GRANTHA LETTER SA", 70456>>, <<"GRANTHA LETTER HA", 70457>>,
    <<"COMBINING BINDU BELOW", 70459>>, <<"GRANTHA SIGN NUKTA", 70460>>,
    <<"GRANTHA SIGN AVAGRAHA", 70461>>, <<"GRANTHA VOWEL SIGN AA", 70462>>,
    <<"GRANTHA VOWEL SIGN I", 70463>>, <<"GRANTHA VOWEL SIGN II", 70464>>,
    <<"GRANTHA VOWEL SIGN U", 70465>>, <<"GRANTHA VOWEL SIGN UU", 70466>>,
    <<"GRANTHA VOWEL SIGN VOCALIC R", 70467>>, <<"GRANTHA VOWEL SIGN VOCALIC RR", 70468>>,
    <<"GRANTHA VOWEL SIGN EE", 70471>>, <<"GRANTHA VOWEL SIGN AI", 70472>>,
    <<"GRANTHA VOWEL SIGN OO", 70475>>, <<"GRANTHA VOWEL SIGN AU", 70476>>,
    <<"GRANTHA SIGN VIRAMA", 70477>>, <<"GRANTHA OM", 70480>>, <<"GRANTHA AU LENGTH MARK", 70487>>,
    <<"GRANTHA SIGN PLUTA", 70493>>, <<"GRANTHA LETTER VEDIC ANUSVARA", 70494>>,
    <<"GRANTHA LETTER VEDIC DOUBLE ANUSVARA", 70495>>, <<"GRANTHA LETTER VOCALIC RR", 70496>>,
    <<"GRANTHA LETTER VOCALIC LL", 70497>>, <<"GRANTHA VOWEL SIGN VOCALIC L", 70498>>,
    <<"GRANTHA VOWEL SIGN VOCALIC LL", 70499>>, <<"COMBINING GRANTHA DIGIT ZERO", 70502>>,
    <<"COMBINING GRANTHA DIGIT ONE", 70503>>, <<"COMBINING GRANTHA DIGIT TWO", 70504>>,
    <<"COMBINING GRANTHA DIGIT THREE", 70505>>, <<"COMBINING GRANTHA DIGIT FOUR", 70506>>,
    <<"COMBINING GRANTHA DIGIT FIVE", 70507>>, <<"COMBINING GRANTHA DIGIT SIX", 70508>>,
    <<"COMBINING GRANTHA LETTER A", 70512>>, <<"COMBINING GRANTHA LETTER KA", 70513>>,
    <<"COMBINING GRANTHA LETTER NA", 70514>>, <<"COMBINING GRANTHA LETTER VI", 70515>>,
    <<"COMBINING GRANTHA LETTER PA", 70516>>, <<"NEWA LETTER A", 70656>>, <<"NEWA LETTER AA", 70657>>,
    <<"NEWA LETTER I", 70658>>, <<"NEWA LETTER II", 70659>>, <<"NEWA LETTER U", 70660>>,
    <<"NEWA LETTER UU", 70661>>, <<"NEWA LETTER VOCALIC R", 70662>>,
    <<"NEWA LETTER VOCALIC RR", 70663>>, <<"NEWA LETTER VOCALIC L", 70664>>,
    <<"NEWA LETTER VOCALIC LL", 70665>>, <<"NEWA LETTER E", 70666>>, <<"NEWA LETTER AI", 70667>>,
    <<"NEWA LETTER O", 70668>>, <<"NEWA LETTER AU", 70669>>, <<"NEWA LETTER KA", 70670>>,
    <<"NEWA LETTER KHA", 70671>>, <<"NEWA LETTER GA", 70672>>, <<"NEWA LETTER GHA", 70673>>,
    <<"NEWA LETTER NGA", 70674>>, <<"NEWA LETTER NGHA", 70675>>, <<"NEWA LETTER CA", 70676>>,
    <<"NEWA LETTER CHA", 70677>>, <<"NEWA LETTER JA", 70678>>, <<"NEWA LETTER JHA", 70679>>,
    <<"NEWA LETTER NYA", 70680>>, <<"NEWA LETTER NYHA", 70681>>, <<"NEWA LETTER TTA", 70682>>,
    <<"NEWA LETTER TTHA", 70683>>, <<"NEWA LETTER DDA", 70684>>, <<"NEWA LETTER DDHA", 70685>>,
    <<"NEWA LETTER NNA", 70686>>, <<"NEWA LETTER TA", 70687>>, <<"NEWA LETTER THA", 70688>>,
    <<"NEWA LETTER DA", 70689>>, <<"NEWA LETTER DHA", 70690>>, <<"NEWA LETTER NA", 70691>>,
    <<"NEWA LETTER NHA", 70692>>, <<"NEWA LETTER PA", 70693>>, <<"NEWA LETTER PHA", 70694>>,
    <<"NEWA LETTER BA", 70695>>, <<"NEWA LETTER BHA", 70696>>, <<"NEWA LETTER MA", 70697>>,
    <<"NEWA LETTER MHA", 70698>>, <<"NEWA LETTER YA", 70699>>, <<"NEWA LETTER RA", 70700>>,
    <<"NEWA LETTER RHA", 70701>>, <<"NEWA LETTER LA", 70702>>, <<"NEWA LETTER LHA", 70703>>,
    <<"NEWA LETTER WA", 70704>>, <<"NEWA LETTER SHA", 70705>>, <<"NEWA LETTER SSA", 70706>>,
    <<"NEWA LETTER SA", 70707>>, <<"NEWA LETTER HA", 70708>>, <<"NEWA VOWEL SIGN AA", 70709>>,
    <<"NEWA VOWEL SIGN I", 70710>>, <<"NEWA VOWEL SIGN II", 70711>>, <<"NEWA VOWEL SIGN U", 70712>>,
    <<"NEWA VOWEL SIGN UU", 70713>>, <<"NEWA VOWEL SIGN VOCALIC R", 70714>>,
    <<"NEWA VOWEL SIGN VOCALIC RR", 70715>>, <<"NEWA VOWEL SIGN VOCALIC L", 70716>>,
    <<"NEWA VOWEL SIGN VOCALIC LL", 70717>>, <<"NEWA VOWEL SIGN E", 70718>>,
    <<"NEWA VOWEL SIGN AI", 70719>>, <<"NEWA VOWEL SIGN O", 70720>>, <<"NEWA VOWEL SIGN AU", 70721>>,
    <<"NEWA SIGN VIRAMA", 70722>>, <<"NEWA SIGN CANDRABINDU", 70723>>, <<"NEWA SIGN ANUSVARA", 70724>>,
    <<"NEWA SIGN VISARGA", 70725>>, <<"NEWA SIGN NUKTA", 70726>>, <<"NEWA SIGN AVAGRAHA", 70727>>,
    <<"NEWA SIGN FINAL ANUSVARA", 70728>>, <<"NEWA OM", 70729>>, <<"NEWA SIDDHI", 70730>>,
    <<"NEWA DANDA", 70731>>, <<"NEWA DOUBLE DANDA", 70732>>, <<"NEWA COMMA", 70733>>,
    <<"NEWA GAP FILLER", 70734>>, <<"NEWA ABBREVIATION SIGN", 70735>>, <<"NEWA DIGIT ZERO", 70736>>,
    <<"NEWA DIGIT ONE", 70737>>, <<"NEWA DIGIT TWO", 70738>>, <<"NEWA DIGIT THREE", 70739>>,
    <<"NEWA DIGIT FOUR", 70740>>, <<"NEWA DIGIT FIVE", 70741>>, <<"NEWA DIGIT SIX", 70742>>,
    <<"NEWA DIGIT SEVEN", 70743>>, <<"NEWA DIGIT EIGHT", 70744>>, <<"NEWA DIGIT NINE", 70745>>,
    <<"NEWA DOUBLE COMMA", 70746>>, <<"NEWA PLACEHOLDER MARK", 70747>>,
    <<"NEWA INSERTION SIGN", 70749>>, <<"NEWA SANDHI MARK", 70750>>,
    <<"NEWA LETTER VEDIC ANUSVARA", 70751>>, <<"NEWA SIGN JIHVAMULIYA", 70752>>,
    <<"NEWA SIGN UPADHMANIYA", 70753>>, <<"TIRHUTA ANJI", 70784>>, <<"TIRHUTA LETTER A", 70785>>,
    <<"TIRHUTA LETTER AA", 70786>>, <<"TIRHUTA LETTER I", 70787>>, <<"TIRHUTA LETTER II", 70788>>,
    <<"TIRHUTA LETTER U", 70789>>, <<"TIRHUTA LETTER UU", 70790>>,
    <<"TIRHUTA LETTER VOCALIC R", 70791>>, <<"TIRHUTA LETTER VOCALIC RR", 70792>>,
    <<"TIRHUTA LETTER VOCALIC L", 70793>>, <<"TIRHUTA LETTER VOCALIC LL", 70794>>,
    <<"TIRHUTA LETTER E", 70795>>, <<"TIRHUTA LETTER AI", 70796>>, <<"TIRHUTA LETTER O", 70797>>,
    <<"TIRHUTA LETTER AU", 70798>>, <<"TIRHUTA LETTER KA", 70799>>, <<"TIRHUTA LETTER KHA", 70800>>,
    <<"TIRHUTA LETTER GA", 70801>>, <<"TIRHUTA LETTER GHA", 70802>>, <<"TIRHUTA LETTER NGA", 70803>>,
    <<"TIRHUTA LETTER CA", 70804>>, <<"TIRHUTA LETTER CHA", 70805>>, <<"TIRHUTA LETTER JA", 70806>>,
    <<"TIRHUTA LETTER JHA", 70807>>, <<"TIRHUTA LETTER NYA", 70808>>, <<"TIRHUTA LETTER TTA", 70809>>,
    <<"TIRHUTA LETTER TTHA", 70810>>, <<"TIRHUTA LETTER DDA", 70811>>,
    <<"TIRHUTA LETTER DDHA", 70812>>, <<"TIRHUTA LETTER NNA", 70813>>, <<"TIRHUTA LETTER TA", 70814>>,
    <<"TIRHUTA LETTER THA", 70815>>, <<"TIRHUTA LETTER DA", 70816>>, <<"TIRHUTA LETTER DHA", 70817>>,
    <<"TIRHUTA LETTER NA", 70818>>, <<"TIRHUTA LETTER PA", 70819>>, <<"TIRHUTA LETTER PHA", 70820>>,
    <<"TIRHUTA LETTER BA", 70821>>, <<"TIRHUTA LETTER BHA", 70822>>, <<"TIRHUTA LETTER MA", 70823>>,
    <<"TIRHUTA LETTER YA", 70824>>, <<"TIRHUTA LETTER RA", 70825>>, <<"TIRHUTA LETTER LA", 70826>>,
    <<"TIRHUTA LETTER VA", 70827>>, <<"TIRHUTA LETTER SHA", 70828>>, <<"TIRHUTA LETTER SSA", 70829>>,
    <<"TIRHUTA LETTER SA", 70830>>, <<"TIRHUTA LETTER HA", 70831>>, <<"TIRHUTA VOWEL SIGN AA", 70832>>,
    <<"TIRHUTA VOWEL SIGN I", 70833>>, <<"TIRHUTA VOWEL SIGN II", 70834>>,
    <<"TIRHUTA VOWEL SIGN U", 70835>>, <<"TIRHUTA VOWEL SIGN UU", 70836>>,
    <<"TIRHUTA VOWEL SIGN VOCALIC R", 70837>>, <<"TIRHUTA VOWEL SIGN VOCALIC RR", 70838>>,
    <<"TIRHUTA VOWEL SIGN VOCALIC L", 70839>>, <<"TIRHUTA VOWEL SIGN VOCALIC LL", 70840>>,
    <<"TIRHUTA VOWEL SIGN E", 70841>>, <<"TIRHUTA VOWEL SIGN SHORT E", 70842>>,
    <<"TIRHUTA VOWEL SIGN AI", 70843>>, <<"TIRHUTA VOWEL SIGN O", 70844>>,
    <<"TIRHUTA VOWEL SIGN SHORT O", 70845>>, <<"TIRHUTA VOWEL SIGN AU", 70846>>,
    <<"TIRHUTA SIGN CANDRABINDU", 70847>>, <<"TIRHUTA SIGN ANUSVARA", 70848>>,
    <<"TIRHUTA SIGN VISARGA", 70849>>, <<"TIRHUTA SIGN VIRAMA", 70850>>,
    <<"TIRHUTA SIGN NUKTA", 70851>>, <<"TIRHUTA SIGN AVAGRAHA", 70852>>, <<"TIRHUTA GVANG", 70853>>,
    <<"TIRHUTA ABBREVIATION SIGN", 70854>>, <<"TIRHUTA OM", 70855>>, <<"TIRHUTA DIGIT ZERO", 70864>>,
    <<"TIRHUTA DIGIT ONE", 70865>>, <<"TIRHUTA DIGIT TWO", 70866>>, <<"TIRHUTA DIGIT THREE", 70867>>,
    <<"TIRHUTA DIGIT FOUR", 70868>>, <<"TIRHUTA DIGIT FIVE", 70869>>, <<"TIRHUTA DIGIT SIX", 70870>>,
    <<"TIRHUTA DIGIT SEVEN", 70871>>, <<"TIRHUTA DIGIT EIGHT", 70872>>,
    <<"TIRHUTA DIGIT NINE", 70873>>, <<"SIDDHAM LETTER A", 71040>>, <<"SIDDHAM LETTER AA", 71041>>,
    <<"SIDDHAM LETTER I", 71042>>, <<"SIDDHAM LETTER II", 71043>>, <<"SIDDHAM LETTER U", 71044>>,
    <<"SIDDHAM LETTER UU", 71045>>, <<"SIDDHAM LETTER VOCALIC R", 71046>>,
    <<"SIDDHAM LETTER VOCALIC RR", 71047>>, <<"SIDDHAM LETTER VOCALIC L", 71048>>,
    <<"SIDDHAM LETTER VOCALIC LL", 71049>>, <<"SIDDHAM LETTER E", 71050>>,
    <<"SIDDHAM LETTER AI", 71051>>, <<"SIDDHAM LETTER O", 71052>>, <<"SIDDHAM LETTER AU", 71053>>,
    <<"SIDDHAM LETTER KA", 71054>>, <<"SIDDHAM LETTER KHA", 71055>>, <<"SIDDHAM LETTER GA", 71056>>,
    <<"SIDDHAM LETTER GHA", 71057>>, <<"SIDDHAM LETTER NGA", 71058>>, <<"SIDDHAM LETTER CA", 71059>>,
    <<"SIDDHAM LETTER CHA", 71060>>, <<"SIDDHAM LETTER JA", 71061>>, <<"SIDDHAM LETTER JHA", 71062>>,
    <<"SIDDHAM LETTER NYA", 71063>>, <<"SIDDHAM LETTER TTA", 71064>>, <<"SIDDHAM LETTER TTHA", 71065>>,
    <<"SIDDHAM LETTER DDA", 71066>>, <<"SIDDHAM LETTER DDHA", 71067>>, <<"SIDDHAM LETTER NNA", 71068>>,
    <<"SIDDHAM LETTER TA", 71069>>, <<"SIDDHAM LETTER THA", 71070>>, <<"SIDDHAM LETTER DA", 71071>>,
    <<"SIDDHAM LETTER DHA", 71072>>, <<"SIDDHAM LETTER NA", 71073>>, <<"SIDDHAM LETTER PA", 71074>>,
    <<"SIDDHAM LETTER PHA", 71075>>, <<"SIDDHAM LETTER BA", 71076>>, <<"SIDDHAM LETTER BHA", 71077>>,
    <<"SIDDHAM LETTER MA", 71078>>, <<"SIDDHAM LETTER YA", 71079>>, <<"SIDDHAM LETTER RA", 71080>>,
    <<"SIDDHAM LETTER LA", 71081>>, <<"SIDDHAM LETTER VA", 71082>>, <<"SIDDHAM LETTER SHA", 71083>>,
    <<"SIDDHAM LETTER SSA", 71084>>, <<"SIDDHAM LETTER SA", 71085>>, <<"SIDDHAM LETTER HA", 71086>>,
    <<"SIDDHAM VOWEL SIGN AA", 71087>>, <<"SIDDHAM VOWEL SIGN I", 71088>>,
    <<"SIDDHAM VOWEL SIGN II", 71089>>, <<"SIDDHAM VOWEL SIGN U", 71090>>,
    <<"SIDDHAM VOWEL SIGN UU", 71091>>, <<"SIDDHAM VOWEL SIGN VOCALIC R", 71092>>,
    <<"SIDDHAM VOWEL SIGN VOCALIC RR", 71093>>, <<"SIDDHAM VOWEL SIGN E", 71096>>,
    <<"SIDDHAM VOWEL SIGN AI", 71097>>, <<"SIDDHAM VOWEL SIGN O", 71098>>,
    <<"SIDDHAM VOWEL SIGN AU", 71099>>, <<"SIDDHAM SIGN CANDRABINDU", 71100>>,
    <<"SIDDHAM SIGN ANUSVARA", 71101>>, <<"SIDDHAM SIGN VISARGA", 71102>>,
    <<"SIDDHAM SIGN VIRAMA", 71103>>, <<"SIDDHAM SIGN NUKTA", 71104>>,
    <<"SIDDHAM SIGN SIDDHAM", 71105>>, <<"SIDDHAM DANDA", 71106>>, <<"SIDDHAM DOUBLE DANDA", 71107>>,
    <<"SIDDHAM SEPARATOR DOT", 71108>>, <<"SIDDHAM SEPARATOR BAR", 71109>>,
    <<"SIDDHAM REPETITION MARK-1", 71110>>, <<"SIDDHAM REPETITION MARK-2", 71111>>,
    <<"SIDDHAM REPETITION MARK-3", 71112>>, <<"SIDDHAM END OF TEXT MARK", 71113>>,
    <<"SIDDHAM SECTION MARK WITH TRIDENT AND U-SHAPED ORNAMENTS", 71114>>,
    <<"SIDDHAM SECTION MARK WITH TRIDENT AND DOTTED CRESCENTS", 71115>>,
    <<"SIDDHAM SECTION MARK WITH RAYS AND DOTTED CRESCENTS", 71116>>,
    <<"SIDDHAM SECTION MARK WITH RAYS AND DOTTED DOUBLE CRESCENTS", 71117>>,
    <<"SIDDHAM SECTION MARK WITH RAYS AND DOTTED TRIPLE CRESCENTS", 71118>>,
    <<"SIDDHAM SECTION MARK DOUBLE RING", 71119>>,
    <<"SIDDHAM SECTION MARK DOUBLE RING WITH RAYS", 71120>>,
    <<"SIDDHAM SECTION MARK WITH DOUBLE CRESCENTS", 71121>>,
    <<"SIDDHAM SECTION MARK WITH TRIPLE CRESCENTS", 71122>>,
    <<"SIDDHAM SECTION MARK WITH QUADRUPLE CRESCENTS", 71123>>,
    <<"SIDDHAM SECTION MARK WITH SEPTUPLE CRESCENTS", 71124>>,
    <<"SIDDHAM SECTION MARK WITH CIRCLES AND RAYS", 71125>>,
    <<"SIDDHAM SECTION MARK WITH CIRCLES AND TWO ENCLOSURES", 71126>>,
    <<"SIDDHAM SECTION MARK WITH CIRCLES AND FOUR ENCLOSURES", 71127>>,
    <<"SIDDHAM LETTER THREE-CIRCLE ALTERNATE I", 71128>>,
    <<"SIDDHAM LETTER TWO-CIRCLE ALTERNATE I", 71129>>,
    <<"SIDDHAM LETTER TWO-CIRCLE ALTERNATE II", 71130>>, <<"SIDDHAM LETTER ALTERNATE U", 71131>>,
    <<"SIDDHAM VOWEL SIGN ALTERNATE U", 71132>>, <<"SIDDHAM VOWEL SIGN ALTERNATE UU", 71133>>,
    <<"MODI LETTER A", 71168>>, <<"MODI LETTER AA", 71169>>, <<"MODI LETTER I", 71170>>,
    <<"MODI LETTER II", 71171>>, <<"MODI LETTER U", 71172>>, <<"MODI LETTER UU", 71173>>,
    <<"MODI LETTER VOCALIC R", 71174>>, <<"MODI LETTER VOCALIC RR", 71175>>,
    <<"MODI LETTER VOCALIC L", 71176>>, <<"MODI LETTER VOCALIC LL", 71177>>,
    <<"MODI LETTER E", 71178>>, <<"MODI LETTER AI", 71179>>, <<"MODI LETTER O", 71180>>,
    <<"MODI LETTER AU", 71181>>, <<"MODI LETTER KA", 71182>>, <<"MODI LETTER KHA", 71183>>,
    <<"MODI LETTER GA", 71184>>, <<"MODI LETTER GHA", 71185>>, <<"MODI LETTER NGA", 71186>>,
    <<"MODI LETTER CA", 71187>>, <<"MODI LETTER CHA", 71188>>, <<"MODI LETTER JA", 71189>>,
    <<"MODI LETTER JHA", 71190>>, <<"MODI LETTER NYA", 71191>>, <<"MODI LETTER TTA", 71192>>,
    <<"MODI LETTER TTHA", 71193>>, <<"MODI LETTER DDA", 71194>>, <<"MODI LETTER DDHA", 71195>>,
    <<"MODI LETTER NNA", 71196>>, <<"MODI LETTER TA", 71197>>, <<"MODI LETTER THA", 71198>>,
    <<"MODI LETTER DA", 71199>>, <<"MODI LETTER DHA", 71200>>, <<"MODI LETTER NA", 71201>>,
    <<"MODI LETTER PA", 71202>>, <<"MODI LETTER PHA", 71203>>, <<"MODI LETTER BA", 71204>>,
    <<"MODI LETTER BHA", 71205>>, <<"MODI LETTER MA", 71206>>, <<"MODI LETTER YA", 71207>>,
    <<"MODI LETTER RA", 71208>>, <<"MODI LETTER LA", 71209>>, <<"MODI LETTER VA", 71210>>,
    <<"MODI LETTER SHA", 71211>>, <<"MODI LETTER SSA", 71212>>, <<"MODI LETTER SA", 71213>>,
    <<"MODI LETTER HA", 71214>>, <<"MODI LETTER LLA", 71215>>, <<"MODI VOWEL SIGN AA", 71216>>,
    <<"MODI VOWEL SIGN I", 71217>>, <<"MODI VOWEL SIGN II", 71218>>, <<"MODI VOWEL SIGN U", 71219>>,
    <<"MODI VOWEL SIGN UU", 71220>>, <<"MODI VOWEL SIGN VOCALIC R", 71221>>,
    <<"MODI VOWEL SIGN VOCALIC RR", 71222>>, <<"MODI VOWEL SIGN VOCALIC L", 71223>>,
    <<"MODI VOWEL SIGN VOCALIC LL", 71224>>, <<"MODI VOWEL SIGN E", 71225>>,
    <<"MODI VOWEL SIGN AI", 71226>>, <<"MODI VOWEL SIGN O", 71227>>, <<"MODI VOWEL SIGN AU", 71228>>,
    <<"MODI SIGN ANUSVARA", 71229>>, <<"MODI SIGN VISARGA", 71230>>, <<"MODI SIGN VIRAMA", 71231>>,
    <<"MODI SIGN ARDHACANDRA", 71232>>, <<"MODI DANDA", 71233>>, <<"MODI DOUBLE DANDA", 71234>>,
    <<"MODI ABBREVIATION SIGN", 71235>>, <<"MODI SIGN HUVA", 71236>>, <<"MODI DIGIT ZERO", 71248>>,
    <<"MODI DIGIT ONE", 71249>>, <<"MODI DIGIT TWO", 71250>>, <<"MODI DIGIT THREE", 71251>>,
    <<"MODI DIGIT FOUR", 71252>>, <<"MODI DIGIT FIVE", 71253>>, <<"MODI DIGIT SIX", 71254>>,
    <<"MODI DIGIT SEVEN", 71255>>, <<"MODI DIGIT EIGHT", 71256>>, <<"MODI DIGIT NINE", 71257>>,
    <<"MONGOLIAN BIRGA WITH ORNAMENT", 71264>>, <<"MONGOLIAN ROTATED BIRGA", 71265>>,
    <<"MONGOLIAN DOUBLE BIRGA WITH ORNAMENT", 71266>>,
    <<"MONGOLIAN TRIPLE BIRGA WITH ORNAMENT", 71267>>,
    <<"MONGOLIAN BIRGA WITH DOUBLE ORNAMENT", 71268>>,
    <<"MONGOLIAN ROTATED BIRGA WITH ORNAMENT", 71269>>,
    <<"MONGOLIAN ROTATED BIRGA WITH DOUBLE ORNAMENT", 71270>>, <<"MONGOLIAN INVERTED BIRGA", 71271>>,
    <<"MONGOLIAN INVERTED BIRGA WITH DOUBLE ORNAMENT", 71272>>, <<"MONGOLIAN SWIRL BIRGA", 71273>>,
    <<"MONGOLIAN SWIRL BIRGA WITH ORNAMENT", 71274>>,
    <<"MONGOLIAN SWIRL BIRGA WITH DOUBLE ORNAMENT", 71275>>,
    <<"MONGOLIAN TURNED SWIRL BIRGA WITH DOUBLE ORNAMENT", 71276>>, <<"TAKRI LETTER A", 71296>>,
    <<"TAKRI LETTER AA", 71297>>, <<"TAKRI LETTER I", 71298>>, <<"TAKRI LETTER II", 71299>>,
    <<"TAKRI LETTER U", 71300>>, <<"TAKRI LETTER UU", 71301>>, <<"TAKRI LETTER E", 71302>>,
    <<"TAKRI LETTER AI", 71303>>, <<"TAKRI LETTER O", 71304>>, <<"TAKRI LETTER AU", 71305>>,
    <<"TAKRI LETTER KA", 71306>>, <<"TAKRI LETTER KHA", 71307>>, <<"TAKRI LETTER GA", 71308>>,
    <<"TAKRI LETTER GHA", 71309>>, <<"TAKRI LETTER NGA", 71310>>, <<"TAKRI LETTER CA", 71311>>,
    <<"TAKRI LETTER CHA", 71312>>, <<"TAKRI LETTER JA", 71313>>, <<"TAKRI LETTER JHA", 71314>>,
    <<"TAKRI LETTER NYA", 71315>>, <<"TAKRI LETTER TTA", 71316>>, <<"TAKRI LETTER TTHA", 71317>>,
    <<"TAKRI LETTER DDA", 71318>>, <<"TAKRI LETTER DDHA", 71319>>, <<"TAKRI LETTER NNA", 71320>>,
    <<"TAKRI LETTER TA", 71321>>, <<"TAKRI LETTER THA", 71322>>, <<"TAKRI LETTER DA", 71323>>,
    <<"TAKRI LETTER DHA", 71324>>, <<"TAKRI LETTER NA", 71325>>, <<"TAKRI LETTER PA", 71326>>,
    <<"TAKRI LETTER PHA", 71327>>, <<"TAKRI LETTER BA", 71328>>, <<"TAKRI LETTER BHA", 71329>>,
    <<"TAKRI LETTER MA", 71330>>, <<"TAKRI LETTER YA", 71331>>, <<"TAKRI LETTER RA", 71332>>,
    <<"TAKRI LETTER LA", 71333>>, <<"TAKRI LETTER VA", 71334>>, <<"TAKRI LETTER SHA", 71335>>,
    <<"TAKRI LETTER SA", 71336>>, <<"TAKRI LETTER HA", 71337>>, <<"TAKRI LETTER RRA", 71338>>,
    <<"TAKRI SIGN ANUSVARA", 71339>>, <<"TAKRI SIGN VISARGA", 71340>>,
    <<"TAKRI VOWEL SIGN AA", 71341>>, <<"TAKRI VOWEL SIGN I", 71342>>,
    <<"TAKRI VOWEL SIGN II", 71343>>, <<"TAKRI VOWEL SIGN U", 71344>>,
    <<"TAKRI VOWEL SIGN UU", 71345>>, <<"TAKRI VOWEL SIGN E", 71346>>,
    <<"TAKRI VOWEL SIGN AI", 71347>>, <<"TAKRI VOWEL SIGN O", 71348>>,
    <<"TAKRI VOWEL SIGN AU", 71349>>, <<"TAKRI SIGN VIRAMA", 71350>>, <<"TAKRI SIGN NUKTA", 71351>>,
    <<"TAKRI LETTER ARCHAIC KHA", 71352>>, <<"TAKRI ABBREVIATION SIGN", 71353>>,
    <<"TAKRI DIGIT ZERO", 71360>>, <<"TAKRI DIGIT ONE", 71361>>, <<"TAKRI DIGIT TWO", 71362>>,
    <<"TAKRI DIGIT THREE", 71363>>, <<"TAKRI DIGIT FOUR", 71364>>, <<"TAKRI DIGIT FIVE", 71365>>,
    <<"TAKRI DIGIT SIX", 71366>>, <<"TAKRI DIGIT SEVEN", 71367>>, <<"TAKRI DIGIT EIGHT", 71368>>,
    <<"TAKRI DIGIT NINE", 71369>>, <<"AHOM LETTER KA", 71424>>, <<"AHOM LETTER KHA", 71425>>,
    <<"AHOM LETTER NGA", 71426>>, <<"AHOM LETTER NA", 71427>>, <<"AHOM LETTER TA", 71428>>,
    <<"AHOM LETTER ALTERNATE TA", 71429>>, <<"AHOM LETTER PA", 71430>>, <<"AHOM LETTER PHA", 71431>>,
    <<"AHOM LETTER BA", 71432>>, <<"AHOM LETTER MA", 71433>>, <<"AHOM LETTER JA", 71434>>,
    <<"AHOM LETTER CHA", 71435>>, <<"AHOM LETTER THA", 71436>>, <<"AHOM LETTER RA", 71437>>,
    <<"AHOM LETTER LA", 71438>>, <<"AHOM LETTER SA", 71439>>, <<"AHOM LETTER NYA", 71440>>,
    <<"AHOM LETTER HA", 71441>>, <<"AHOM LETTER A", 71442>>, <<"AHOM LETTER DA", 71443>>,
    <<"AHOM LETTER DHA", 71444>>, <<"AHOM LETTER GA", 71445>>, <<"AHOM LETTER ALTERNATE GA", 71446>>,
    <<"AHOM LETTER GHA", 71447>>, <<"AHOM LETTER BHA", 71448>>, <<"AHOM LETTER JHA", 71449>>,
    <<"AHOM LETTER ALTERNATE BA", 71450>>, <<"AHOM CONSONANT SIGN MEDIAL LA", 71453>>,
    <<"AHOM CONSONANT SIGN MEDIAL RA", 71454>>, <<"AHOM CONSONANT SIGN MEDIAL LIGATING RA", 71455>>,
    <<"AHOM VOWEL SIGN A", 71456>>, <<"AHOM VOWEL SIGN AA", 71457>>, <<"AHOM VOWEL SIGN I", 71458>>,
    <<"AHOM VOWEL SIGN II", 71459>>, <<"AHOM VOWEL SIGN U", 71460>>, <<"AHOM VOWEL SIGN UU", 71461>>,
    <<"AHOM VOWEL SIGN E", 71462>>, <<"AHOM VOWEL SIGN AW", 71463>>, <<"AHOM VOWEL SIGN O", 71464>>,
    <<"AHOM VOWEL SIGN AI", 71465>>, <<"AHOM VOWEL SIGN AM", 71466>>, <<"AHOM SIGN KILLER", 71467>>,
    <<"AHOM DIGIT ZERO", 71472>>, <<"AHOM DIGIT ONE", 71473>>, <<"AHOM DIGIT TWO", 71474>>,
    <<"AHOM DIGIT THREE", 71475>>, <<"AHOM DIGIT FOUR", 71476>>, <<"AHOM DIGIT FIVE", 71477>>,
    <<"AHOM DIGIT SIX", 71478>>, <<"AHOM DIGIT SEVEN", 71479>>, <<"AHOM DIGIT EIGHT", 71480>>,
    <<"AHOM DIGIT NINE", 71481>>, <<"AHOM NUMBER TEN", 71482>>, <<"AHOM NUMBER TWENTY", 71483>>,
    <<"AHOM SIGN SMALL SECTION", 71484>>, <<"AHOM SIGN SECTION", 71485>>, <<"AHOM SIGN RULAI", 71486>>,
    <<"AHOM SYMBOL VI", 71487>>, <<"AHOM LETTER CA", 71488>>, <<"AHOM LETTER TTA", 71489>>,
    <<"AHOM LETTER TTHA", 71490>>, <<"AHOM LETTER DDA", 71491>>, <<"AHOM LETTER DDHA", 71492>>,
    <<"AHOM LETTER NNA", 71493>>, <<"AHOM LETTER LLA", 71494>>, <<"DOGRA LETTER A", 71680>>,
    <<"DOGRA LETTER AA", 71681>>, <<"DOGRA LETTER I", 71682>>, <<"DOGRA LETTER II", 71683>>,
    <<"DOGRA LETTER U", 71684>>, <<"DOGRA LETTER UU", 71685>>, <<"DOGRA LETTER E", 71686>>,
    <<"DOGRA LETTER AI", 71687>>, <<"DOGRA LETTER O", 71688>>, <<"DOGRA LETTER AU", 71689>>,
    <<"DOGRA LETTER KA", 71690>>, <<"DOGRA LETTER KHA", 71691>>, <<"DOGRA LETTER GA", 71692>>,
    <<"DOGRA LETTER GHA", 71693>>, <<"DOGRA LETTER NGA", 71694>>, <<"DOGRA LETTER CA", 71695>>,
    <<"DOGRA LETTER CHA", 71696>>, <<"DOGRA LETTER JA", 71697>>, <<"DOGRA LETTER JHA", 71698>>,
    <<"DOGRA LETTER NYA", 71699>>, <<"DOGRA LETTER TTA", 71700>>, <<"DOGRA LETTER TTHA", 71701>>,
    <<"DOGRA LETTER DDA", 71702>>, <<"DOGRA LETTER DDHA", 71703>>, <<"DOGRA LETTER NNA", 71704>>,
    <<"DOGRA LETTER TA", 71705>>, <<"DOGRA LETTER THA", 71706>>, <<"DOGRA LETTER DA", 71707>>,
    <<"DOGRA LETTER DHA", 71708>>, <<"DOGRA LETTER NA", 71709>>, <<"DOGRA LETTER PA", 71710>>,
    <<"DOGRA LETTER PHA", 71711>>, <<"DOGRA LETTER BA", 71712>>, <<"DOGRA LETTER BHA", 71713>>,
    <<"DOGRA LETTER MA", 71714>>, <<"DOGRA LETTER YA", 71715>>, <<"DOGRA LETTER RA", 71716>>,
    <<"DOGRA LETTER LA", 71717>>, <<"DOGRA LETTER VA", 71718>>, <<"DOGRA LETTER SHA", 71719>>,
    <<"DOGRA LETTER SSA", 71720>>, <<"DOGRA LETTER SA", 71721>>, <<"DOGRA LETTER HA", 71722>>,
    <<"DOGRA LETTER RRA", 71723>>, <<"DOGRA VOWEL SIGN AA", 71724>>, <<"DOGRA VOWEL SIGN I", 71725>>,
    <<"DOGRA VOWEL SIGN II", 71726>>, <<"DOGRA VOWEL SIGN U", 71727>>,
    <<"DOGRA VOWEL SIGN UU", 71728>>, <<"DOGRA VOWEL SIGN VOCALIC R", 71729>>,
    <<"DOGRA VOWEL SIGN VOCALIC RR", 71730>>, <<"DOGRA VOWEL SIGN E", 71731>>,
    <<"DOGRA VOWEL SIGN AI", 71732>>, <<"DOGRA VOWEL SIGN O", 71733>>,
    <<"DOGRA VOWEL SIGN AU", 71734>>, <<"DOGRA SIGN ANUSVARA", 71735>>,
    <<"DOGRA SIGN VISARGA", 71736>>, <<"DOGRA SIGN VIRAMA", 71737>>, <<"DOGRA SIGN NUKTA", 71738>>,
    <<"DOGRA ABBREVIATION SIGN", 71739>>, <<"WARANG CITI CAPITAL LETTER NGAA", 71840>>,
    <<"WARANG CITI CAPITAL LETTER A", 71841>>, <<"WARANG CITI CAPITAL LETTER WI", 71842>>,
    <<"WARANG CITI CAPITAL LETTER YU", 71843>>, <<"WARANG CITI CAPITAL LETTER YA", 71844>>,
    <<"WARANG CITI CAPITAL LETTER YO", 71845>>, <<"WARANG CITI CAPITAL LETTER II", 71846>>,
    <<"WARANG CITI CAPITAL LETTER UU", 71847>>, <<"WARANG CITI CAPITAL LETTER E", 71848>>,
    <<"WARANG CITI CAPITAL LETTER O", 71849>>, <<"WARANG CITI CAPITAL LETTER ANG", 71850>>,
    <<"WARANG CITI CAPITAL LETTER GA", 71851>>, <<"WARANG CITI CAPITAL LETTER KO", 71852>>,
    <<"WARANG CITI CAPITAL LETTER ENY", 71853>>, <<"WARANG CITI CAPITAL LETTER YUJ", 71854>>,
    <<"WARANG CITI CAPITAL LETTER UC", 71855>>, <<"WARANG CITI CAPITAL LETTER ENN", 71856>>,
    <<"WARANG CITI CAPITAL LETTER ODD", 71857>>, <<"WARANG CITI CAPITAL LETTER TTE", 71858>>,
    <<"WARANG CITI CAPITAL LETTER NUNG", 71859>>, <<"WARANG CITI CAPITAL LETTER DA", 71860>>,
    <<"WARANG CITI CAPITAL LETTER AT", 71861>>, <<"WARANG CITI CAPITAL LETTER AM", 71862>>,
    <<"WARANG CITI CAPITAL LETTER BU", 71863>>, <<"WARANG CITI CAPITAL LETTER PU", 71864>>,
    <<"WARANG CITI CAPITAL LETTER HIYO", 71865>>, <<"WARANG CITI CAPITAL LETTER HOLO", 71866>>,
    <<"WARANG CITI CAPITAL LETTER HORR", 71867>>, <<"WARANG CITI CAPITAL LETTER HAR", 71868>>,
    <<"WARANG CITI CAPITAL LETTER SSUU", 71869>>, <<"WARANG CITI CAPITAL LETTER SII", 71870>>,
    <<"WARANG CITI CAPITAL LETTER VIYO", 71871>>, <<"WARANG CITI SMALL LETTER NGAA", 71872>>,
    <<"WARANG CITI SMALL LETTER A", 71873>>, <<"WARANG CITI SMALL LETTER WI", 71874>>,
    <<"WARANG CITI SMALL LETTER YU", 71875>>, <<"WARANG CITI SMALL LETTER YA", 71876>>,
    <<"WARANG CITI SMALL LETTER YO", 71877>>, <<"WARANG CITI SMALL LETTER II", 71878>>,
    <<"WARANG CITI SMALL LETTER UU", 71879>>, <<"WARANG CITI SMALL LETTER E", 71880>>,
    <<"WARANG CITI SMALL LETTER O", 71881>>, <<"WARANG CITI SMALL LETTER ANG", 71882>>,
    <<"WARANG CITI SMALL LETTER GA", 71883>>, <<"WARANG CITI SMALL LETTER KO", 71884>>,
    <<"WARANG CITI SMALL LETTER ENY", 71885>>, <<"WARANG CITI SMALL LETTER YUJ", 71886>>,
    <<"WARANG CITI SMALL LETTER UC", 71887>>, <<"WARANG CITI SMALL LETTER ENN", 71888>>,
    <<"WARANG CITI SMALL LETTER ODD", 71889>>, <<"WARANG CITI SMALL LETTER TTE", 71890>>,
    <<"WARANG CITI SMALL LETTER NUNG", 71891>>, <<"WARANG CITI SMALL LETTER DA", 71892>>,
    <<"WARANG CITI SMALL LETTER AT", 71893>>, <<"WARANG CITI SMALL LETTER AM", 71894>>,
    <<"WARANG CITI SMALL LETTER BU", 71895>>, <<"WARANG CITI SMALL LETTER PU", 71896>>,
    <<"WARANG CITI SMALL LETTER HIYO", 71897>>, <<"WARANG CITI SMALL LETTER HOLO", 71898>>,
    <<"WARANG CITI SMALL LETTER HORR", 71899>>, <<"WARANG CITI SMALL LETTER HAR", 71900>>,
    <<"WARANG CITI SMALL LETTER SSUU", 71901>>, <<"WARANG CITI SMALL LETTER SII", 71902>>,
    <<"WARANG CITI SMALL LETTER VIYO", 71903>>, <<"WARANG CITI DIGIT ZERO", 71904>>,
    <<"WARANG CITI DIGIT ONE", 71905>>, <<"WARANG CITI DIGIT TWO", 71906>>,
    <<"WARANG CITI DIGIT THREE", 71907>>, <<"WARANG CITI DIGIT FOUR", 71908>>,
    <<"WARANG CITI DIGIT FIVE", 71909>>, <<"WARANG CITI DIGIT SIX", 71910>>,
    <<"WARANG CITI DIGIT SEVEN", 71911>>, <<"WARANG CITI DIGIT EIGHT", 71912>>,
    <<"WARANG CITI DIGIT NINE", 71913>>, <<"WARANG CITI NUMBER TEN", 71914>>,
    <<"WARANG CITI NUMBER TWENTY", 71915>>, <<"WARANG CITI NUMBER THIRTY", 71916>>,
    <<"WARANG CITI NUMBER FORTY", 71917>>, <<"WARANG CITI NUMBER FIFTY", 71918>>,
    <<"WARANG CITI NUMBER SIXTY", 71919>>, <<"WARANG CITI NUMBER SEVENTY", 71920>>,
    <<"WARANG CITI NUMBER EIGHTY", 71921>>, <<"WARANG CITI NUMBER NINETY", 71922>>,
    <<"WARANG CITI OM", 71935>>, <<"DIVES AKURU LETTER A", 71936>>, <<"DIVES AKURU LETTER AA", 71937>>,
    <<"DIVES AKURU LETTER I", 71938>>, <<"DIVES AKURU LETTER II", 71939>>,
    <<"DIVES AKURU LETTER U", 71940>>, <<"DIVES AKURU LETTER UU", 71941>>,
    <<"DIVES AKURU LETTER E", 71942>>, <<"DIVES AKURU LETTER O", 71945>>,
    <<"DIVES AKURU LETTER KA", 71948>>, <<"DIVES AKURU LETTER KHA", 71949>>,
    <<"DIVES AKURU LETTER GA", 71950>>, <<"DIVES AKURU LETTER GHA", 71951>>,
    <<"DIVES AKURU LETTER NGA", 71952>>, <<"DIVES AKURU LETTER CA", 71953>>,
    <<"DIVES AKURU LETTER CHA", 71954>>, <<"DIVES AKURU LETTER JA", 71955>>,
    <<"DIVES AKURU LETTER NYA", 71957>>, <<"DIVES AKURU LETTER TTA", 71958>>,
    <<"DIVES AKURU LETTER DDA", 71960>>, <<"DIVES AKURU LETTER DDHA", 71961>>,
    <<"DIVES AKURU LETTER NNA", 71962>>, <<"DIVES AKURU LETTER TA", 71963>>,
    <<"DIVES AKURU LETTER THA", 71964>>, <<"DIVES AKURU LETTER DA", 71965>>,
    <<"DIVES AKURU LETTER DHA", 71966>>, <<"DIVES AKURU LETTER NA", 71967>>,
    <<"DIVES AKURU LETTER PA", 71968>>, <<"DIVES AKURU LETTER PHA", 71969>>,
    <<"DIVES AKURU LETTER BA", 71970>>, <<"DIVES AKURU LETTER BHA", 71971>>,
    <<"DIVES AKURU LETTER MA", 71972>>, <<"DIVES AKURU LETTER YA", 71973>>,
    <<"DIVES AKURU LETTER YYA", 71974>>, <<"DIVES AKURU LETTER RA", 71975>>,
    <<"DIVES AKURU LETTER LA", 71976>>, <<"DIVES AKURU LETTER VA", 71977>>,
    <<"DIVES AKURU LETTER SHA", 71978>>, <<"DIVES AKURU LETTER SSA", 71979>>,
    <<"DIVES AKURU LETTER SA", 71980>>, <<"DIVES AKURU LETTER HA", 71981>>,
    <<"DIVES AKURU LETTER LLA", 71982>>, <<"DIVES AKURU LETTER ZA", 71983>>,
    <<"DIVES AKURU VOWEL SIGN AA", 71984>>, <<"DIVES AKURU VOWEL SIGN I", 71985>>,
    <<"DIVES AKURU VOWEL SIGN II", 71986>>, <<"DIVES AKURU VOWEL SIGN U", 71987>>,
    <<"DIVES AKURU VOWEL SIGN UU", 71988>>, <<"DIVES AKURU VOWEL SIGN E", 71989>>,
    <<"DIVES AKURU VOWEL SIGN AI", 71991>>, <<"DIVES AKURU VOWEL SIGN O", 71992>>,
    <<"DIVES AKURU SIGN ANUSVARA", 71995>>, <<"DIVES AKURU SIGN CANDRABINDU", 71996>>,
    <<"DIVES AKURU SIGN HALANTA", 71997>>, <<"DIVES AKURU VIRAMA", 71998>>,
    <<"DIVES AKURU PREFIXED NASAL SIGN", 71999>>, <<"DIVES AKURU MEDIAL YA", 72000>>,
    <<"DIVES AKURU INITIAL RA", 72001>>, <<"DIVES AKURU MEDIAL RA", 72002>>,
    <<"DIVES AKURU SIGN NUKTA", 72003>>, <<"DIVES AKURU DOUBLE DANDA", 72004>>,
    <<"DIVES AKURU GAP FILLER", 72005>>, <<"DIVES AKURU END OF TEXT MARK", 72006>>,
    <<"DIVES AKURU DIGIT ZERO", 72016>>, <<"DIVES AKURU DIGIT ONE", 72017>>,
    <<"DIVES AKURU DIGIT TWO", 72018>>, <<"DIVES AKURU DIGIT THREE", 72019>>,
    <<"DIVES AKURU DIGIT FOUR", 72020>>, <<"DIVES AKURU DIGIT FIVE", 72021>>,
    <<"DIVES AKURU DIGIT SIX", 72022>>, <<"DIVES AKURU DIGIT SEVEN", 72023>>,
    <<"DIVES AKURU DIGIT EIGHT", 72024>>, <<"DIVES AKURU DIGIT NINE", 72025>>,
    <<"NANDINAGARI LETTER A", 72096>>, <<"NANDINAGARI LETTER AA", 72097>>,
    <<"NANDINAGARI LETTER I", 72098>>, <<"NANDINAGARI LETTER II", 72099>>,
    <<"NANDINAGARI LETTER U", 72100>>, <<"NANDINAGARI LETTER UU", 72101>>,
    <<"NANDINAGARI LETTER VOCALIC R", 72102>>, <<"NANDINAGARI LETTER VOCALIC RR", 72103>>,
    <<"NANDINAGARI LETTER E", 72106>>, <<"NANDINAGARI LETTER AI", 72107>>,
    <<"NANDINAGARI LETTER O", 72108>>, <<"NANDINAGARI LETTER AU", 72109>>,
    <<"NANDINAGARI LETTER KA", 72110>>, <<"NANDINAGARI LETTER KHA", 72111>>,
    <<"NANDINAGARI LETTER GA", 72112>>, <<"NANDINAGARI LETTER GHA", 72113>>,
    <<"NANDINAGARI LETTER NGA", 72114>>, <<"NANDINAGARI LETTER CA", 72115>>,
    <<"NANDINAGARI LETTER CHA", 72116>>, <<"NANDINAGARI LETTER JA", 72117>>,
    <<"NANDINAGARI LETTER JHA", 72118>>, <<"NANDINAGARI LETTER NYA", 72119>>,
    <<"NANDINAGARI LETTER TTA", 72120>>, <<"NANDINAGARI LETTER TTHA", 72121>>,
    <<"NANDINAGARI LETTER DDA", 72122>>, <<"NANDINAGARI LETTER DDHA", 72123>>,
    <<"NANDINAGARI LETTER NNA", 72124>>, <<"NANDINAGARI LETTER TA", 72125>>,
    <<"NANDINAGARI LETTER THA", 72126>>, <<"NANDINAGARI LETTER DA", 72127>>,
    <<"NANDINAGARI LETTER DHA", 72128>>, <<"NANDINAGARI LETTER NA", 72129>>,
    <<"NANDINAGARI LETTER PA", 72130>>, <<"NANDINAGARI LETTER PHA", 72131>>,
    <<"NANDINAGARI LETTER BA", 72132>>, <<"NANDINAGARI LETTER BHA", 72133>>,
    <<"NANDINAGARI LETTER MA", 72134>>, <<"NANDINAGARI LETTER YA", 72135>>,
    <<"NANDINAGARI LETTER RA", 72136>>, <<"NANDINAGARI LETTER LA", 72137>>,
    <<"NANDINAGARI LETTER VA", 72138>>, <<"NANDINAGARI LETTER SHA", 72139>>,
    <<"NANDINAGARI LETTER SSA", 72140>>, <<"NANDINAGARI LETTER SA", 72141>>,
    <<"NANDINAGARI LETTER HA", 72142>>, <<"NANDINAGARI LETTER LLA", 72143>>,
    <<"NANDINAGARI LETTER RRA", 72144>>, <<"NANDINAGARI VOWEL SIGN AA", 72145>>,
    <<"NANDINAGARI VOWEL SIGN I", 72146>>, <<"NANDINAGARI VOWEL SIGN II", 72147>>,
    <<"NANDINAGARI VOWEL SIGN U", 72148>>, <<"NANDINAGARI VOWEL SIGN UU", 72149>>,
    <<"NANDINAGARI VOWEL SIGN VOCALIC R", 72150>>, <<"NANDINAGARI VOWEL SIGN VOCALIC RR", 72151>>,
    <<"NANDINAGARI VOWEL SIGN E", 72154>>, <<"NANDINAGARI VOWEL SIGN AI", 72155>>,
    <<"NANDINAGARI VOWEL SIGN O", 72156>>, <<"NANDINAGARI VOWEL SIGN AU", 72157>>,
    <<"NANDINAGARI SIGN ANUSVARA", 72158>>, <<"NANDINAGARI SIGN VISARGA", 72159>>,
    <<"NANDINAGARI SIGN VIRAMA", 72160>>, <<"NANDINAGARI SIGN AVAGRAHA", 72161>>,
    <<"NANDINAGARI SIGN SIDDHAM", 72162>>, <<"NANDINAGARI HEADSTROKE", 72163>>,
    <<"NANDINAGARI VOWEL SIGN PRISHTHAMATRA E", 72164>>, <<"ZANABAZAR SQUARE LETTER A", 72192>>,
    <<"ZANABAZAR SQUARE VOWEL SIGN I", 72193>>, <<"ZANABAZAR SQUARE VOWEL SIGN UE", 72194>>,
    <<"ZANABAZAR SQUARE VOWEL SIGN U", 72195>>, <<"ZANABAZAR SQUARE VOWEL SIGN E", 72196>>,
    <<"ZANABAZAR SQUARE VOWEL SIGN OE", 72197>>, <<"ZANABAZAR SQUARE VOWEL SIGN O", 72198>>,
    <<"ZANABAZAR SQUARE VOWEL SIGN AI", 72199>>, <<"ZANABAZAR SQUARE VOWEL SIGN AU", 72200>>,
    <<"ZANABAZAR SQUARE VOWEL SIGN REVERSED I", 72201>>,
    <<"ZANABAZAR SQUARE VOWEL LENGTH MARK", 72202>>, <<"ZANABAZAR SQUARE LETTER KA", 72203>>,
    <<"ZANABAZAR SQUARE LETTER KHA", 72204>>, <<"ZANABAZAR SQUARE LETTER GA", 72205>>,
    <<"ZANABAZAR SQUARE LETTER GHA", 72206>>, <<"ZANABAZAR SQUARE LETTER NGA", 72207>>,
    <<"ZANABAZAR SQUARE LETTER CA", 72208>>, <<"ZANABAZAR SQUARE LETTER CHA", 72209>>,
    <<"ZANABAZAR SQUARE LETTER JA", 72210>>, <<"ZANABAZAR SQUARE LETTER NYA", 72211>>,
    <<"ZANABAZAR SQUARE LETTER TTA", 72212>>, <<"ZANABAZAR SQUARE LETTER TTHA", 72213>>,
    <<"ZANABAZAR SQUARE LETTER DDA", 72214>>, <<"ZANABAZAR SQUARE LETTER DDHA", 72215>>,
    <<"ZANABAZAR SQUARE LETTER NNA", 72216>>, <<"ZANABAZAR SQUARE LETTER TA", 72217>>,
    <<"ZANABAZAR SQUARE LETTER THA", 72218>>, <<"ZANABAZAR SQUARE LETTER DA", 72219>>,
    <<"ZANABAZAR SQUARE LETTER DHA", 72220>>, <<"ZANABAZAR SQUARE LETTER NA", 72221>>,
    <<"ZANABAZAR SQUARE LETTER PA", 72222>>, <<"ZANABAZAR SQUARE LETTER PHA", 72223>>,
    <<"ZANABAZAR SQUARE LETTER BA", 72224>>, <<"ZANABAZAR SQUARE LETTER BHA", 72225>>,
    <<"ZANABAZAR SQUARE LETTER MA", 72226>>, <<"ZANABAZAR SQUARE LETTER TSA", 72227>>,
    <<"ZANABAZAR SQUARE LETTER TSHA", 72228>>, <<"ZANABAZAR SQUARE LETTER DZA", 72229>>,
    <<"ZANABAZAR SQUARE LETTER DZHA", 72230>>, <<"ZANABAZAR SQUARE LETTER ZHA", 72231>>,
    <<"ZANABAZAR SQUARE LETTER ZA", 72232>>, <<"ZANABAZAR SQUARE LETTER -A", 72233>>,
    <<"ZANABAZAR SQUARE LETTER YA", 72234>>, <<"ZANABAZAR SQUARE LETTER RA", 72235>>,
    <<"ZANABAZAR SQUARE LETTER LA", 72236>>, <<"ZANABAZAR SQUARE LETTER VA", 72237>>,
    <<"ZANABAZAR SQUARE LETTER SHA", 72238>>, <<"ZANABAZAR SQUARE LETTER SSA", 72239>>,
    <<"ZANABAZAR SQUARE LETTER SA", 72240>>, <<"ZANABAZAR SQUARE LETTER HA", 72241>>,
    <<"ZANABAZAR SQUARE LETTER KSSA", 72242>>, <<"ZANABAZAR SQUARE FINAL CONSONANT MARK", 72243>>,
    <<"ZANABAZAR SQUARE SIGN VIRAMA", 72244>>, <<"ZANABAZAR SQUARE SIGN CANDRABINDU", 72245>>,
    <<"ZANABAZAR SQUARE SIGN CANDRABINDU WITH ORNAMENT", 72246>>,
    <<"ZANABAZAR SQUARE SIGN CANDRA WITH ORNAMENT", 72247>>,
    <<"ZANABAZAR SQUARE SIGN ANUSVARA", 72248>>, <<"ZANABAZAR SQUARE SIGN VISARGA", 72249>>,
    <<"ZANABAZAR SQUARE CLUSTER-INITIAL LETTER RA", 72250>>,
    <<"ZANABAZAR SQUARE CLUSTER-FINAL LETTER YA", 72251>>,
    <<"ZANABAZAR SQUARE CLUSTER-FINAL LETTER RA", 72252>>,
    <<"ZANABAZAR SQUARE CLUSTER-FINAL LETTER LA", 72253>>,
    <<"ZANABAZAR SQUARE CLUSTER-FINAL LETTER VA", 72254>>,
    <<"ZANABAZAR SQUARE INITIAL HEAD MARK", 72255>>, <<"ZANABAZAR SQUARE CLOSING HEAD MARK", 72256>>,
    <<"ZANABAZAR SQUARE MARK TSHEG", 72257>>, <<"ZANABAZAR SQUARE MARK SHAD", 72258>>,
    <<"ZANABAZAR SQUARE MARK DOUBLE SHAD", 72259>>, <<"ZANABAZAR SQUARE MARK LONG TSHEG", 72260>>,
    <<"ZANABAZAR SQUARE INITIAL DOUBLE-LINED HEAD MARK", 72261>>,
    <<"ZANABAZAR SQUARE CLOSING DOUBLE-LINED HEAD MARK", 72262>>,
    <<"ZANABAZAR SQUARE SUBJOINER", 72263>>, <<"SOYOMBO LETTER A", 72272>>,
    <<"SOYOMBO VOWEL SIGN I", 72273>>, <<"SOYOMBO VOWEL SIGN UE", 72274>>,
    <<"SOYOMBO VOWEL SIGN U", 72275>>, <<"SOYOMBO VOWEL SIGN E", 72276>>,
    <<"SOYOMBO VOWEL SIGN O", 72277>>, <<"SOYOMBO VOWEL SIGN OE", 72278>>,
    <<"SOYOMBO VOWEL SIGN AI", 72279>>, <<"SOYOMBO VOWEL SIGN AU", 72280>>,
    <<"SOYOMBO VOWEL SIGN VOCALIC R", 72281>>, <<"SOYOMBO VOWEL SIGN VOCALIC L", 72282>>,
    <<"SOYOMBO VOWEL LENGTH MARK", 72283>>, <<"SOYOMBO LETTER KA", 72284>>,
    <<"SOYOMBO LETTER KHA", 72285>>, <<"SOYOMBO LETTER GA", 72286>>, <<"SOYOMBO LETTER GHA", 72287>>,
    <<"SOYOMBO LETTER NGA", 72288>>, <<"SOYOMBO LETTER CA", 72289>>, <<"SOYOMBO LETTER CHA", 72290>>,
    <<"SOYOMBO LETTER JA", 72291>>, <<"SOYOMBO LETTER JHA", 72292>>, <<"SOYOMBO LETTER NYA", 72293>>,
    <<"SOYOMBO LETTER TTA", 72294>>, <<"SOYOMBO LETTER TTHA", 72295>>, <<"SOYOMBO LETTER DDA", 72296>>,
    <<"SOYOMBO LETTER DDHA", 72297>>, <<"SOYOMBO LETTER NNA", 72298>>, <<"SOYOMBO LETTER TA", 72299>>,
    <<"SOYOMBO LETTER THA", 72300>>, <<"SOYOMBO LETTER DA", 72301>>, <<"SOYOMBO LETTER DHA", 72302>>,
    <<"SOYOMBO LETTER NA", 72303>>, <<"SOYOMBO LETTER PA", 72304>>, <<"SOYOMBO LETTER PHA", 72305>>,
    <<"SOYOMBO LETTER BA", 72306>>, <<"SOYOMBO LETTER BHA", 72307>>, <<"SOYOMBO LETTER MA", 72308>>,
    <<"SOYOMBO LETTER TSA", 72309>>, <<"SOYOMBO LETTER TSHA", 72310>>, <<"SOYOMBO LETTER DZA", 72311>>,
    <<"SOYOMBO LETTER ZHA", 72312>>, <<"SOYOMBO LETTER ZA", 72313>>, <<"SOYOMBO LETTER -A", 72314>>,
    <<"SOYOMBO LETTER YA", 72315>>, <<"SOYOMBO LETTER RA", 72316>>, <<"SOYOMBO LETTER LA", 72317>>,
    <<"SOYOMBO LETTER VA", 72318>>, <<"SOYOMBO LETTER SHA", 72319>>, <<"SOYOMBO LETTER SSA", 72320>>,
    <<"SOYOMBO LETTER SA", 72321>>, <<"SOYOMBO LETTER HA", 72322>>, <<"SOYOMBO LETTER KSSA", 72323>>,
    <<"SOYOMBO SIGN JIHVAMULIYA", 72324>>, <<"SOYOMBO SIGN UPADHMANIYA", 72325>>,
    <<"SOYOMBO CLUSTER-INITIAL LETTER RA", 72326>>, <<"SOYOMBO CLUSTER-INITIAL LETTER LA", 72327>>,
    <<"SOYOMBO CLUSTER-INITIAL LETTER SHA", 72328>>, <<"SOYOMBO CLUSTER-INITIAL LETTER SA", 72329>>,
    <<"SOYOMBO FINAL CONSONANT SIGN G", 72330>>, <<"SOYOMBO FINAL CONSONANT SIGN K", 72331>>,
    <<"SOYOMBO FINAL CONSONANT SIGN NG", 72332>>, <<"SOYOMBO FINAL CONSONANT SIGN D", 72333>>,
    <<"SOYOMBO FINAL CONSONANT SIGN N", 72334>>, <<"SOYOMBO FINAL CONSONANT SIGN B", 72335>>,
    <<"SOYOMBO FINAL CONSONANT SIGN M", 72336>>, <<"SOYOMBO FINAL CONSONANT SIGN R", 72337>>,
    <<"SOYOMBO FINAL CONSONANT SIGN L", 72338>>, <<"SOYOMBO FINAL CONSONANT SIGN SH", 72339>>,
    <<"SOYOMBO FINAL CONSONANT SIGN S", 72340>>, <<"SOYOMBO FINAL CONSONANT SIGN -A", 72341>>,
    <<"SOYOMBO SIGN ANUSVARA", 72342>>, <<"SOYOMBO SIGN VISARGA", 72343>>,
    <<"SOYOMBO GEMINATION MARK", 72344>>, <<"SOYOMBO SUBJOINER", 72345>>,
    <<"SOYOMBO MARK TSHEG", 72346>>, <<"SOYOMBO MARK SHAD", 72347>>,
    <<"SOYOMBO MARK DOUBLE SHAD", 72348>>, <<"SOYOMBO MARK PLUTA", 72349>>,
    <<"SOYOMBO HEAD MARK WITH MOON AND SUN AND TRIPLE FLAME", 72350>>,
    <<"SOYOMBO HEAD MARK WITH MOON AND SUN AND FLAME", 72351>>,
    <<"SOYOMBO HEAD MARK WITH MOON AND SUN", 72352>>, <<"SOYOMBO TERMINAL MARK-1", 72353>>,
    <<"SOYOMBO TERMINAL MARK-2", 72354>>, <<"CANADIAN SYLLABICS NATTILIK HI", 72368>>,
    <<"CANADIAN SYLLABICS NATTILIK HII", 72369>>, <<"CANADIAN SYLLABICS NATTILIK HO", 72370>>,
    <<"CANADIAN SYLLABICS NATTILIK HOO", 72371>>, <<"CANADIAN SYLLABICS NATTILIK HA", 72372>>,
    <<"CANADIAN SYLLABICS NATTILIK HAA", 72373>>, <<"CANADIAN SYLLABICS NATTILIK SHRI", 72374>>,
    <<"CANADIAN SYLLABICS NATTILIK SHRII", 72375>>, <<"CANADIAN SYLLABICS NATTILIK SHRO", 72376>>,
    <<"CANADIAN SYLLABICS NATTILIK SHROO", 72377>>, <<"CANADIAN SYLLABICS NATTILIK SHRA", 72378>>,
    <<"CANADIAN SYLLABICS NATTILIK SHRAA", 72379>>, <<"CANADIAN SYLLABICS SPE", 72380>>,
    <<"CANADIAN SYLLABICS SPI", 72381>>, <<"CANADIAN SYLLABICS SPO", 72382>>,
    <<"CANADIAN SYLLABICS SPA", 72383>>, <<"PAU CIN HAU LETTER PA", 72384>>,
    <<"PAU CIN HAU LETTER KA", 72385>>, <<"PAU CIN HAU LETTER LA", 72386>>,
    <<"PAU CIN HAU LETTER MA", 72387>>, <<"PAU CIN HAU LETTER DA", 72388>>,
    <<"PAU CIN HAU LETTER ZA", 72389>>, <<"PAU CIN HAU LETTER VA", 72390>>,
    <<"PAU CIN HAU LETTER NGA", 72391>>, <<"PAU CIN HAU LETTER HA", 72392>>,
    <<"PAU CIN HAU LETTER GA", 72393>>, <<"PAU CIN HAU LETTER KHA", 72394>>,
    <<"PAU CIN HAU LETTER SA", 72395>>, <<"PAU CIN HAU LETTER BA", 72396>>,
    <<"PAU CIN HAU LETTER CA", 72397>>, <<"PAU CIN HAU LETTER TA", 72398>>,
    <<"PAU CIN HAU LETTER THA", 72399>>, <<"PAU CIN HAU LETTER NA", 72400>>,
    <<"PAU CIN HAU LETTER PHA", 72401>>, <<"PAU CIN HAU LETTER RA", 72402>>,
    <<"PAU CIN HAU LETTER FA", 72403>>, <<"PAU CIN HAU LETTER CHA", 72404>>,
    <<"PAU CIN HAU LETTER A", 72405>>, <<"PAU CIN HAU LETTER E", 72406>>,
    <<"PAU CIN HAU LETTER I", 72407>>, <<"PAU CIN HAU LETTER O", 72408>>,
    <<"PAU CIN HAU LETTER U", 72409>>, <<"PAU CIN HAU LETTER UA", 72410>>,
    <<"PAU CIN HAU LETTER IA", 72411>>, <<"PAU CIN HAU LETTER FINAL P", 72412>>,
    <<"PAU CIN HAU LETTER FINAL K", 72413>>, <<"PAU CIN HAU LETTER FINAL T", 72414>>,
    <<"PAU CIN HAU LETTER FINAL M", 72415>>, <<"PAU CIN HAU LETTER FINAL N", 72416>>,
    <<"PAU CIN HAU LETTER FINAL L", 72417>>, <<"PAU CIN HAU LETTER FINAL W", 72418>>,
    <<"PAU CIN HAU LETTER FINAL NG", 72419>>, <<"PAU CIN HAU LETTER FINAL Y", 72420>>,
    <<"PAU CIN HAU RISING TONE LONG", 72421>>, <<"PAU CIN HAU RISING TONE", 72422>>,
    <<"PAU CIN HAU SANDHI GLOTTAL STOP", 72423>>, <<"PAU CIN HAU RISING TONE LONG FINAL", 72424>>,
    <<"PAU CIN HAU RISING TONE FINAL", 72425>>, <<"PAU CIN HAU SANDHI GLOTTAL STOP FINAL", 72426>>,
    <<"PAU CIN HAU SANDHI TONE LONG", 72427>>, <<"PAU CIN HAU SANDHI TONE", 72428>>,
    <<"PAU CIN HAU SANDHI TONE LONG FINAL", 72429>>, <<"PAU CIN HAU SANDHI TONE FINAL", 72430>>,
    <<"PAU CIN HAU MID-LEVEL TONE", 72431>>, <<"PAU CIN HAU GLOTTAL STOP VARIANT", 72432>>,
    <<"PAU CIN HAU MID-LEVEL TONE LONG FINAL", 72433>>, <<"PAU CIN HAU MID-LEVEL TONE FINAL", 72434>>,
    <<"PAU CIN HAU LOW-FALLING TONE LONG", 72435>>, <<"PAU CIN HAU LOW-FALLING TONE", 72436>>,
    <<"PAU CIN HAU GLOTTAL STOP", 72437>>, <<"PAU CIN HAU LOW-FALLING TONE LONG FINAL", 72438>>,
    <<"PAU CIN HAU LOW-FALLING TONE FINAL", 72439>>, <<"PAU CIN HAU GLOTTAL STOP FINAL", 72440>>,
    <<"BHAIKSUKI LETTER A", 72704>>, <<"BHAIKSUKI LETTER AA", 72705>>, <<"BHAIKSUKI LETTER I", 72706>>,
    <<"BHAIKSUKI LETTER II", 72707>>, <<"BHAIKSUKI LETTER U", 72708>>,
    <<"BHAIKSUKI LETTER UU", 72709>>, <<"BHAIKSUKI LETTER VOCALIC R", 72710>>,
    <<"BHAIKSUKI LETTER VOCALIC RR", 72711>>, <<"BHAIKSUKI LETTER VOCALIC L", 72712>>,
    <<"BHAIKSUKI LETTER E", 72714>>, <<"BHAIKSUKI LETTER AI", 72715>>, <<"BHAIKSUKI LETTER O", 72716>>,
    <<"BHAIKSUKI LETTER AU", 72717>>, <<"BHAIKSUKI LETTER KA", 72718>>,
    <<"BHAIKSUKI LETTER KHA", 72719>>, <<"BHAIKSUKI LETTER GA", 72720>>,
    <<"BHAIKSUKI LETTER GHA", 72721>>, <<"BHAIKSUKI LETTER NGA", 72722>>,
    <<"BHAIKSUKI LETTER CA", 72723>>, <<"BHAIKSUKI LETTER CHA", 72724>>,
    <<"BHAIKSUKI LETTER JA", 72725>>, <<"BHAIKSUKI LETTER JHA", 72726>>,
    <<"BHAIKSUKI LETTER NYA", 72727>>, <<"BHAIKSUKI LETTER TTA", 72728>>,
    <<"BHAIKSUKI LETTER TTHA", 72729>>, <<"BHAIKSUKI LETTER DDA", 72730>>,
    <<"BHAIKSUKI LETTER DDHA", 72731>>, <<"BHAIKSUKI LETTER NNA", 72732>>,
    <<"BHAIKSUKI LETTER TA", 72733>>, <<"BHAIKSUKI LETTER THA", 72734>>,
    <<"BHAIKSUKI LETTER DA", 72735>>, <<"BHAIKSUKI LETTER DHA", 72736>>,
    <<"BHAIKSUKI LETTER NA", 72737>>, <<"BHAIKSUKI LETTER PA", 72738>>,
    <<"BHAIKSUKI LETTER PHA", 72739>>, <<"BHAIKSUKI LETTER BA", 72740>>,
    <<"BHAIKSUKI LETTER BHA", 72741>>, <<"BHAIKSUKI LETTER MA", 72742>>,
    <<"BHAIKSUKI LETTER YA", 72743>>, <<"BHAIKSUKI LETTER RA", 72744>>,
    <<"BHAIKSUKI LETTER LA", 72745>>, <<"BHAIKSUKI LETTER VA", 72746>>,
    <<"BHAIKSUKI LETTER SHA", 72747>>, <<"BHAIKSUKI LETTER SSA", 72748>>,
    <<"BHAIKSUKI LETTER SA", 72749>>, <<"BHAIKSUKI LETTER HA", 72750>>,
    <<"BHAIKSUKI VOWEL SIGN AA", 72751>>, <<"BHAIKSUKI VOWEL SIGN I", 72752>>,
    <<"BHAIKSUKI VOWEL SIGN II", 72753>>, <<"BHAIKSUKI VOWEL SIGN U", 72754>>,
    <<"BHAIKSUKI VOWEL SIGN UU", 72755>>, <<"BHAIKSUKI VOWEL SIGN VOCALIC R", 72756>>,
    <<"BHAIKSUKI VOWEL SIGN VOCALIC RR", 72757>>, <<"BHAIKSUKI VOWEL SIGN VOCALIC L", 72758>>,
    <<"BHAIKSUKI VOWEL SIGN E", 72760>>, <<"BHAIKSUKI VOWEL SIGN AI", 72761>>,
    <<"BHAIKSUKI VOWEL SIGN O", 72762>>, <<"BHAIKSUKI VOWEL SIGN AU", 72763>>,
    <<"BHAIKSUKI SIGN CANDRABINDU", 72764>>, <<"BHAIKSUKI SIGN ANUSVARA", 72765>>,
    <<"BHAIKSUKI SIGN VISARGA", 72766>>, <<"BHAIKSUKI SIGN VIRAMA", 72767>>,
    <<"BHAIKSUKI SIGN AVAGRAHA", 72768>>, <<"BHAIKSUKI DANDA", 72769>>,
    <<"BHAIKSUKI DOUBLE DANDA", 72770>>, <<"BHAIKSUKI WORD SEPARATOR", 72771>>,
    <<"BHAIKSUKI GAP FILLER-1", 72772>>, <<"BHAIKSUKI GAP FILLER-2", 72773>>,
    <<"BHAIKSUKI DIGIT ZERO", 72784>>, <<"BHAIKSUKI DIGIT ONE", 72785>>,
    <<"BHAIKSUKI DIGIT TWO", 72786>>, <<"BHAIKSUKI DIGIT THREE", 72787>>,
    <<"BHAIKSUKI DIGIT FOUR", 72788>>, <<"BHAIKSUKI DIGIT FIVE", 72789>>,
    <<"BHAIKSUKI DIGIT SIX", 72790>>, <<"BHAIKSUKI DIGIT SEVEN", 72791>>,
    <<"BHAIKSUKI DIGIT EIGHT", 72792>>, <<"BHAIKSUKI DIGIT NINE", 72793>>,
    <<"BHAIKSUKI NUMBER ONE", 72794>>, <<"BHAIKSUKI NUMBER TWO", 72795>>,
    <<"BHAIKSUKI NUMBER THREE", 72796>>, <<"BHAIKSUKI NUMBER FOUR", 72797>>,
    <<"BHAIKSUKI NUMBER FIVE", 72798>>, <<"BHAIKSUKI NUMBER SIX", 72799>>,
    <<"BHAIKSUKI NUMBER SEVEN", 72800>>, <<"BHAIKSUKI NUMBER EIGHT", 72801>>,
    <<"BHAIKSUKI NUMBER NINE", 72802>>, <<"BHAIKSUKI NUMBER TEN", 72803>>,
    <<"BHAIKSUKI NUMBER TWENTY", 72804>>, <<"BHAIKSUKI NUMBER THIRTY", 72805>>,
    <<"BHAIKSUKI NUMBER FORTY", 72806>>, <<"BHAIKSUKI NUMBER FIFTY", 72807>>,
    <<"BHAIKSUKI NUMBER SIXTY", 72808>>, <<"BHAIKSUKI NUMBER SEVENTY", 72809>>,
    <<"BHAIKSUKI NUMBER EIGHTY", 72810>>, <<"BHAIKSUKI NUMBER NINETY", 72811>>,
    <<"BHAIKSUKI HUNDREDS UNIT MARK", 72812>>, <<"MARCHEN HEAD MARK", 72816>>,
    <<"MARCHEN MARK SHAD", 72817>>, <<"MARCHEN LETTER KA", 72818>>, <<"MARCHEN LETTER KHA", 72819>>,
    <<"MARCHEN LETTER GA", 72820>>, <<"MARCHEN LETTER NGA", 72821>>, <<"MARCHEN LETTER CA", 72822>>,
    <<"MARCHEN LETTER CHA", 72823>>, <<"MARCHEN LETTER JA", 72824>>, <<"MARCHEN LETTER NYA", 72825>>,
    <<"MARCHEN LETTER TA", 72826>>, <<"MARCHEN LETTER THA", 72827>>, <<"MARCHEN LETTER DA", 72828>>,
    <<"MARCHEN LETTER NA", 72829>>, <<"MARCHEN LETTER PA", 72830>>, <<"MARCHEN LETTER PHA", 72831>>,
    <<"MARCHEN LETTER BA", 72832>>, <<"MARCHEN LETTER MA", 72833>>, <<"MARCHEN LETTER TSA", 72834>>,
    <<"MARCHEN LETTER TSHA", 72835>>, <<"MARCHEN LETTER DZA", 72836>>, <<"MARCHEN LETTER WA", 72837>>,
    <<"MARCHEN LETTER ZHA", 72838>>, <<"MARCHEN LETTER ZA", 72839>>, <<"MARCHEN LETTER -A", 72840>>,
    <<"MARCHEN LETTER YA", 72841>>, <<"MARCHEN LETTER RA", 72842>>, <<"MARCHEN LETTER LA", 72843>>,
    <<"MARCHEN LETTER SHA", 72844>>, <<"MARCHEN LETTER SA", 72845>>, <<"MARCHEN LETTER HA", 72846>>,
    <<"MARCHEN LETTER A", 72847>>, <<"MARCHEN SUBJOINED LETTER KA", 72850>>,
    <<"MARCHEN SUBJOINED LETTER KHA", 72851>>, <<"MARCHEN SUBJOINED LETTER GA", 72852>>,
    <<"MARCHEN SUBJOINED LETTER NGA", 72853>>, <<"MARCHEN SUBJOINED LETTER CA", 72854>>,
    <<"MARCHEN SUBJOINED LETTER CHA", 72855>>, <<"MARCHEN SUBJOINED LETTER JA", 72856>>,
    <<"MARCHEN SUBJOINED LETTER NYA", 72857>>, <<"MARCHEN SUBJOINED LETTER TA", 72858>>,
    <<"MARCHEN SUBJOINED LETTER THA", 72859>>, <<"MARCHEN SUBJOINED LETTER DA", 72860>>,
    <<"MARCHEN SUBJOINED LETTER NA", 72861>>, <<"MARCHEN SUBJOINED LETTER PA", 72862>>,
    <<"MARCHEN SUBJOINED LETTER PHA", 72863>>, <<"MARCHEN SUBJOINED LETTER BA", 72864>>,
    <<"MARCHEN SUBJOINED LETTER MA", 72865>>, <<"MARCHEN SUBJOINED LETTER TSA", 72866>>,
    <<"MARCHEN SUBJOINED LETTER TSHA", 72867>>, <<"MARCHEN SUBJOINED LETTER DZA", 72868>>,
    <<"MARCHEN SUBJOINED LETTER WA", 72869>>, <<"MARCHEN SUBJOINED LETTER ZHA", 72870>>,
    <<"MARCHEN SUBJOINED LETTER ZA", 72871>>, <<"MARCHEN SUBJOINED LETTER YA", 72873>>,
    <<"MARCHEN SUBJOINED LETTER RA", 72874>>, <<"MARCHEN SUBJOINED LETTER LA", 72875>>,
    <<"MARCHEN SUBJOINED LETTER SHA", 72876>>, <<"MARCHEN SUBJOINED LETTER SA", 72877>>,
    <<"MARCHEN SUBJOINED LETTER HA", 72878>>, <<"MARCHEN SUBJOINED LETTER A", 72879>>,
    <<"MARCHEN VOWEL SIGN AA", 72880>>, <<"MARCHEN VOWEL SIGN I", 72881>>,
    <<"MARCHEN VOWEL SIGN U", 72882>>, <<"MARCHEN VOWEL SIGN E", 72883>>,
    <<"MARCHEN VOWEL SIGN O", 72884>>, <<"MARCHEN SIGN ANUSVARA", 72885>>,
    <<"MARCHEN SIGN CANDRABINDU", 72886>>, <<"MASARAM GONDI LETTER A", 72960>>,
    <<"MASARAM GONDI LETTER AA", 72961>>, <<"MASARAM GONDI LETTER I", 72962>>,
    <<"MASARAM GONDI LETTER II", 72963>>, <<"MASARAM GONDI LETTER U", 72964>>,
    <<"MASARAM GONDI LETTER UU", 72965>>, <<"MASARAM GONDI LETTER E", 72966>>,
    <<"MASARAM GONDI LETTER AI", 72968>>, <<"MASARAM GONDI LETTER O", 72969>>,
    <<"MASARAM GONDI LETTER AU", 72971>>, <<"MASARAM GONDI LETTER KA", 72972>>,
    <<"MASARAM GONDI LETTER KHA", 72973>>, <<"MASARAM GONDI LETTER GA", 72974>>,
    <<"MASARAM GONDI LETTER GHA", 72975>>, <<"MASARAM GONDI LETTER NGA", 72976>>,
    <<"MASARAM GONDI LETTER CA", 72977>>, <<"MASARAM GONDI LETTER CHA", 72978>>,
    <<"MASARAM GONDI LETTER JA", 72979>>, <<"MASARAM GONDI LETTER JHA", 72980>>,
    <<"MASARAM GONDI LETTER NYA", 72981>>, <<"MASARAM GONDI LETTER TTA", 72982>>,
    <<"MASARAM GONDI LETTER TTHA", 72983>>, <<"MASARAM GONDI LETTER DDA", 72984>>,
    <<"MASARAM GONDI LETTER DDHA", 72985>>, <<"MASARAM GONDI LETTER NNA", 72986>>,
    <<"MASARAM GONDI LETTER TA", 72987>>, <<"MASARAM GONDI LETTER THA", 72988>>,
    <<"MASARAM GONDI LETTER DA", 72989>>, <<"MASARAM GONDI LETTER DHA", 72990>>,
    <<"MASARAM GONDI LETTER NA", 72991>>, <<"MASARAM GONDI LETTER PA", 72992>>,
    <<"MASARAM GONDI LETTER PHA", 72993>>, <<"MASARAM GONDI LETTER BA", 72994>>,
    <<"MASARAM GONDI LETTER BHA", 72995>>, <<"MASARAM GONDI LETTER MA", 72996>>,
    <<"MASARAM GONDI LETTER YA", 72997>>, <<"MASARAM GONDI LETTER RA", 72998>>,
    <<"MASARAM GONDI LETTER LA", 72999>>, <<"MASARAM GONDI LETTER VA", 73000>>,
    <<"MASARAM GONDI LETTER SHA", 73001>>, <<"MASARAM GONDI LETTER SSA", 73002>>,
    <<"MASARAM GONDI LETTER SA", 73003>>, <<"MASARAM GONDI LETTER HA", 73004>>,
    <<"MASARAM GONDI LETTER LLA", 73005>>, <<"MASARAM GONDI LETTER KSSA", 73006>>,
    <<"MASARAM GONDI LETTER JNYA", 73007>>, <<"MASARAM GONDI LETTER TRA", 73008>>,
    <<"MASARAM GONDI VOWEL SIGN AA", 73009>>, <<"MASARAM GONDI VOWEL SIGN I", 73010>>,
    <<"MASARAM GONDI VOWEL SIGN II", 73011>>, <<"MASARAM GONDI VOWEL SIGN U", 73012>>,
    <<"MASARAM GONDI VOWEL SIGN UU", 73013>>, <<"MASARAM GONDI VOWEL SIGN VOCALIC R", 73014>>,
    <<"MASARAM GONDI VOWEL SIGN E", 73018>>, <<"MASARAM GONDI VOWEL SIGN AI", 73020>>,
    <<"MASARAM GONDI VOWEL SIGN O", 73021>>, <<"MASARAM GONDI VOWEL SIGN AU", 73023>>,
    <<"MASARAM GONDI SIGN ANUSVARA", 73024>>, <<"MASARAM GONDI SIGN VISARGA", 73025>>,
    <<"MASARAM GONDI SIGN NUKTA", 73026>>, <<"MASARAM GONDI SIGN CANDRA", 73027>>,
    <<"MASARAM GONDI SIGN HALANTA", 73028>>, <<"MASARAM GONDI VIRAMA", 73029>>,
    <<"MASARAM GONDI REPHA", 73030>>, <<"MASARAM GONDI RA-KARA", 73031>>,
    <<"MASARAM GONDI DIGIT ZERO", 73040>>, <<"MASARAM GONDI DIGIT ONE", 73041>>,
    <<"MASARAM GONDI DIGIT TWO", 73042>>, <<"MASARAM GONDI DIGIT THREE", 73043>>,
    <<"MASARAM GONDI DIGIT FOUR", 73044>>, <<"MASARAM GONDI DIGIT FIVE", 73045>>,
    <<"MASARAM GONDI DIGIT SIX", 73046>>, <<"MASARAM GONDI DIGIT SEVEN", 73047>>,
    <<"MASARAM GONDI DIGIT EIGHT", 73048>>, <<"MASARAM GONDI DIGIT NINE", 73049>>,
    <<"GUNJALA GONDI LETTER A", 73056>>, <<"GUNJALA GONDI LETTER AA", 73057>>,
    <<"GUNJALA GONDI LETTER I", 73058>>, <<"GUNJALA GONDI LETTER II", 73059>>,
    <<"GUNJALA GONDI LETTER U", 73060>>, <<"GUNJALA GONDI LETTER UU", 73061>>,
    <<"GUNJALA GONDI LETTER EE", 73063>>, <<"GUNJALA GONDI LETTER AI", 73064>>,
    <<"GUNJALA GONDI LETTER OO", 73066>>, <<"GUNJALA GONDI LETTER AU", 73067>>,
    <<"GUNJALA GONDI LETTER YA", 73068>>, <<"GUNJALA GONDI LETTER VA", 73069>>,
    <<"GUNJALA GONDI LETTER BA", 73070>>, <<"GUNJALA GONDI LETTER BHA", 73071>>,
    <<"GUNJALA GONDI LETTER MA", 73072>>, <<"GUNJALA GONDI LETTER KA", 73073>>,
    <<"GUNJALA GONDI LETTER KHA", 73074>>, <<"GUNJALA GONDI LETTER TA", 73075>>,
    <<"GUNJALA GONDI LETTER THA", 73076>>, <<"GUNJALA GONDI LETTER LA", 73077>>,
    <<"GUNJALA GONDI LETTER GA", 73078>>, <<"GUNJALA GONDI LETTER GHA", 73079>>,
    <<"GUNJALA GONDI LETTER DA", 73080>>, <<"GUNJALA GONDI LETTER DHA", 73081>>,
    <<"GUNJALA GONDI LETTER NA", 73082>>, <<"GUNJALA GONDI LETTER CA", 73083>>,
    <<"GUNJALA GONDI LETTER CHA", 73084>>, <<"GUNJALA GONDI LETTER TTA", 73085>>,
    <<"GUNJALA GONDI LETTER TTHA", 73086>>, <<"GUNJALA GONDI LETTER LLA", 73087>>,
    <<"GUNJALA GONDI LETTER JA", 73088>>, <<"GUNJALA GONDI LETTER JHA", 73089>>,
    <<"GUNJALA GONDI LETTER DDA", 73090>>, <<"GUNJALA GONDI LETTER DDHA", 73091>>,
    <<"GUNJALA GONDI LETTER NGA", 73092>>, <<"GUNJALA GONDI LETTER PA", 73093>>,
    <<"GUNJALA GONDI LETTER PHA", 73094>>, <<"GUNJALA GONDI LETTER HA", 73095>>,
    <<"GUNJALA GONDI LETTER RA", 73096>>, <<"GUNJALA GONDI LETTER SA", 73097>>,
    <<"GUNJALA GONDI VOWEL SIGN AA", 73098>>, <<"GUNJALA GONDI VOWEL SIGN I", 73099>>,
    <<"GUNJALA GONDI VOWEL SIGN II", 73100>>, <<"GUNJALA GONDI VOWEL SIGN U", 73101>>,
    <<"GUNJALA GONDI VOWEL SIGN UU", 73102>>, <<"GUNJALA GONDI VOWEL SIGN EE", 73104>>,
    <<"GUNJALA GONDI VOWEL SIGN AI", 73105>>, <<"GUNJALA GONDI VOWEL SIGN OO", 73107>>,
    <<"GUNJALA GONDI VOWEL SIGN AU", 73108>>, <<"GUNJALA GONDI SIGN ANUSVARA", 73109>>,
    <<"GUNJALA GONDI SIGN VISARGA", 73110>>, <<"GUNJALA GONDI VIRAMA", 73111>>,
    <<"GUNJALA GONDI OM", 73112>>, <<"GUNJALA GONDI DIGIT ZERO", 73120>>,
    <<"GUNJALA GONDI DIGIT ONE", 73121>>, <<"GUNJALA GONDI DIGIT TWO", 73122>>,
    <<"GUNJALA GONDI DIGIT THREE", 73123>>, <<"GUNJALA GONDI DIGIT FOUR", 73124>>,
    <<"GUNJALA GONDI DIGIT FIVE", 73125>>, <<"GUNJALA GONDI DIGIT SIX", 73126>>,
    <<"GUNJALA GONDI DIGIT SEVEN", 73127>>, <<"GUNJALA GONDI DIGIT EIGHT", 73128>>,
    <<"GUNJALA GONDI DIGIT NINE", 73129>>, <<"MAKASAR LETTER KA", 73440>>,
    <<"MAKASAR LETTER GA", 73441>>, <<"MAKASAR LETTER NGA", 73442>>, <<"MAKASAR LETTER PA", 73443>>,
    <<"MAKASAR LETTER BA", 73444>>, <<"MAKASAR LETTER MA", 73445>>, <<"MAKASAR LETTER TA", 73446>>,
    <<"MAKASAR LETTER DA", 73447>>, <<"MAKASAR LETTER NA", 73448>>, <<"MAKASAR LETTER CA", 73449>>,
    <<"MAKASAR LETTER JA", 73450>>, <<"MAKASAR LETTER NYA", 73451>>, <<"MAKASAR LETTER YA", 73452>>,
    <<"MAKASAR LETTER RA", 73453>>, <<"MAKASAR LETTER LA", 73454>>, <<"MAKASAR LETTER VA", 73455>>,
    <<"MAKASAR LETTER SA", 73456>>, <<"MAKASAR LETTER A", 73457>>, <<"MAKASAR ANGKA", 73458>>,
    <<"MAKASAR VOWEL SIGN I", 73459>>, <<"MAKASAR VOWEL SIGN U", 73460>>,
    <<"MAKASAR VOWEL SIGN E", 73461>>, <<"MAKASAR VOWEL SIGN O", 73462>>,
    <<"MAKASAR PASSIMBANG", 73463>>, <<"MAKASAR END OF SECTION", 73464>>, <<"LISU LETTER YHA", 73648>>,
    <<"TAMIL FRACTION ONE THREE-HUNDRED-AND-TWENTIETH", 73664>>,
    <<"TAMIL FRACTION ONE ONE-HUNDRED-AND-SIXTIETH", 73665>>,
    <<"TAMIL FRACTION ONE EIGHTIETH", 73666>>, <<"TAMIL FRACTION ONE SIXTY-FOURTH", 73667>>,
    <<"TAMIL FRACTION ONE FORTIETH", 73668>>, <<"TAMIL FRACTION ONE THIRTY-SECOND", 73669>>,
    <<"TAMIL FRACTION THREE EIGHTIETHS", 73670>>, <<"TAMIL FRACTION THREE SIXTY-FOURTHS", 73671>>,
    <<"TAMIL FRACTION ONE TWENTIETH", 73672>>, <<"TAMIL FRACTION ONE SIXTEENTH-1", 73673>>,
    <<"TAMIL FRACTION ONE SIXTEENTH-2", 73674>>, <<"TAMIL FRACTION ONE TENTH", 73675>>,
    <<"TAMIL FRACTION ONE EIGHTH", 73676>>, <<"TAMIL FRACTION THREE TWENTIETHS", 73677>>,
    <<"TAMIL FRACTION THREE SIXTEENTHS", 73678>>, <<"TAMIL FRACTION ONE FIFTH", 73679>>,
    <<"TAMIL FRACTION ONE QUARTER", 73680>>, <<"TAMIL FRACTION ONE HALF-1", 73681>>,
    <<"TAMIL FRACTION ONE HALF-2", 73682>>, <<"TAMIL FRACTION THREE QUARTERS", 73683>>,
    <<"TAMIL FRACTION DOWNSCALING FACTOR KIIZH", 73684>>, <<"TAMIL SIGN NEL", 73685>>,
    <<"TAMIL SIGN CEVITU", 73686>>, <<"TAMIL SIGN AAZHAAKKU", 73687>>, <<"TAMIL SIGN UZHAKKU", 73688>>,
    <<"TAMIL SIGN MUUVUZHAKKU", 73689>>, <<"TAMIL SIGN KURUNI", 73690>>,
    <<"TAMIL SIGN PATHAKKU", 73691>>, <<"TAMIL SIGN MUKKURUNI", 73692>>, <<"TAMIL SIGN KAACU", 73693>>,
    <<"TAMIL SIGN PANAM", 73694>>, <<"TAMIL SIGN PON", 73695>>, <<"TAMIL SIGN VARAAKAN", 73696>>,
    <<"TAMIL SIGN PAARAM", 73697>>, <<"TAMIL SIGN KUZHI", 73698>>, <<"TAMIL SIGN VELI", 73699>>,
    <<"TAMIL WET CULTIVATION SIGN", 73700>>, <<"TAMIL DRY CULTIVATION SIGN", 73701>>,
    <<"TAMIL LAND SIGN", 73702>>, <<"TAMIL SALT PAN SIGN", 73703>>,
    <<"TAMIL TRADITIONAL CREDIT SIGN", 73704>>, <<"TAMIL TRADITIONAL NUMBER SIGN", 73705>>,
    <<"TAMIL CURRENT SIGN", 73706>>, <<"TAMIL AND ODD SIGN", 73707>>, <<"TAMIL SPENT SIGN", 73708>>,
    <<"TAMIL TOTAL SIGN", 73709>>, <<"TAMIL IN POSSESSION SIGN", 73710>>,
    <<"TAMIL STARTING FROM SIGN", 73711>>, <<"TAMIL SIGN MUTHALIYA", 73712>>,
    <<"TAMIL SIGN VAKAIYARAA", 73713>>, <<"TAMIL PUNCTUATION END OF TEXT", 73727>>,
    <<"CUNEIFORM SIGN A", 73728>>, <<"CUNEIFORM SIGN A TIMES A", 73729>>,
    <<"CUNEIFORM SIGN A TIMES BAD", 73730>>, <<"CUNEIFORM SIGN A TIMES GAN2 TENU", 73731>>,
    <<"CUNEIFORM SIGN A TIMES HA", 73732>>, <<"CUNEIFORM SIGN A TIMES IGI", 73733>>,
    <<"CUNEIFORM SIGN A TIMES LAGAR GUNU", 73734>>, <<"CUNEIFORM SIGN A TIMES MUSH", 73735>>,
    <<"CUNEIFORM SIGN A TIMES SAG", 73736>>, <<"CUNEIFORM SIGN A2", 73737>>,
    <<"CUNEIFORM SIGN AB", 73738>>, <<"CUNEIFORM SIGN AB TIMES ASH2", 73739>>,
    <<"CUNEIFORM SIGN AB TIMES DUN3 GUNU", 73740>>, <<"CUNEIFORM SIGN AB TIMES GAL", 73741>>,
    <<"CUNEIFORM SIGN AB TIMES GAN2 TENU", 73742>>, <<"CUNEIFORM SIGN AB TIMES HA", 73743>>,
    <<"CUNEIFORM SIGN AB TIMES IGI GUNU", 73744>>, <<"CUNEIFORM SIGN AB TIMES IMIN", 73745>>,
    <<"CUNEIFORM SIGN AB TIMES LAGAB", 73746>>, <<"CUNEIFORM SIGN AB TIMES SHESH", 73747>>,
    <<"CUNEIFORM SIGN AB TIMES U PLUS U PLUS U", 73748>>, <<"CUNEIFORM SIGN AB GUNU", 73749>>,
    <<"CUNEIFORM SIGN AB2", 73750>>, <<"CUNEIFORM SIGN AB2 TIMES BALAG", 73751>>,
    <<"CUNEIFORM SIGN AB2 TIMES GAN2 TENU", 73752>>, <<"CUNEIFORM SIGN AB2 TIMES ME PLUS EN", 73753>>,
    <<"CUNEIFORM SIGN AB2 TIMES SHA3", 73754>>, <<"CUNEIFORM SIGN AB2 TIMES TAK4", 73755>>,
    <<"CUNEIFORM SIGN AD", 73756>>, <<"CUNEIFORM SIGN AK", 73757>>,
    <<"CUNEIFORM SIGN AK TIMES ERIN2", 73758>>, <<"CUNEIFORM SIGN AK TIMES SHITA PLUS GISH", 73759>>,
    <<"CUNEIFORM SIGN AL", 73760>>, <<"CUNEIFORM SIGN AL TIMES AL", 73761>>,
    <<"CUNEIFORM SIGN AL TIMES DIM2", 73762>>, <<"CUNEIFORM SIGN AL TIMES GISH", 73763>>,
    <<"CUNEIFORM SIGN AL TIMES HA", 73764>>, <<"CUNEIFORM SIGN AL TIMES KAD3", 73765>>,
    <<"CUNEIFORM SIGN AL TIMES KI", 73766>>, <<"CUNEIFORM SIGN AL TIMES SHE", 73767>>,
    <<"CUNEIFORM SIGN AL TIMES USH", 73768>>, <<"CUNEIFORM SIGN ALAN", 73769>>,
    <<"CUNEIFORM SIGN ALEPH", 73770>>, <<"CUNEIFORM SIGN AMAR", 73771>>,
    <<"CUNEIFORM SIGN AMAR TIMES SHE", 73772>>, <<"CUNEIFORM SIGN AN", 73773>>,
    <<"CUNEIFORM SIGN AN OVER AN", 73774>>, <<"CUNEIFORM SIGN AN THREE TIMES", 73775>>,
    <<"CUNEIFORM SIGN AN PLUS NAGA OPPOSING AN PLUS NAGA", 73776>>,
    <<"CUNEIFORM SIGN AN PLUS NAGA SQUARED", 73777>>, <<"CUNEIFORM SIGN ANSHE", 73778>>,
    <<"CUNEIFORM SIGN APIN", 73779>>, <<"CUNEIFORM SIGN ARAD", 73780>>,
    <<"CUNEIFORM SIGN ARAD TIMES KUR", 73781>>, <<"CUNEIFORM SIGN ARKAB", 73782>>,
    <<"CUNEIFORM SIGN ASAL2", 73783>>, <<"CUNEIFORM SIGN ASH", 73784>>,
    <<"CUNEIFORM SIGN ASH ZIDA TENU", 73785>>, <<"CUNEIFORM SIGN ASH KABA TENU", 73786>>,
    <<"CUNEIFORM SIGN ASH OVER ASH TUG2 OVER TUG2 TUG2 OVER TUG2 PAP", 73787>>,
    <<"CUNEIFORM SIGN ASH OVER ASH OVER ASH", 73788>>,
    <<"CUNEIFORM SIGN ASH OVER ASH OVER ASH CROSSING ASH OVER ASH OVER ASH", 73789>>,
    <<"CUNEIFORM SIGN ASH2", 73790>>, <<"CUNEIFORM SIGN ASHGAB", 73791>>,
    <<"CUNEIFORM SIGN BA", 73792>>, <<"CUNEIFORM SIGN BAD", 73793>>, <<"CUNEIFORM SIGN BAG3", 73794>>,
    <<"CUNEIFORM SIGN BAHAR2", 73795>>, <<"CUNEIFORM SIGN BAL", 73796>>,
    <<"CUNEIFORM SIGN BAL OVER BAL", 73797>>, <<"CUNEIFORM SIGN BALAG", 73798>>,
    <<"CUNEIFORM SIGN BAR", 73799>>, <<"CUNEIFORM SIGN BARA2", 73800>>, <<"CUNEIFORM SIGN BI", 73801>>,
    <<"CUNEIFORM SIGN BI TIMES A", 73802>>, <<"CUNEIFORM SIGN BI TIMES GAR", 73803>>,
    <<"CUNEIFORM SIGN BI TIMES IGI GUNU", 73804>>, <<"CUNEIFORM SIGN BU", 73805>>,
    <<"CUNEIFORM SIGN BU OVER BU AB", 73806>>, <<"CUNEIFORM SIGN BU OVER BU UN", 73807>>,
    <<"CUNEIFORM SIGN BU CROSSING BU", 73808>>, <<"CUNEIFORM SIGN BULUG", 73809>>,
    <<"CUNEIFORM SIGN BULUG OVER BULUG", 73810>>, <<"CUNEIFORM SIGN BUR", 73811>>,
    <<"CUNEIFORM SIGN BUR2", 73812>>, <<"CUNEIFORM SIGN DA", 73813>>, <<"CUNEIFORM SIGN DAG", 73814>>,
    <<"CUNEIFORM SIGN DAG KISIM5 TIMES A PLUS MASH", 73815>>,
    <<"CUNEIFORM SIGN DAG KISIM5 TIMES AMAR", 73816>>,
    <<"CUNEIFORM SIGN DAG KISIM5 TIMES BALAG", 73817>>,
    <<"CUNEIFORM SIGN DAG KISIM5 TIMES BI", 73818>>, <<"CUNEIFORM SIGN DAG KISIM5 TIMES GA", 73819>>,
    <<"CUNEIFORM SIGN DAG KISIM5 TIMES GA PLUS MASH", 73820>>,
    <<"CUNEIFORM SIGN DAG KISIM5 TIMES GI", 73821>>, <<"CUNEIFORM SIGN DAG KISIM5 TIMES GIR2", 73822>>,
    <<"CUNEIFORM SIGN DAG KISIM5 TIMES GUD", 73823>>, <<"CUNEIFORM SIGN DAG KISIM5 TIMES HA", 73824>>,
    <<"CUNEIFORM SIGN DAG KISIM5 TIMES IR", 73825>>,
    <<"CUNEIFORM SIGN DAG KISIM5 TIMES IR PLUS LU", 73826>>,
    <<"CUNEIFORM SIGN DAG KISIM5 TIMES KAK", 73827>>, <<"CUNEIFORM SIGN DAG KISIM5 TIMES LA", 73828>>,
    <<"CUNEIFORM SIGN DAG KISIM5 TIMES LU", 73829>>,
    <<"CUNEIFORM SIGN DAG KISIM5 TIMES LU PLUS MASH2", 73830>>,
    <<"CUNEIFORM SIGN DAG KISIM5 TIMES LUM", 73831>>, <<"CUNEIFORM SIGN DAG KISIM5 TIMES NE", 73832>>,
    <<"CUNEIFORM SIGN DAG KISIM5 TIMES PAP PLUS PAP", 73833>>,
    <<"CUNEIFORM SIGN DAG KISIM5 TIMES SI", 73834>>, <<"CUNEIFORM SIGN DAG KISIM5 TIMES TAK4", 73835>>,
    <<"CUNEIFORM SIGN DAG KISIM5 TIMES U2 PLUS GIR2", 73836>>,
    <<"CUNEIFORM SIGN DAG KISIM5 TIMES USH", 73837>>, <<"CUNEIFORM SIGN DAM", 73838>>,
    <<"CUNEIFORM SIGN DAR", 73839>>, <<"CUNEIFORM SIGN DARA3", 73840>>,
    <<"CUNEIFORM SIGN DARA4", 73841>>, <<"CUNEIFORM SIGN DI", 73842>>, <<"CUNEIFORM SIGN DIB", 73843>>,
    <<"CUNEIFORM SIGN DIM", 73844>>, <<"CUNEIFORM SIGN DIM TIMES SHE", 73845>>,
    <<"CUNEIFORM SIGN DIM2", 73846>>, <<"CUNEIFORM SIGN DIN", 73847>>,
    <<"CUNEIFORM SIGN DIN KASKAL U GUNU DISH", 73848>>, <<"CUNEIFORM SIGN DISH", 73849>>,
    <<"CUNEIFORM SIGN DU", 73850>>, <<"CUNEIFORM SIGN DU OVER DU", 73851>>,
    <<"CUNEIFORM SIGN DU GUNU", 73852>>, <<"CUNEIFORM SIGN DU SHESHIG", 73853>>,
    <<"CUNEIFORM SIGN DUB", 73854>>, <<"CUNEIFORM SIGN DUB TIMES ESH2", 73855>>,
    <<"CUNEIFORM SIGN DUB2", 73856>>, <<"CUNEIFORM SIGN DUG", 73857>>,
    <<"CUNEIFORM SIGN DUGUD", 73858>>, <<"CUNEIFORM SIGN DUH", 73859>>,
    <<"CUNEIFORM SIGN DUN", 73860>>, <<"CUNEIFORM SIGN DUN3", 73861>>,
    <<"CUNEIFORM SIGN DUN3 GUNU", 73862>>, <<"CUNEIFORM SIGN DUN3 GUNU GUNU", 73863>>,
    <<"CUNEIFORM SIGN DUN4", 73864>>, <<"CUNEIFORM SIGN DUR2", 73865>>, <<"CUNEIFORM SIGN E", 73866>>,
    <<"CUNEIFORM SIGN E TIMES PAP", 73867>>, <<"CUNEIFORM SIGN E OVER E NUN OVER NUN", 73868>>,
    <<"CUNEIFORM SIGN E2", 73869>>, <<"CUNEIFORM SIGN E2 TIMES A PLUS HA PLUS DA", 73870>>,
    <<"CUNEIFORM SIGN E2 TIMES GAR", 73871>>, <<"CUNEIFORM SIGN E2 TIMES MI", 73872>>,
    <<"CUNEIFORM SIGN E2 TIMES SAL", 73873>>, <<"CUNEIFORM SIGN E2 TIMES SHE", 73874>>,
    <<"CUNEIFORM SIGN E2 TIMES U", 73875>>, <<"CUNEIFORM SIGN EDIN", 73876>>,
    <<"CUNEIFORM SIGN EGIR", 73877>>, <<"CUNEIFORM SIGN EL", 73878>>, <<"CUNEIFORM SIGN EN", 73879>>,
    <<"CUNEIFORM SIGN EN TIMES GAN2", 73880>>, <<"CUNEIFORM SIGN EN TIMES GAN2 TENU", 73881>>,
    <<"CUNEIFORM SIGN EN TIMES ME", 73882>>, <<"CUNEIFORM SIGN EN CROSSING EN", 73883>>,
    <<"CUNEIFORM SIGN EN OPPOSING EN", 73884>>, <<"CUNEIFORM SIGN EN SQUARED", 73885>>,
    <<"CUNEIFORM SIGN EREN", 73886>>, <<"CUNEIFORM SIGN ERIN2", 73887>>,
    <<"CUNEIFORM SIGN ESH2", 73888>>, <<"CUNEIFORM SIGN EZEN", 73889>>,
    <<"CUNEIFORM SIGN EZEN TIMES A", 73890>>, <<"CUNEIFORM SIGN EZEN TIMES A PLUS LAL", 73891>>,
    <<"CUNEIFORM SIGN EZEN TIMES A PLUS LAL TIMES LAL", 73892>>,
    <<"CUNEIFORM SIGN EZEN TIMES AN", 73893>>, <<"CUNEIFORM SIGN EZEN TIMES BAD", 73894>>,
    <<"CUNEIFORM SIGN EZEN TIMES DUN3 GUNU", 73895>>,
    <<"CUNEIFORM SIGN EZEN TIMES DUN3 GUNU GUNU", 73896>>, <<"CUNEIFORM SIGN EZEN TIMES HA", 73897>>,
    <<"CUNEIFORM SIGN EZEN TIMES HA GUNU", 73898>>, <<"CUNEIFORM SIGN EZEN TIMES IGI GUNU", 73899>>,
    <<"CUNEIFORM SIGN EZEN TIMES KASKAL", 73900>>,
    <<"CUNEIFORM SIGN EZEN TIMES KASKAL SQUARED", 73901>>, <<"CUNEIFORM SIGN EZEN TIMES KU3", 73902>>,
    <<"CUNEIFORM SIGN EZEN TIMES LA", 73903>>, <<"CUNEIFORM SIGN EZEN TIMES LAL TIMES LAL", 73904>>,
    <<"CUNEIFORM SIGN EZEN TIMES LI", 73905>>, <<"CUNEIFORM SIGN EZEN TIMES LU", 73906>>,
    <<"CUNEIFORM SIGN EZEN TIMES U2", 73907>>, <<"CUNEIFORM SIGN EZEN TIMES UD", 73908>>,
    <<"CUNEIFORM SIGN GA", 73909>>, <<"CUNEIFORM SIGN GA GUNU", 73910>>,
    <<"CUNEIFORM SIGN GA2", 73911>>, <<"CUNEIFORM SIGN GA2 TIMES A PLUS DA PLUS HA", 73912>>,
    <<"CUNEIFORM SIGN GA2 TIMES A PLUS HA", 73913>>, <<"CUNEIFORM SIGN GA2 TIMES A PLUS IGI", 73914>>,
    <<"CUNEIFORM SIGN GA2 TIMES AB2 TENU PLUS TAB", 73915>>, <<"CUNEIFORM SIGN GA2 TIMES AN", 73916>>,
    <<"CUNEIFORM SIGN GA2 TIMES ASH", 73917>>, <<"CUNEIFORM SIGN GA2 TIMES ASH2 PLUS GAL", 73918>>,
    <<"CUNEIFORM SIGN GA2 TIMES BAD", 73919>>, <<"CUNEIFORM SIGN GA2 TIMES BAR PLUS RA", 73920>>,
    <<"CUNEIFORM SIGN GA2 TIMES BUR", 73921>>, <<"CUNEIFORM SIGN GA2 TIMES BUR PLUS RA", 73922>>,
    <<"CUNEIFORM SIGN GA2 TIMES DA", 73923>>, <<"CUNEIFORM SIGN GA2 TIMES DI", 73924>>,
    <<"CUNEIFORM SIGN GA2 TIMES DIM TIMES SHE", 73925>>, <<"CUNEIFORM SIGN GA2 TIMES DUB", 73926>>,
    <<"CUNEIFORM SIGN GA2 TIMES EL", 73927>>, <<"CUNEIFORM SIGN GA2 TIMES EL PLUS LA", 73928>>,
    <<"CUNEIFORM SIGN GA2 TIMES EN", 73929>>, <<"CUNEIFORM SIGN GA2 TIMES EN TIMES GAN2 TENU", 73930>>,
    <<"CUNEIFORM SIGN GA2 TIMES GAN2 TENU", 73931>>, <<"CUNEIFORM SIGN GA2 TIMES GAR", 73932>>,
    <<"CUNEIFORM SIGN GA2 TIMES GI", 73933>>, <<"CUNEIFORM SIGN GA2 TIMES GI4", 73934>>,
    <<"CUNEIFORM SIGN GA2 TIMES GI4 PLUS A", 73935>>,
    <<"CUNEIFORM SIGN GA2 TIMES GIR2 PLUS SU", 73936>>,
    <<"CUNEIFORM SIGN GA2 TIMES HA PLUS LU PLUS ESH2", 73937>>,
    <<"CUNEIFORM SIGN GA2 TIMES HAL", 73938>>, <<"CUNEIFORM SIGN GA2 TIMES HAL PLUS LA", 73939>>,
    <<"CUNEIFORM SIGN GA2 TIMES HI PLUS LI", 73940>>, <<"CUNEIFORM SIGN GA2 TIMES HUB2", 73941>>,
    <<"CUNEIFORM SIGN GA2 TIMES IGI GUNU", 73942>>,
    <<"CUNEIFORM SIGN GA2 TIMES ISH PLUS HU PLUS ASH", 73943>>,
    <<"CUNEIFORM SIGN GA2 TIMES KAK", 73944>>, <<"CUNEIFORM SIGN GA2 TIMES KASKAL", 73945>>,
    <<"CUNEIFORM SIGN GA2 TIMES KID", 73946>>, <<"CUNEIFORM SIGN GA2 TIMES KID PLUS LAL", 73947>>,
    <<"CUNEIFORM SIGN GA2 TIMES KU3 PLUS AN", 73948>>, <<"CUNEIFORM SIGN GA2 TIMES LA", 73949>>,
    <<"CUNEIFORM SIGN GA2 TIMES ME PLUS EN", 73950>>, <<"CUNEIFORM SIGN GA2 TIMES MI", 73951>>,
    <<"CUNEIFORM SIGN GA2 TIMES NUN", 73952>>, <<"CUNEIFORM SIGN GA2 TIMES NUN OVER NUN", 73953>>,
    <<"CUNEIFORM SIGN GA2 TIMES PA", 73954>>, <<"CUNEIFORM SIGN GA2 TIMES SAL", 73955>>,
    <<"CUNEIFORM SIGN GA2 TIMES SAR", 73956>>, <<"CUNEIFORM SIGN GA2 TIMES SHE", 73957>>,
    <<"CUNEIFORM SIGN GA2 TIMES SHE PLUS TUR", 73958>>, <<"CUNEIFORM SIGN GA2 TIMES SHID", 73959>>,
    <<"CUNEIFORM SIGN GA2 TIMES SUM", 73960>>, <<"CUNEIFORM SIGN GA2 TIMES TAK4", 73961>>,
    <<"CUNEIFORM SIGN GA2 TIMES U", 73962>>, <<"CUNEIFORM SIGN GA2 TIMES UD", 73963>>,
    <<"CUNEIFORM SIGN GA2 TIMES UD PLUS DU", 73964>>, <<"CUNEIFORM SIGN GA2 OVER GA2", 73965>>,
    <<"CUNEIFORM SIGN GABA", 73966>>, <<"CUNEIFORM SIGN GABA CROSSING GABA", 73967>>,
    <<"CUNEIFORM SIGN GAD", 73968>>, <<"CUNEIFORM SIGN GAD OVER GAD GAR OVER GAR", 73969>>,
    <<"CUNEIFORM SIGN GAL", 73970>>, <<"CUNEIFORM SIGN GAL GAD OVER GAD GAR OVER GAR", 73971>>,
    <<"CUNEIFORM SIGN GALAM", 73972>>, <<"CUNEIFORM SIGN GAM", 73973>>,
    <<"CUNEIFORM SIGN GAN", 73974>>, <<"CUNEIFORM SIGN GAN2", 73975>>,
    <<"CUNEIFORM SIGN GAN2 TENU", 73976>>, <<"CUNEIFORM SIGN GAN2 OVER GAN2", 73977>>,
    <<"CUNEIFORM SIGN GAN2 CROSSING GAN2", 73978>>, <<"CUNEIFORM SIGN GAR", 73979>>,
    <<"CUNEIFORM SIGN GAR3", 73980>>, <<"CUNEIFORM SIGN GASHAN", 73981>>,
    <<"CUNEIFORM SIGN GESHTIN", 73982>>, <<"CUNEIFORM SIGN GESHTIN TIMES KUR", 73983>>,
    <<"CUNEIFORM SIGN GI", 73984>>, <<"CUNEIFORM SIGN GI TIMES E", 73985>>,
    <<"CUNEIFORM SIGN GI TIMES U", 73986>>, <<"CUNEIFORM SIGN GI CROSSING GI", 73987>>,
    <<"CUNEIFORM SIGN GI4", 73988>>, <<"CUNEIFORM SIGN GI4 OVER GI4", 73989>>,
    <<"CUNEIFORM SIGN GI4 CROSSING GI4", 73990>>, <<"CUNEIFORM SIGN GIDIM", 73991>>,
    <<"CUNEIFORM SIGN GIR2", 73992>>, <<"CUNEIFORM SIGN GIR2 GUNU", 73993>>,
    <<"CUNEIFORM SIGN GIR3", 73994>>, <<"CUNEIFORM SIGN GIR3 TIMES A PLUS IGI", 73995>>,
    <<"CUNEIFORM SIGN GIR3 TIMES GAN2 TENU", 73996>>, <<"CUNEIFORM SIGN GIR3 TIMES IGI", 73997>>,
    <<"CUNEIFORM SIGN GIR3 TIMES LU PLUS IGI", 73998>>, <<"CUNEIFORM SIGN GIR3 TIMES PA", 73999>>,
    <<"CUNEIFORM SIGN GISAL", 74000>>, <<"CUNEIFORM SIGN GISH", 74001>>,
    <<"CUNEIFORM SIGN GISH CROSSING GISH", 74002>>, <<"CUNEIFORM SIGN GISH TIMES BAD", 74003>>,
    <<"CUNEIFORM SIGN GISH TIMES TAK4", 74004>>, <<"CUNEIFORM SIGN GISH TENU", 74005>>,
    <<"CUNEIFORM SIGN GU", 74006>>, <<"CUNEIFORM SIGN GU CROSSING GU", 74007>>,
    <<"CUNEIFORM SIGN GU2", 74008>>, <<"CUNEIFORM SIGN GU2 TIMES KAK", 74009>>,
    <<"CUNEIFORM SIGN GU2 TIMES KAK TIMES IGI GUNU", 74010>>,
    <<"CUNEIFORM SIGN GU2 TIMES NUN", 74011>>, <<"CUNEIFORM SIGN GU2 TIMES SAL PLUS TUG2", 74012>>,
    <<"CUNEIFORM SIGN GU2 GUNU", 74013>>, <<"CUNEIFORM SIGN GUD", 74014>>,
    <<"CUNEIFORM SIGN GUD TIMES A PLUS KUR", 74015>>, <<"CUNEIFORM SIGN GUD TIMES KUR", 74016>>,
    <<"CUNEIFORM SIGN GUD OVER GUD LUGAL", 74017>>, <<"CUNEIFORM SIGN GUL", 74018>>,
    <<"CUNEIFORM SIGN GUM", 74019>>, <<"CUNEIFORM SIGN GUM TIMES SHE", 74020>>,
    <<"CUNEIFORM SIGN GUR", 74021>>, <<"CUNEIFORM SIGN GUR7", 74022>>,
    <<"CUNEIFORM SIGN GURUN", 74023>>, <<"CUNEIFORM SIGN GURUSH", 74024>>,
    <<"CUNEIFORM SIGN HA", 74025>>, <<"CUNEIFORM SIGN HA TENU", 74026>>,
    <<"CUNEIFORM SIGN HA GUNU", 74027>>, <<"CUNEIFORM SIGN HAL", 74028>>,
    <<"CUNEIFORM SIGN HI", 74029>>, <<"CUNEIFORM SIGN HI TIMES ASH", 74030>>,
    <<"CUNEIFORM SIGN HI TIMES ASH2", 74031>>, <<"CUNEIFORM SIGN HI TIMES BAD", 74032>>,
    <<"CUNEIFORM SIGN HI TIMES DISH", 74033>>, <<"CUNEIFORM SIGN HI TIMES GAD", 74034>>,
    <<"CUNEIFORM SIGN HI TIMES KIN", 74035>>, <<"CUNEIFORM SIGN HI TIMES NUN", 74036>>,
    <<"CUNEIFORM SIGN HI TIMES SHE", 74037>>, <<"CUNEIFORM SIGN HI TIMES U", 74038>>,
    <<"CUNEIFORM SIGN HU", 74039>>, <<"CUNEIFORM SIGN HUB2", 74040>>,
    <<"CUNEIFORM SIGN HUB2 TIMES AN", 74041>>, <<"CUNEIFORM SIGN HUB2 TIMES HAL", 74042>>,
    <<"CUNEIFORM SIGN HUB2 TIMES KASKAL", 74043>>, <<"CUNEIFORM SIGN HUB2 TIMES LISH", 74044>>,
    <<"CUNEIFORM SIGN HUB2 TIMES UD", 74045>>, <<"CUNEIFORM SIGN HUL2", 74046>>,
    <<"CUNEIFORM SIGN I", 74047>>, <<"CUNEIFORM SIGN I A", 74048>>, <<"CUNEIFORM SIGN IB", 74049>>,
    <<"CUNEIFORM SIGN IDIM", 74050>>, <<"CUNEIFORM SIGN IDIM OVER IDIM BUR", 74051>>,
    <<"CUNEIFORM SIGN IDIM OVER IDIM SQUARED", 74052>>, <<"CUNEIFORM SIGN IG", 74053>>,
    <<"CUNEIFORM SIGN IGI", 74054>>, <<"CUNEIFORM SIGN IGI DIB", 74055>>,
    <<"CUNEIFORM SIGN IGI RI", 74056>>,
    <<"CUNEIFORM SIGN IGI OVER IGI SHIR OVER SHIR UD OVER UD", 74057>>,
    <<"CUNEIFORM SIGN IGI GUNU", 74058>>, <<"CUNEIFORM SIGN IL", 74059>>,
    <<"CUNEIFORM SIGN IL TIMES GAN2 TENU", 74060>>, <<"CUNEIFORM SIGN IL2", 74061>>,
    <<"CUNEIFORM SIGN IM", 74062>>, <<"CUNEIFORM SIGN IM TIMES TAK4", 74063>>,
    <<"CUNEIFORM SIGN IM CROSSING IM", 74064>>, <<"CUNEIFORM SIGN IM OPPOSING IM", 74065>>,
    <<"CUNEIFORM SIGN IM SQUARED", 74066>>, <<"CUNEIFORM SIGN IMIN", 74067>>,
    <<"CUNEIFORM SIGN IN", 74068>>, <<"CUNEIFORM SIGN IR", 74069>>, <<"CUNEIFORM SIGN ISH", 74070>>,
    <<"CUNEIFORM SIGN KA", 74071>>, <<"CUNEIFORM SIGN KA TIMES A", 74072>>,
    <<"CUNEIFORM SIGN KA TIMES AD", 74073>>, <<"CUNEIFORM SIGN KA TIMES AD PLUS KU3", 74074>>,
    <<"CUNEIFORM SIGN KA TIMES ASH2", 74075>>, <<"CUNEIFORM SIGN KA TIMES BAD", 74076>>,
    <<"CUNEIFORM SIGN KA TIMES BALAG", 74077>>, <<"CUNEIFORM SIGN KA TIMES BAR", 74078>>,
    <<"CUNEIFORM SIGN KA TIMES BI", 74079>>, <<"CUNEIFORM SIGN KA TIMES ERIN2", 74080>>,
    <<"CUNEIFORM SIGN KA TIMES ESH2", 74081>>, <<"CUNEIFORM SIGN KA TIMES GA", 74082>>,
    <<"CUNEIFORM SIGN KA TIMES GAL", 74083>>, <<"CUNEIFORM SIGN KA TIMES GAN2 TENU", 74084>>,
    <<"CUNEIFORM SIGN KA TIMES GAR", 74085>>,
    <<"CUNEIFORM SIGN KA TIMES GAR PLUS SHA3 PLUS A", 74086>>, <<"CUNEIFORM SIGN KA TIMES GI", 74087>>,
    <<"CUNEIFORM SIGN KA TIMES GIR2", 74088>>, <<"CUNEIFORM SIGN KA TIMES GISH PLUS SAR", 74089>>,
    <<"CUNEIFORM SIGN KA TIMES GISH CROSSING GISH", 74090>>, <<"CUNEIFORM SIGN KA TIMES GU", 74091>>,
    <<"CUNEIFORM SIGN KA TIMES GUR7", 74092>>, <<"CUNEIFORM SIGN KA TIMES IGI", 74093>>,
    <<"CUNEIFORM SIGN KA TIMES IM", 74094>>, <<"CUNEIFORM SIGN KA TIMES KAK", 74095>>,
    <<"CUNEIFORM SIGN KA TIMES KI", 74096>>, <<"CUNEIFORM SIGN KA TIMES KID", 74097>>,
    <<"CUNEIFORM SIGN KA TIMES LI", 74098>>, <<"CUNEIFORM SIGN KA TIMES LU", 74099>>,
    <<"CUNEIFORM SIGN KA TIMES ME", 74100>>, <<"CUNEIFORM SIGN KA TIMES ME PLUS DU", 74101>>,
    <<"CUNEIFORM SIGN KA TIMES ME PLUS GI", 74102>>, <<"CUNEIFORM SIGN KA TIMES ME PLUS TE", 74103>>,
    <<"CUNEIFORM SIGN KA TIMES MI", 74104>>, <<"CUNEIFORM SIGN KA TIMES MI PLUS NUNUZ", 74105>>,
    <<"CUNEIFORM SIGN KA TIMES NE", 74106>>, <<"CUNEIFORM SIGN KA TIMES NUN", 74107>>,
    <<"CUNEIFORM SIGN KA TIMES PI", 74108>>, <<"CUNEIFORM SIGN KA TIMES RU", 74109>>,
    <<"CUNEIFORM SIGN KA TIMES SA", 74110>>, <<"CUNEIFORM SIGN KA TIMES SAR", 74111>>,
    <<"CUNEIFORM SIGN KA TIMES SHA", 74112>>, <<"CUNEIFORM SIGN KA TIMES SHE", 74113>>,
    <<"CUNEIFORM SIGN KA TIMES SHID", 74114>>, <<"CUNEIFORM SIGN KA TIMES SHU", 74115>>,
    <<"CUNEIFORM SIGN KA TIMES SIG", 74116>>, <<"CUNEIFORM SIGN KA TIMES SUHUR", 74117>>,
    <<"CUNEIFORM SIGN KA TIMES TAR", 74118>>, <<"CUNEIFORM SIGN KA TIMES U", 74119>>,
    <<"CUNEIFORM SIGN KA TIMES U2", 74120>>, <<"CUNEIFORM SIGN KA TIMES UD", 74121>>,
    <<"CUNEIFORM SIGN KA TIMES UMUM TIMES PA", 74122>>, <<"CUNEIFORM SIGN KA TIMES USH", 74123>>,
    <<"CUNEIFORM SIGN KA TIMES ZI", 74124>>, <<"CUNEIFORM SIGN KA2", 74125>>,
    <<"CUNEIFORM SIGN KA2 CROSSING KA2", 74126>>, <<"CUNEIFORM SIGN KAB", 74127>>,
    <<"CUNEIFORM SIGN KAD2", 74128>>, <<"CUNEIFORM SIGN KAD3", 74129>>,
    <<"CUNEIFORM SIGN KAD4", 74130>>, <<"CUNEIFORM SIGN KAD5", 74131>>,
    <<"CUNEIFORM SIGN KAD5 OVER KAD5", 74132>>, <<"CUNEIFORM SIGN KAK", 74133>>,
    <<"CUNEIFORM SIGN KAK TIMES IGI GUNU", 74134>>, <<"CUNEIFORM SIGN KAL", 74135>>,
    <<"CUNEIFORM SIGN KAL TIMES BAD", 74136>>, <<"CUNEIFORM SIGN KAL CROSSING KAL", 74137>>,
    <<"CUNEIFORM SIGN KAM2", 74138>>, <<"CUNEIFORM SIGN KAM4", 74139>>,
    <<"CUNEIFORM SIGN KASKAL", 74140>>,
    <<"CUNEIFORM SIGN KASKAL LAGAB TIMES U OVER LAGAB TIMES U", 74141>>,
    <<"CUNEIFORM SIGN KASKAL OVER KASKAL LAGAB TIMES U OVER LAGAB TIMES U", 74142>>,
    <<"CUNEIFORM SIGN KESH2", 74143>>, <<"CUNEIFORM SIGN KI", 74144>>,
    <<"CUNEIFORM SIGN KI TIMES BAD", 74145>>, <<"CUNEIFORM SIGN KI TIMES U", 74146>>,
    <<"CUNEIFORM SIGN KI TIMES UD", 74147>>, <<"CUNEIFORM SIGN KID", 74148>>,
    <<"CUNEIFORM SIGN KIN", 74149>>, <<"CUNEIFORM SIGN KISAL", 74150>>,
    <<"CUNEIFORM SIGN KISH", 74151>>, <<"CUNEIFORM SIGN KISIM5", 74152>>,
    <<"CUNEIFORM SIGN KISIM5 OVER KISIM5", 74153>>, <<"CUNEIFORM SIGN KU", 74154>>,
    <<"CUNEIFORM SIGN KU OVER HI TIMES ASH2 KU OVER HI TIMES ASH2", 74155>>,
    <<"CUNEIFORM SIGN KU3", 74156>>, <<"CUNEIFORM SIGN KU4", 74157>>,
    <<"CUNEIFORM SIGN KU4 VARIANT FORM", 74158>>, <<"CUNEIFORM SIGN KU7", 74159>>,
    <<"CUNEIFORM SIGN KUL", 74160>>, <<"CUNEIFORM SIGN KUL GUNU", 74161>>,
    <<"CUNEIFORM SIGN KUN", 74162>>, <<"CUNEIFORM SIGN KUR", 74163>>,
    <<"CUNEIFORM SIGN KUR OPPOSING KUR", 74164>>, <<"CUNEIFORM SIGN KUSHU2", 74165>>,
    <<"CUNEIFORM SIGN KWU318", 74166>>, <<"CUNEIFORM SIGN LA", 74167>>,
    <<"CUNEIFORM SIGN LAGAB", 74168>>, <<"CUNEIFORM SIGN LAGAB TIMES A", 74169>>,
    <<"CUNEIFORM SIGN LAGAB TIMES A PLUS DA PLUS HA", 74170>>,
    <<"CUNEIFORM SIGN LAGAB TIMES A PLUS GAR", 74171>>,
    <<"CUNEIFORM SIGN LAGAB TIMES A PLUS LAL", 74172>>, <<"CUNEIFORM SIGN LAGAB TIMES AL", 74173>>,
    <<"CUNEIFORM SIGN LAGAB TIMES AN", 74174>>, <<"CUNEIFORM SIGN LAGAB TIMES ASH ZIDA TENU", 74175>>,
    <<"CUNEIFORM SIGN LAGAB TIMES BAD", 74176>>, <<"CUNEIFORM SIGN LAGAB TIMES BI", 74177>>,
    <<"CUNEIFORM SIGN LAGAB TIMES DAR", 74178>>, <<"CUNEIFORM SIGN LAGAB TIMES EN", 74179>>,
    <<"CUNEIFORM SIGN LAGAB TIMES GA", 74180>>, <<"CUNEIFORM SIGN LAGAB TIMES GAR", 74181>>,
    <<"CUNEIFORM SIGN LAGAB TIMES GUD", 74182>>, <<"CUNEIFORM SIGN LAGAB TIMES GUD PLUS GUD", 74183>>,
    <<"CUNEIFORM SIGN LAGAB TIMES HA", 74184>>, <<"CUNEIFORM SIGN LAGAB TIMES HAL", 74185>>,
    <<"CUNEIFORM SIGN LAGAB TIMES HI TIMES NUN", 74186>>,
    <<"CUNEIFORM SIGN LAGAB TIMES IGI GUNU", 74187>>, <<"CUNEIFORM SIGN LAGAB TIMES IM", 74188>>,
    <<"CUNEIFORM SIGN LAGAB TIMES IM PLUS HA", 74189>>,
    <<"CUNEIFORM SIGN LAGAB TIMES IM PLUS LU", 74190>>, <<"CUNEIFORM SIGN LAGAB TIMES KI", 74191>>,
    <<"CUNEIFORM SIGN LAGAB TIMES KIN", 74192>>, <<"CUNEIFORM SIGN LAGAB TIMES KU3", 74193>>,
    <<"CUNEIFORM SIGN LAGAB TIMES KUL", 74194>>,
    <<"CUNEIFORM SIGN LAGAB TIMES KUL PLUS HI PLUS A", 74195>>,
    <<"CUNEIFORM SIGN LAGAB TIMES LAGAB", 74196>>, <<"CUNEIFORM SIGN LAGAB TIMES LISH", 74197>>,
    <<"CUNEIFORM SIGN LAGAB TIMES LU", 74198>>, <<"CUNEIFORM SIGN LAGAB TIMES LUL", 74199>>,
    <<"CUNEIFORM SIGN LAGAB TIMES ME", 74200>>, <<"CUNEIFORM SIGN LAGAB TIMES ME PLUS EN", 74201>>,
    <<"CUNEIFORM SIGN LAGAB TIMES MUSH", 74202>>, <<"CUNEIFORM SIGN LAGAB TIMES NE", 74203>>,
    <<"CUNEIFORM SIGN LAGAB TIMES SHE PLUS SUM", 74204>>,
    <<"CUNEIFORM SIGN LAGAB TIMES SHITA PLUS GISH PLUS ERIN2", 74205>>,
    <<"CUNEIFORM SIGN LAGAB TIMES SHITA PLUS GISH TENU", 74206>>,
    <<"CUNEIFORM SIGN LAGAB TIMES SHU2", 74207>>,
    <<"CUNEIFORM SIGN LAGAB TIMES SHU2 PLUS SHU2", 74208>>,
    <<"CUNEIFORM SIGN LAGAB TIMES SUM", 74209>>, <<"CUNEIFORM SIGN LAGAB TIMES TAG", 74210>>,
    <<"CUNEIFORM SIGN LAGAB TIMES TAK4", 74211>>,
    <<"CUNEIFORM SIGN LAGAB TIMES TE PLUS A PLUS SU PLUS NA", 74212>>,
    <<"CUNEIFORM SIGN LAGAB TIMES U", 74213>>, <<"CUNEIFORM SIGN LAGAB TIMES U PLUS A", 74214>>,
    <<"CUNEIFORM SIGN LAGAB TIMES U PLUS U PLUS U", 74215>>,
    <<"CUNEIFORM SIGN LAGAB TIMES U2 PLUS ASH", 74216>>, <<"CUNEIFORM SIGN LAGAB TIMES UD", 74217>>,
    <<"CUNEIFORM SIGN LAGAB TIMES USH", 74218>>, <<"CUNEIFORM SIGN LAGAB SQUARED", 74219>>,
    <<"CUNEIFORM SIGN LAGAR", 74220>>, <<"CUNEIFORM SIGN LAGAR TIMES SHE", 74221>>,
    <<"CUNEIFORM SIGN LAGAR TIMES SHE PLUS SUM", 74222>>, <<"CUNEIFORM SIGN LAGAR GUNU", 74223>>,
    <<"CUNEIFORM SIGN LAGAR GUNU OVER LAGAR GUNU SHE", 74224>>, <<"CUNEIFORM SIGN LAHSHU", 74225>>,
    <<"CUNEIFORM SIGN LAL", 74226>>, <<"CUNEIFORM SIGN LAL TIMES LAL", 74227>>,
    <<"CUNEIFORM SIGN LAM", 74228>>, <<"CUNEIFORM SIGN LAM TIMES KUR", 74229>>,
    <<"CUNEIFORM SIGN LAM TIMES KUR PLUS RU", 74230>>, <<"CUNEIFORM SIGN LI", 74231>>,
    <<"CUNEIFORM SIGN LIL", 74232>>, <<"CUNEIFORM SIGN LIMMU2", 74233>>,
    <<"CUNEIFORM SIGN LISH", 74234>>, <<"CUNEIFORM SIGN LU", 74235>>,
    <<"CUNEIFORM SIGN LU TIMES BAD", 74236>>, <<"CUNEIFORM SIGN LU2", 74237>>,
    <<"CUNEIFORM SIGN LU2 TIMES AL", 74238>>, <<"CUNEIFORM SIGN LU2 TIMES BAD", 74239>>,
    <<"CUNEIFORM SIGN LU2 TIMES ESH2", 74240>>, <<"CUNEIFORM SIGN LU2 TIMES ESH2 TENU", 74241>>,
    <<"CUNEIFORM SIGN LU2 TIMES GAN2 TENU", 74242>>,
    <<"CUNEIFORM SIGN LU2 TIMES HI TIMES BAD", 74243>>, <<"CUNEIFORM SIGN LU2 TIMES IM", 74244>>,
    <<"CUNEIFORM SIGN LU2 TIMES KAD2", 74245>>, <<"CUNEIFORM SIGN LU2 TIMES KAD3", 74246>>,
    <<"CUNEIFORM SIGN LU2 TIMES KAD3 PLUS ASH", 74247>>, <<"CUNEIFORM SIGN LU2 TIMES KI", 74248>>,
    <<"CUNEIFORM SIGN LU2 TIMES LA PLUS ASH", 74249>>, <<"CUNEIFORM SIGN LU2 TIMES LAGAB", 74250>>,
    <<"CUNEIFORM SIGN LU2 TIMES ME PLUS EN", 74251>>, <<"CUNEIFORM SIGN LU2 TIMES NE", 74252>>,
    <<"CUNEIFORM SIGN LU2 TIMES NU", 74253>>, <<"CUNEIFORM SIGN LU2 TIMES SI PLUS ASH", 74254>>,
    <<"CUNEIFORM SIGN LU2 TIMES SIK2 PLUS BU", 74255>>, <<"CUNEIFORM SIGN LU2 TIMES TUG2", 74256>>,
    <<"CUNEIFORM SIGN LU2 TENU", 74257>>, <<"CUNEIFORM SIGN LU2 CROSSING LU2", 74258>>,
    <<"CUNEIFORM SIGN LU2 OPPOSING LU2", 74259>>, <<"CUNEIFORM SIGN LU2 SQUARED", 74260>>,
    <<"CUNEIFORM SIGN LU2 SHESHIG", 74261>>, <<"CUNEIFORM SIGN LU3", 74262>>,
    <<"CUNEIFORM SIGN LUGAL", 74263>>, <<"CUNEIFORM SIGN LUGAL OVER LUGAL", 74264>>,
    <<"CUNEIFORM SIGN LUGAL OPPOSING LUGAL", 74265>>, <<"CUNEIFORM SIGN LUGAL SHESHIG", 74266>>,
    <<"CUNEIFORM SIGN LUH", 74267>>, <<"CUNEIFORM SIGN LUL", 74268>>, <<"CUNEIFORM SIGN LUM", 74269>>,
    <<"CUNEIFORM SIGN LUM OVER LUM", 74270>>, <<"CUNEIFORM SIGN LUM OVER LUM GAR OVER GAR", 74271>>,
    <<"CUNEIFORM SIGN MA", 74272>>, <<"CUNEIFORM SIGN MA TIMES TAK4", 74273>>,
    <<"CUNEIFORM SIGN MA GUNU", 74274>>, <<"CUNEIFORM SIGN MA2", 74275>>,
    <<"CUNEIFORM SIGN MAH", 74276>>, <<"CUNEIFORM SIGN MAR", 74277>>, <<"CUNEIFORM SIGN MASH", 74278>>,
    <<"CUNEIFORM SIGN MASH2", 74279>>, <<"CUNEIFORM SIGN ME", 74280>>, <<"CUNEIFORM SIGN MES", 74281>>,
    <<"CUNEIFORM SIGN MI", 74282>>, <<"CUNEIFORM SIGN MIN", 74283>>, <<"CUNEIFORM SIGN MU", 74284>>,
    <<"CUNEIFORM SIGN MU OVER MU", 74285>>, <<"CUNEIFORM SIGN MUG", 74286>>,
    <<"CUNEIFORM SIGN MUG GUNU", 74287>>, <<"CUNEIFORM SIGN MUNSUB", 74288>>,
    <<"CUNEIFORM SIGN MURGU2", 74289>>, <<"CUNEIFORM SIGN MUSH", 74290>>,
    <<"CUNEIFORM SIGN MUSH TIMES A", 74291>>, <<"CUNEIFORM SIGN MUSH TIMES KUR", 74292>>,
    <<"CUNEIFORM SIGN MUSH TIMES ZA", 74293>>, <<"CUNEIFORM SIGN MUSH OVER MUSH", 74294>>,
    <<"CUNEIFORM SIGN MUSH OVER MUSH TIMES A PLUS NA", 74295>>,
    <<"CUNEIFORM SIGN MUSH CROSSING MUSH", 74296>>, <<"CUNEIFORM SIGN MUSH3", 74297>>,
    <<"CUNEIFORM SIGN MUSH3 TIMES A", 74298>>, <<"CUNEIFORM SIGN MUSH3 TIMES A PLUS DI", 74299>>,
    <<"CUNEIFORM SIGN MUSH3 TIMES DI", 74300>>, <<"CUNEIFORM SIGN MUSH3 GUNU", 74301>>,
    <<"CUNEIFORM SIGN NA", 74302>>, <<"CUNEIFORM SIGN NA2", 74303>>, <<"CUNEIFORM SIGN NAGA", 74304>>,
    <<"CUNEIFORM SIGN NAGA INVERTED", 74305>>, <<"CUNEIFORM SIGN NAGA TIMES SHU TENU", 74306>>,
    <<"CUNEIFORM SIGN NAGA OPPOSING NAGA", 74307>>, <<"CUNEIFORM SIGN NAGAR", 74308>>,
    <<"CUNEIFORM SIGN NAM NUTILLU", 74309>>, <<"CUNEIFORM SIGN NAM", 74310>>,
    <<"CUNEIFORM SIGN NAM2", 74311>>, <<"CUNEIFORM SIGN NE", 74312>>,
    <<"CUNEIFORM SIGN NE TIMES A", 74313>>, <<"CUNEIFORM SIGN NE TIMES UD", 74314>>,
    <<"CUNEIFORM SIGN NE SHESHIG", 74315>>, <<"CUNEIFORM SIGN NI", 74316>>,
    <<"CUNEIFORM SIGN NI TIMES E", 74317>>, <<"CUNEIFORM SIGN NI2", 74318>>,
    <<"CUNEIFORM SIGN NIM", 74319>>, <<"CUNEIFORM SIGN NIM TIMES GAN2 TENU", 74320>>,
    <<"CUNEIFORM SIGN NIM TIMES GAR PLUS GAN2 TENU", 74321>>, <<"CUNEIFORM SIGN NINDA2", 74322>>,
    <<"CUNEIFORM SIGN NINDA2 TIMES AN", 74323>>, <<"CUNEIFORM SIGN NINDA2 TIMES ASH", 74324>>,
    <<"CUNEIFORM SIGN NINDA2 TIMES ASH PLUS ASH", 74325>>,
    <<"CUNEIFORM SIGN NINDA2 TIMES GUD", 74326>>,
    <<"CUNEIFORM SIGN NINDA2 TIMES ME PLUS GAN2 TENU", 74327>>,
    <<"CUNEIFORM SIGN NINDA2 TIMES NE", 74328>>, <<"CUNEIFORM SIGN NINDA2 TIMES NUN", 74329>>,
    <<"CUNEIFORM SIGN NINDA2 TIMES SHE", 74330>>,
    <<"CUNEIFORM SIGN NINDA2 TIMES SHE PLUS A AN", 74331>>,
    <<"CUNEIFORM SIGN NINDA2 TIMES SHE PLUS ASH", 74332>>,
    <<"CUNEIFORM SIGN NINDA2 TIMES SHE PLUS ASH PLUS ASH", 74333>>,
    <<"CUNEIFORM SIGN NINDA2 TIMES U2 PLUS ASH", 74334>>, <<"CUNEIFORM SIGN NINDA2 TIMES USH", 74335>>,
    <<"CUNEIFORM SIGN NISAG", 74336>>, <<"CUNEIFORM SIGN NU", 74337>>,
    <<"CUNEIFORM SIGN NU11", 74338>>, <<"CUNEIFORM SIGN NUN", 74339>>,
    <<"CUNEIFORM SIGN NUN LAGAR TIMES GAR", 74340>>, <<"CUNEIFORM SIGN NUN LAGAR TIMES MASH", 74341>>,
    <<"CUNEIFORM SIGN NUN LAGAR TIMES SAL", 74342>>,
    <<"CUNEIFORM SIGN NUN LAGAR TIMES SAL OVER NUN LAGAR TIMES SAL", 74343>>,
    <<"CUNEIFORM SIGN NUN LAGAR TIMES USH", 74344>>, <<"CUNEIFORM SIGN NUN TENU", 74345>>,
    <<"CUNEIFORM SIGN NUN OVER NUN", 74346>>, <<"CUNEIFORM SIGN NUN CROSSING NUN", 74347>>,
    <<"CUNEIFORM SIGN NUN CROSSING NUN LAGAR OVER LAGAR", 74348>>, <<"CUNEIFORM SIGN NUNUZ", 74349>>,
    <<"CUNEIFORM SIGN NUNUZ AB2 TIMES ASHGAB", 74350>>, <<"CUNEIFORM SIGN NUNUZ AB2 TIMES BI", 74351>>,
    <<"CUNEIFORM SIGN NUNUZ AB2 TIMES DUG", 74352>>, <<"CUNEIFORM SIGN NUNUZ AB2 TIMES GUD", 74353>>,
    <<"CUNEIFORM SIGN NUNUZ AB2 TIMES IGI GUNU", 74354>>,
    <<"CUNEIFORM SIGN NUNUZ AB2 TIMES KAD3", 74355>>, <<"CUNEIFORM SIGN NUNUZ AB2 TIMES LA", 74356>>,
    <<"CUNEIFORM SIGN NUNUZ AB2 TIMES NE", 74357>>, <<"CUNEIFORM SIGN NUNUZ AB2 TIMES SILA3", 74358>>,
    <<"CUNEIFORM SIGN NUNUZ AB2 TIMES U2", 74359>>, <<"CUNEIFORM SIGN NUNUZ KISIM5 TIMES BI", 74360>>,
    <<"CUNEIFORM SIGN NUNUZ KISIM5 TIMES BI U", 74361>>, <<"CUNEIFORM SIGN PA", 74362>>,
    <<"CUNEIFORM SIGN PAD", 74363>>, <<"CUNEIFORM SIGN PAN", 74364>>, <<"CUNEIFORM SIGN PAP", 74365>>,
    <<"CUNEIFORM SIGN PESH2", 74366>>, <<"CUNEIFORM SIGN PI", 74367>>,
    <<"CUNEIFORM SIGN PI TIMES A", 74368>>, <<"CUNEIFORM SIGN PI TIMES AB", 74369>>,
    <<"CUNEIFORM SIGN PI TIMES BI", 74370>>, <<"CUNEIFORM SIGN PI TIMES BU", 74371>>,
    <<"CUNEIFORM SIGN PI TIMES E", 74372>>, <<"CUNEIFORM SIGN PI TIMES I", 74373>>,
    <<"CUNEIFORM SIGN PI TIMES IB", 74374>>, <<"CUNEIFORM SIGN PI TIMES U", 74375>>,
    <<"CUNEIFORM SIGN PI TIMES U2", 74376>>, <<"CUNEIFORM SIGN PI CROSSING PI", 74377>>,
    <<"CUNEIFORM SIGN PIRIG", 74378>>, <<"CUNEIFORM SIGN PIRIG TIMES KAL", 74379>>,
    <<"CUNEIFORM SIGN PIRIG TIMES UD", 74380>>, <<"CUNEIFORM SIGN PIRIG TIMES ZA", 74381>>,
    <<"CUNEIFORM SIGN PIRIG OPPOSING PIRIG", 74382>>, <<"CUNEIFORM SIGN RA", 74383>>,
    <<"CUNEIFORM SIGN RAB", 74384>>, <<"CUNEIFORM SIGN RI", 74385>>, <<"CUNEIFORM SIGN RU", 74386>>,
    <<"CUNEIFORM SIGN SA", 74387>>, <<"CUNEIFORM SIGN SAG NUTILLU", 74388>>,
    <<"CUNEIFORM SIGN SAG", 74389>>, <<"CUNEIFORM SIGN SAG TIMES A", 74390>>,
    <<"CUNEIFORM SIGN SAG TIMES DU", 74391>>, <<"CUNEIFORM SIGN SAG TIMES DUB", 74392>>,
    <<"CUNEIFORM SIGN SAG TIMES HA", 74393>>, <<"CUNEIFORM SIGN SAG TIMES KAK", 74394>>,
    <<"CUNEIFORM SIGN SAG TIMES KUR", 74395>>, <<"CUNEIFORM SIGN SAG TIMES LUM", 74396>>,
    <<"CUNEIFORM SIGN SAG TIMES MI", 74397>>, <<"CUNEIFORM SIGN SAG TIMES NUN", 74398>>,
    <<"CUNEIFORM SIGN SAG TIMES SAL", 74399>>, <<"CUNEIFORM SIGN SAG TIMES SHID", 74400>>,
    <<"CUNEIFORM SIGN SAG TIMES TAB", 74401>>, <<"CUNEIFORM SIGN SAG TIMES U2", 74402>>,
    <<"CUNEIFORM SIGN SAG TIMES UB", 74403>>, <<"CUNEIFORM SIGN SAG TIMES UM", 74404>>,
    <<"CUNEIFORM SIGN SAG TIMES UR", 74405>>, <<"CUNEIFORM SIGN SAG TIMES USH", 74406>>,
    <<"CUNEIFORM SIGN SAG OVER SAG", 74407>>, <<"CUNEIFORM SIGN SAG GUNU", 74408>>,
    <<"CUNEIFORM SIGN SAL", 74409>>, <<"CUNEIFORM SIGN SAL LAGAB TIMES ASH2", 74410>>,
    <<"CUNEIFORM SIGN SANGA2", 74411>>, <<"CUNEIFORM SIGN SAR", 74412>>,
    <<"CUNEIFORM SIGN SHA", 74413>>, <<"CUNEIFORM SIGN SHA3", 74414>>,
    <<"CUNEIFORM SIGN SHA3 TIMES A", 74415>>, <<"CUNEIFORM SIGN SHA3 TIMES BAD", 74416>>,
    <<"CUNEIFORM SIGN SHA3 TIMES GISH", 74417>>, <<"CUNEIFORM SIGN SHA3 TIMES NE", 74418>>,
    <<"CUNEIFORM SIGN SHA3 TIMES SHU2", 74419>>, <<"CUNEIFORM SIGN SHA3 TIMES TUR", 74420>>,
    <<"CUNEIFORM SIGN SHA3 TIMES U", 74421>>, <<"CUNEIFORM SIGN SHA3 TIMES U PLUS A", 74422>>,
    <<"CUNEIFORM SIGN SHA6", 74423>>, <<"CUNEIFORM SIGN SHAB6", 74424>>,
    <<"CUNEIFORM SIGN SHAR2", 74425>>, <<"CUNEIFORM SIGN SHE", 74426>>,
    <<"CUNEIFORM SIGN SHE HU", 74427>>,
    <<"CUNEIFORM SIGN SHE OVER SHE GAD OVER GAD GAR OVER GAR", 74428>>,
    <<"CUNEIFORM SIGN SHE OVER SHE TAB OVER TAB GAR OVER GAR", 74429>>,
    <<"CUNEIFORM SIGN SHEG9", 74430>>, <<"CUNEIFORM SIGN SHEN", 74431>>,
    <<"CUNEIFORM SIGN SHESH", 74432>>, <<"CUNEIFORM SIGN SHESH2", 74433>>,
    <<"CUNEIFORM SIGN SHESHLAM", 74434>>, <<"CUNEIFORM SIGN SHID", 74435>>,
    <<"CUNEIFORM SIGN SHID TIMES A", 74436>>, <<"CUNEIFORM SIGN SHID TIMES IM", 74437>>,
    <<"CUNEIFORM SIGN SHIM", 74438>>, <<"CUNEIFORM SIGN SHIM TIMES A", 74439>>,
    <<"CUNEIFORM SIGN SHIM TIMES BAL", 74440>>, <<"CUNEIFORM SIGN SHIM TIMES BULUG", 74441>>,
    <<"CUNEIFORM SIGN SHIM TIMES DIN", 74442>>, <<"CUNEIFORM SIGN SHIM TIMES GAR", 74443>>,
    <<"CUNEIFORM SIGN SHIM TIMES IGI", 74444>>, <<"CUNEIFORM SIGN SHIM TIMES IGI GUNU", 74445>>,
    <<"CUNEIFORM SIGN SHIM TIMES KUSHU2", 74446>>, <<"CUNEIFORM SIGN SHIM TIMES LUL", 74447>>,
    <<"CUNEIFORM SIGN SHIM TIMES MUG", 74448>>, <<"CUNEIFORM SIGN SHIM TIMES SAL", 74449>>,
    <<"CUNEIFORM SIGN SHINIG", 74450>>, <<"CUNEIFORM SIGN SHIR", 74451>>,
    <<"CUNEIFORM SIGN NU11 TENU", 74452>>, <<"CUNEIFORM SIGN SHIR TENU", 74452>>,
    <<"CUNEIFORM SIGN NU11 OVER NU11 BUR OVER BUR", 74453>>,
    <<"CUNEIFORM SIGN SHIR OVER SHIR BUR OVER BUR", 74453>>, <<"CUNEIFORM SIGN SHITA", 74454>>,
    <<"CUNEIFORM SIGN SHU", 74455>>, <<"CUNEIFORM SIGN SHU OVER INVERTED SHU", 74456>>,
    <<"CUNEIFORM SIGN SHU2", 74457>>, <<"CUNEIFORM SIGN SHUBUR", 74458>>,
    <<"CUNEIFORM SIGN SI", 74459>>, <<"CUNEIFORM SIGN SI GUNU", 74460>>,
    <<"CUNEIFORM SIGN SIG", 74461>>, <<"CUNEIFORM SIGN SIG4", 74462>>,
    <<"CUNEIFORM SIGN SIG4 OVER SIG4 SHU2", 74463>>, <<"CUNEIFORM SIGN SIK2", 74464>>,
    <<"CUNEIFORM SIGN SILA3", 74465>>, <<"CUNEIFORM SIGN SU", 74466>>,
    <<"CUNEIFORM SIGN SU OVER SU", 74467>>, <<"CUNEIFORM SIGN SUD", 74468>>,
    <<"CUNEIFORM SIGN SUD2", 74469>>, <<"CUNEIFORM SIGN SUHUR", 74470>>,
    <<"CUNEIFORM SIGN SUM", 74471>>, <<"CUNEIFORM SIGN SUMASH", 74472>>,
    <<"CUNEIFORM SIGN SUR", 74473>>, <<"CUNEIFORM SIGN SUR9", 74474>>, <<"CUNEIFORM SIGN TA", 74475>>,
    <<"CUNEIFORM SIGN TA ASTERISK", 74476>>, <<"CUNEIFORM SIGN TA TIMES HI", 74477>>,
    <<"CUNEIFORM SIGN TA TIMES MI", 74478>>, <<"CUNEIFORM SIGN TA GUNU", 74479>>,
    <<"CUNEIFORM SIGN TAB", 74480>>,
    <<"CUNEIFORM SIGN TAB OVER TAB NI OVER NI DISH OVER DISH", 74481>>,
    <<"CUNEIFORM SIGN TAB SQUARED", 74482>>, <<"CUNEIFORM SIGN TAG", 74483>>,
    <<"CUNEIFORM SIGN TAG TIMES BI", 74484>>, <<"CUNEIFORM SIGN TAG TIMES GUD", 74485>>,
    <<"CUNEIFORM SIGN TAG TIMES SHE", 74486>>, <<"CUNEIFORM SIGN TAG TIMES SHU", 74487>>,
    <<"CUNEIFORM SIGN TAG TIMES TUG2", 74488>>, <<"CUNEIFORM SIGN TAG TIMES UD", 74489>>,
    <<"CUNEIFORM SIGN TAK4", 74490>>, <<"CUNEIFORM SIGN TAR", 74491>>, <<"CUNEIFORM SIGN TE", 74492>>,
    <<"CUNEIFORM SIGN TE GUNU", 74493>>, <<"CUNEIFORM SIGN TI", 74494>>,
    <<"CUNEIFORM SIGN TI TENU", 74495>>, <<"CUNEIFORM SIGN TIL", 74496>>,
    <<"CUNEIFORM SIGN TIR", 74497>>, <<"CUNEIFORM SIGN TIR TIMES TAK4", 74498>>,
    <<"CUNEIFORM SIGN TIR OVER TIR", 74499>>,
    <<"CUNEIFORM SIGN TIR OVER TIR GAD OVER GAD GAR OVER GAR", 74500>>, <<"CUNEIFORM SIGN TU", 74501>>,
    <<"CUNEIFORM SIGN TUG2", 74502>>, <<"CUNEIFORM SIGN TUK", 74503>>, <<"CUNEIFORM SIGN TUM", 74504>>,
    <<"CUNEIFORM SIGN TUR", 74505>>, <<"CUNEIFORM SIGN TUR OVER TUR ZA OVER ZA", 74506>>,
    <<"CUNEIFORM SIGN U", 74507>>, <<"CUNEIFORM SIGN U GUD", 74508>>,
    <<"CUNEIFORM SIGN U U U", 74509>>, <<"CUNEIFORM SIGN U OVER U PA OVER PA GAR OVER GAR", 74510>>,
    <<"CUNEIFORM SIGN U OVER U SUR OVER SUR", 74511>>,
    <<"CUNEIFORM SIGN U OVER U U REVERSED OVER U REVERSED", 74512>>, <<"CUNEIFORM SIGN U2", 74513>>,
    <<"CUNEIFORM SIGN UB", 74514>>, <<"CUNEIFORM SIGN UD", 74515>>,
    <<"CUNEIFORM SIGN UD KUSHU2", 74516>>, <<"CUNEIFORM SIGN UD TIMES BAD", 74517>>,
    <<"CUNEIFORM SIGN UD TIMES MI", 74518>>, <<"CUNEIFORM SIGN UD TIMES U PLUS U PLUS U", 74519>>,
    <<"CUNEIFORM SIGN UD TIMES U PLUS U PLUS U GUNU", 74520>>, <<"CUNEIFORM SIGN UD GUNU", 74521>>,
    <<"CUNEIFORM SIGN UD SHESHIG", 74522>>, <<"CUNEIFORM SIGN UD SHESHIG TIMES BAD", 74523>>,
    <<"CUNEIFORM SIGN UDUG", 74524>>, <<"CUNEIFORM SIGN UM", 74525>>,
    <<"CUNEIFORM SIGN UM TIMES LAGAB", 74526>>, <<"CUNEIFORM SIGN UM TIMES ME PLUS DA", 74527>>,
    <<"CUNEIFORM SIGN UM TIMES SHA3", 74528>>, <<"CUNEIFORM SIGN UM TIMES U", 74529>>,
    <<"CUNEIFORM SIGN UMBIN", 74530>>, <<"CUNEIFORM SIGN UMUM", 74531>>,
    <<"CUNEIFORM SIGN UMUM TIMES KASKAL", 74532>>, <<"CUNEIFORM SIGN UMUM TIMES PA", 74533>>,
    <<"CUNEIFORM SIGN UN", 74534>>, <<"CUNEIFORM SIGN UN GUNU", 74535>>,
    <<"CUNEIFORM SIGN UR", 74536>>, <<"CUNEIFORM SIGN UR CROSSING UR", 74537>>,
    <<"CUNEIFORM SIGN UR SHESHIG", 74538>>, <<"CUNEIFORM SIGN UR2", 74539>>,
    <<"CUNEIFORM SIGN UR2 TIMES A PLUS HA", 74540>>, <<"CUNEIFORM SIGN UR2 TIMES A PLUS NA", 74541>>,
    <<"CUNEIFORM SIGN UR2 TIMES AL", 74542>>, <<"CUNEIFORM SIGN UR2 TIMES HA", 74543>>,
    <<"CUNEIFORM SIGN UR2 TIMES NUN", 74544>>, <<"CUNEIFORM SIGN UR2 TIMES U2", 74545>>,
    <<"CUNEIFORM SIGN UR2 TIMES U2 PLUS ASH", 74546>>,
    <<"CUNEIFORM SIGN UR2 TIMES U2 PLUS BI", 74547>>, <<"CUNEIFORM SIGN UR4", 74548>>,
    <<"CUNEIFORM SIGN URI", 74549>>, <<"CUNEIFORM SIGN URI3", 74550>>, <<"CUNEIFORM SIGN URU", 74551>>,
    <<"CUNEIFORM SIGN URU TIMES A", 74552>>, <<"CUNEIFORM SIGN URU TIMES ASHGAB", 74553>>,
    <<"CUNEIFORM SIGN URU TIMES BAR", 74554>>, <<"CUNEIFORM SIGN URU TIMES DUN", 74555>>,
    <<"CUNEIFORM SIGN URU TIMES GA", 74556>>, <<"CUNEIFORM SIGN URU TIMES GAL", 74557>>,
    <<"CUNEIFORM SIGN URU TIMES GAN2 TENU", 74558>>, <<"CUNEIFORM SIGN URU TIMES GAR", 74559>>,
    <<"CUNEIFORM SIGN URU TIMES GU", 74560>>, <<"CUNEIFORM SIGN URU TIMES HA", 74561>>,
    <<"CUNEIFORM SIGN URU TIMES IGI", 74562>>, <<"CUNEIFORM SIGN URU TIMES IM", 74563>>,
    <<"CUNEIFORM SIGN URU TIMES ISH", 74564>>, <<"CUNEIFORM SIGN URU TIMES KI", 74565>>,
    <<"CUNEIFORM SIGN URU TIMES LUM", 74566>>, <<"CUNEIFORM SIGN URU TIMES MIN", 74567>>,
    <<"CUNEIFORM SIGN URU TIMES PA", 74568>>, <<"CUNEIFORM SIGN URU TIMES SHE", 74569>>,
    <<"CUNEIFORM SIGN URU TIMES SIG4", 74570>>, <<"CUNEIFORM SIGN URU TIMES TU", 74571>>,
    <<"CUNEIFORM SIGN URU TIMES U PLUS GUD", 74572>>, <<"CUNEIFORM SIGN URU TIMES UD", 74573>>,
    <<"CUNEIFORM SIGN URU TIMES URUDA", 74574>>, <<"CUNEIFORM SIGN URUDA", 74575>>,
    <<"CUNEIFORM SIGN URUDA TIMES U", 74576>>, <<"CUNEIFORM SIGN USH", 74577>>,
    <<"CUNEIFORM SIGN USH TIMES A", 74578>>, <<"CUNEIFORM SIGN USH TIMES KU", 74579>>,
    <<"CUNEIFORM SIGN USH TIMES KUR", 74580>>, <<"CUNEIFORM SIGN USH TIMES TAK4", 74581>>,
    <<"CUNEIFORM SIGN USHX", 74582>>, <<"CUNEIFORM SIGN USH2", 74583>>,
    <<"CUNEIFORM SIGN USHUMX", 74584>>, <<"CUNEIFORM SIGN UTUKI", 74585>>,
    <<"CUNEIFORM SIGN UZ3", 74586>>, <<"CUNEIFORM SIGN UZ3 TIMES KASKAL", 74587>>,
    <<"CUNEIFORM SIGN UZU", 74588>>, <<"CUNEIFORM SIGN ZA", 74589>>,
    <<"CUNEIFORM SIGN ZA TENU", 74590>>, <<"CUNEIFORM SIGN ZA SQUARED TIMES KUR", 74591>>,
    <<"CUNEIFORM SIGN ZAG", 74592>>, <<"CUNEIFORM SIGN ZAMX", 74593>>, <<"CUNEIFORM SIGN ZE2", 74594>>,
    <<"CUNEIFORM SIGN ZI", 74595>>, <<"CUNEIFORM SIGN ZI OVER ZI", 74596>>,
    <<"CUNEIFORM SIGN ZI3", 74597>>, <<"CUNEIFORM SIGN ZIB", 74598>>,
    <<"CUNEIFORM SIGN ZIB KABA TENU", 74599>>, <<"CUNEIFORM SIGN ZIG", 74600>>,
    <<"CUNEIFORM SIGN ZIZ2", 74601>>, <<"CUNEIFORM SIGN ZU", 74602>>, <<"CUNEIFORM SIGN ZU5", 74603>>,
    <<"CUNEIFORM SIGN ZU5 TIMES A", 74604>>, <<"CUNEIFORM SIGN ZUBUR", 74605>>,
    <<"CUNEIFORM SIGN ZUM", 74606>>, <<"CUNEIFORM SIGN KAP ELAMITE", 74607>>,
    <<"CUNEIFORM SIGN AB TIMES NUN", 74608>>, <<"CUNEIFORM SIGN AB2 TIMES A", 74609>>,
    <<"CUNEIFORM SIGN AMAR TIMES KUG", 74610>>,
    <<"CUNEIFORM SIGN DAG KISIM5 TIMES U2 PLUS MASH", 74611>>, <<"CUNEIFORM SIGN DAG3", 74612>>,
    <<"CUNEIFORM SIGN DISH PLUS SHU", 74613>>, <<"CUNEIFORM SIGN DUB TIMES SHE", 74614>>,
    <<"CUNEIFORM SIGN EZEN TIMES GUD", 74615>>, <<"CUNEIFORM SIGN EZEN TIMES SHE", 74616>>,
    <<"CUNEIFORM SIGN GA2 TIMES AN PLUS KAK PLUS A", 74617>>,
    <<"CUNEIFORM SIGN GA2 TIMES ASH2", 74618>>, <<"CUNEIFORM SIGN GE22", 74619>>,
    <<"CUNEIFORM SIGN GIG", 74620>>, <<"CUNEIFORM SIGN HUSH", 74621>>,
    <<"CUNEIFORM SIGN KA TIMES ANSHE", 74622>>, <<"CUNEIFORM SIGN KA TIMES ASH3", 74623>>,
    <<"CUNEIFORM SIGN KA TIMES GISH", 74624>>, <<"CUNEIFORM SIGN KA TIMES GUD", 74625>>,
    <<"CUNEIFORM SIGN KA TIMES HI TIMES ASH2", 74626>>, <<"CUNEIFORM SIGN KA TIMES LUM", 74627>>,
    <<"CUNEIFORM SIGN KA TIMES PA", 74628>>, <<"CUNEIFORM SIGN KA TIMES SHUL", 74629>>,
    <<"CUNEIFORM SIGN KA TIMES TU", 74630>>, <<"CUNEIFORM SIGN KA TIMES UR2", 74631>>,
    <<"CUNEIFORM SIGN LAGAB TIMES GI", 74632>>, <<"CUNEIFORM SIGN LU2 SHESHIG TIMES BAD", 74633>>,
    <<"CUNEIFORM SIGN LU2 TIMES ESH2 PLUS LAL", 74634>>, <<"CUNEIFORM SIGN LU2 TIMES SHU", 74635>>,
    <<"CUNEIFORM SIGN MESH", 74636>>, <<"CUNEIFORM SIGN MUSH3 TIMES ZA", 74637>>,
    <<"CUNEIFORM SIGN NA4", 74638>>, <<"CUNEIFORM SIGN NIN", 74639>>, <<"CUNEIFORM SIGN NIN9", 74640>>,
    <<"CUNEIFORM SIGN NINDA2 TIMES BAL", 74641>>, <<"CUNEIFORM SIGN NINDA2 TIMES GI", 74642>>,
    <<"CUNEIFORM SIGN NU11 ROTATED NINETY DEGREES", 74643>>,
    <<"CUNEIFORM SIGN PESH2 ASTERISK", 74644>>, <<"CUNEIFORM SIGN PIR2", 74645>>,
    <<"CUNEIFORM SIGN SAG TIMES IGI GUNU", 74646>>, <<"CUNEIFORM SIGN TI2", 74647>>,
    <<"CUNEIFORM SIGN UM TIMES ME", 74648>>, <<"CUNEIFORM SIGN U U", 74649>>,
    <<"CUNEIFORM NUMERIC SIGN TWO ASH", 74752>>, <<"CUNEIFORM NUMERIC SIGN THREE ASH", 74753>>,
    <<"CUNEIFORM NUMERIC SIGN FOUR ASH", 74754>>, <<"CUNEIFORM NUMERIC SIGN FIVE ASH", 74755>>,
    <<"CUNEIFORM NUMERIC SIGN SIX ASH", 74756>>, <<"CUNEIFORM NUMERIC SIGN SEVEN ASH", 74757>>,
    <<"CUNEIFORM NUMERIC SIGN EIGHT ASH", 74758>>, <<"CUNEIFORM NUMERIC SIGN NINE ASH", 74759>>,
    <<"CUNEIFORM NUMERIC SIGN THREE DISH", 74760>>, <<"CUNEIFORM NUMERIC SIGN FOUR DISH", 74761>>,
    <<"CUNEIFORM NUMERIC SIGN FIVE DISH", 74762>>, <<"CUNEIFORM NUMERIC SIGN SIX DISH", 74763>>,
    <<"CUNEIFORM NUMERIC SIGN SEVEN DISH", 74764>>, <<"CUNEIFORM NUMERIC SIGN EIGHT DISH", 74765>>,
    <<"CUNEIFORM NUMERIC SIGN NINE DISH", 74766>>, <<"CUNEIFORM NUMERIC SIGN FOUR U", 74767>>,
    <<"CUNEIFORM NUMERIC SIGN FIVE U", 74768>>, <<"CUNEIFORM NUMERIC SIGN SIX U", 74769>>,
    <<"CUNEIFORM NUMERIC SIGN SEVEN U", 74770>>, <<"CUNEIFORM NUMERIC SIGN EIGHT U", 74771>>,
    <<"CUNEIFORM NUMERIC SIGN NINE U", 74772>>, <<"CUNEIFORM NUMERIC SIGN ONE GESH2", 74773>>,
    <<"CUNEIFORM NUMERIC SIGN TWO GESH2", 74774>>, <<"CUNEIFORM NUMERIC SIGN THREE GESH2", 74775>>,
    <<"CUNEIFORM NUMERIC SIGN FOUR GESH2", 74776>>, <<"CUNEIFORM NUMERIC SIGN FIVE GESH2", 74777>>,
    <<"CUNEIFORM NUMERIC SIGN SIX GESH2", 74778>>, <<"CUNEIFORM NUMERIC SIGN SEVEN GESH2", 74779>>,
    <<"CUNEIFORM NUMERIC SIGN EIGHT GESH2", 74780>>, <<"CUNEIFORM NUMERIC SIGN NINE GESH2", 74781>>,
    <<"CUNEIFORM NUMERIC SIGN ONE GESHU", 74782>>, <<"CUNEIFORM NUMERIC SIGN TWO GESHU", 74783>>,
    <<"CUNEIFORM NUMERIC SIGN THREE GESHU", 74784>>, <<"CUNEIFORM NUMERIC SIGN FOUR GESHU", 74785>>,
    <<"CUNEIFORM NUMERIC SIGN FIVE GESHU", 74786>>, <<"CUNEIFORM NUMERIC SIGN TWO SHAR2", 74787>>,
    <<"CUNEIFORM NUMERIC SIGN THREE SHAR2", 74788>>,
    <<"CUNEIFORM NUMERIC SIGN THREE SHAR2 VARIANT FORM", 74789>>,
    <<"CUNEIFORM NUMERIC SIGN FOUR SHAR2", 74790>>, <<"CUNEIFORM NUMERIC SIGN FIVE SHAR2", 74791>>,
    <<"CUNEIFORM NUMERIC SIGN SIX SHAR2", 74792>>, <<"CUNEIFORM NUMERIC SIGN SEVEN SHAR2", 74793>>,
    <<"CUNEIFORM NUMERIC SIGN EIGHT SHAR2", 74794>>, <<"CUNEIFORM NUMERIC SIGN NINE SHAR2", 74795>>,
    <<"CUNEIFORM NUMERIC SIGN ONE SHARU", 74796>>, <<"CUNEIFORM NUMERIC SIGN TWO SHARU", 74797>>,
    <<"CUNEIFORM NUMERIC SIGN THREE SHARU", 74798>>,
    <<"CUNEIFORM NUMERIC SIGN THREE SHARU VARIANT FORM", 74799>>,
    <<"CUNEIFORM NUMERIC SIGN FOUR SHARU", 74800>>, <<"CUNEIFORM NUMERIC SIGN FIVE SHARU", 74801>>,
    <<"CUNEIFORM NUMERIC SIGN SHAR2 TIMES GAL PLUS DISH", 74802>>,
    <<"CUNEIFORM NUMERIC SIGN SHAR2 TIMES GAL PLUS MIN", 74803>>,
    <<"CUNEIFORM NUMERIC SIGN ONE BURU", 74804>>, <<"CUNEIFORM NUMERIC SIGN TWO BURU", 74805>>,
    <<"CUNEIFORM NUMERIC SIGN THREE BURU", 74806>>,
    <<"CUNEIFORM NUMERIC SIGN THREE BURU VARIANT FORM", 74807>>,
    <<"CUNEIFORM NUMERIC SIGN FOUR BURU", 74808>>, <<"CUNEIFORM NUMERIC SIGN FIVE BURU", 74809>>,
    <<"CUNEIFORM NUMERIC SIGN THREE VARIANT FORM ESH16", 74810>>,
    <<"CUNEIFORM NUMERIC SIGN THREE VARIANT FORM ESH21", 74811>>,
    <<"CUNEIFORM NUMERIC SIGN FOUR VARIANT FORM LIMMU", 74812>>,
    <<"CUNEIFORM NUMERIC SIGN FOUR VARIANT FORM LIMMU4", 74813>>,
    <<"CUNEIFORM NUMERIC SIGN FOUR VARIANT FORM LIMMU A", 74814>>,
    <<"CUNEIFORM NUMERIC SIGN FOUR VARIANT FORM LIMMU B", 74815>>,
    <<"CUNEIFORM NUMERIC SIGN SIX VARIANT FORM ASH9", 74816>>,
    <<"CUNEIFORM NUMERIC SIGN SEVEN VARIANT FORM IMIN3", 74817>>,
    <<"CUNEIFORM NUMERIC SIGN SEVEN VARIANT FORM IMIN A", 74818>>,
    <<"CUNEIFORM NUMERIC SIGN SEVEN VARIANT FORM IMIN B", 74819>>,
    <<"CUNEIFORM NUMERIC SIGN EIGHT VARIANT FORM USSU", 74820>>,
    <<"CUNEIFORM NUMERIC SIGN EIGHT VARIANT FORM USSU3", 74821>>,
    <<"CUNEIFORM NUMERIC SIGN NINE VARIANT FORM ILIMMU", 74822>>,
    <<"CUNEIFORM NUMERIC SIGN NINE VARIANT FORM ILIMMU3", 74823>>,
    <<"CUNEIFORM NUMERIC SIGN NINE VARIANT FORM ILIMMU4", 74824>>,
    <<"CUNEIFORM NUMERIC SIGN NINE VARIANT FORM ILIMMU A", 74825>>,
    <<"CUNEIFORM NUMERIC SIGN TWO ASH TENU", 74826>>,
    <<"CUNEIFORM NUMERIC SIGN THREE ASH TENU", 74827>>,
    <<"CUNEIFORM NUMERIC SIGN FOUR ASH TENU", 74828>>,
    <<"CUNEIFORM NUMERIC SIGN FIVE ASH TENU", 74829>>,
    <<"CUNEIFORM NUMERIC SIGN SIX ASH TENU", 74830>>, <<"CUNEIFORM NUMERIC SIGN ONE BAN2", 74831>>,
    <<"CUNEIFORM NUMERIC SIGN TWO BAN2", 74832>>, <<"CUNEIFORM NUMERIC SIGN THREE BAN2", 74833>>,
    <<"CUNEIFORM NUMERIC SIGN FOUR BAN2", 74834>>,
    <<"CUNEIFORM NUMERIC SIGN FOUR BAN2 VARIANT FORM", 74835>>,
    <<"CUNEIFORM NUMERIC SIGN FIVE BAN2", 74836>>,
    <<"CUNEIFORM NUMERIC SIGN FIVE BAN2 VARIANT FORM", 74837>>,
    <<"CUNEIFORM NUMERIC SIGN NIGIDAMIN", 74838>>, <<"CUNEIFORM NUMERIC SIGN NIGIDAESH", 74839>>,
    <<"CUNEIFORM NUMERIC SIGN ONE ESHE3", 74840>>, <<"CUNEIFORM NUMERIC SIGN TWO ESHE3", 74841>>,
    <<"CUNEIFORM NUMERIC SIGN ONE THIRD DISH", 74842>>,
    <<"CUNEIFORM NUMERIC SIGN TWO THIRDS DISH", 74843>>,
    <<"CUNEIFORM NUMERIC SIGN FIVE SIXTHS DISH", 74844>>,
    <<"CUNEIFORM NUMERIC SIGN ONE THIRD VARIANT FORM A", 74845>>,
    <<"CUNEIFORM NUMERIC SIGN TWO THIRDS VARIANT FORM A", 74846>>,
    <<"CUNEIFORM NUMERIC SIGN ONE EIGHTH ASH", 74847>>,
    <<"CUNEIFORM NUMERIC SIGN ONE QUARTER ASH", 74848>>,
    <<"CUNEIFORM NUMERIC SIGN OLD ASSYRIAN ONE SIXTH", 74849>>,
    <<"CUNEIFORM NUMERIC SIGN OLD ASSYRIAN ONE QUARTER", 74850>>,
    <<"CUNEIFORM NUMERIC SIGN ONE QUARTER GUR", 74851>>,
    <<"CUNEIFORM NUMERIC SIGN ONE HALF GUR", 74852>>,
    <<"CUNEIFORM NUMERIC SIGN ELAMITE ONE THIRD", 74853>>,
    <<"CUNEIFORM NUMERIC SIGN ELAMITE TWO THIRDS", 74854>>,
    <<"CUNEIFORM NUMERIC SIGN ELAMITE FORTY", 74855>>,
    <<"CUNEIFORM NUMERIC SIGN ELAMITE FIFTY", 74856>>,
    <<"CUNEIFORM NUMERIC SIGN FOUR U VARIANT FORM", 74857>>,
    <<"CUNEIFORM NUMERIC SIGN FIVE U VARIANT FORM", 74858>>,
    <<"CUNEIFORM NUMERIC SIGN SIX U VARIANT FORM", 74859>>,
    <<"CUNEIFORM NUMERIC SIGN SEVEN U VARIANT FORM", 74860>>,
    <<"CUNEIFORM NUMERIC SIGN EIGHT U VARIANT FORM", 74861>>,
    <<"CUNEIFORM NUMERIC SIGN NINE U VARIANT FORM", 74862>>,
    <<"CUNEIFORM PUNCTUATION SIGN OLD ASSYRIAN WORD DIVIDER", 74864>>,
    <<"CUNEIFORM PUNCTUATION SIGN VERTICAL COLON", 74865>>,
    <<"CUNEIFORM PUNCTUATION SIGN DIAGONAL COLON", 74866>>,
    <<"CUNEIFORM PUNCTUATION SIGN DIAGONAL TRICOLON", 74867>>,
    <<"CUNEIFORM PUNCTUATION SIGN DIAGONAL QUADCOLON", 74868>>,
    <<"CUNEIFORM SIGN AB TIMES NUN TENU", 74880>>, <<"CUNEIFORM SIGN AB TIMES SHU2", 74881>>,
    <<"CUNEIFORM SIGN AD TIMES ESH2", 74882>>, <<"CUNEIFORM SIGN BAD TIMES DISH TENU", 74883>>,
    <<"CUNEIFORM SIGN BAHAR2 TIMES AB2", 74884>>, <<"CUNEIFORM SIGN BAHAR2 TIMES NI", 74885>>,
    <<"CUNEIFORM SIGN BAHAR2 TIMES ZA", 74886>>, <<"CUNEIFORM SIGN BU OVER BU TIMES NA2", 74887>>,
    <<"CUNEIFORM SIGN DA TIMES TAK4", 74888>>, <<"CUNEIFORM SIGN DAG TIMES KUR", 74889>>,
    <<"CUNEIFORM SIGN DIM TIMES IGI", 74890>>, <<"CUNEIFORM SIGN DIM TIMES U U U", 74891>>,
    <<"CUNEIFORM SIGN DIM2 TIMES UD", 74892>>, <<"CUNEIFORM SIGN DUG TIMES ANSHE", 74893>>,
    <<"CUNEIFORM SIGN DUG TIMES ASH", 74894>>, <<"CUNEIFORM SIGN DUG TIMES ASH AT LEFT", 74895>>,
    <<"CUNEIFORM SIGN DUG TIMES DIN", 74896>>, <<"CUNEIFORM SIGN DUG TIMES DUN", 74897>>,
    <<"CUNEIFORM SIGN DUG TIMES ERIN2", 74898>>, <<"CUNEIFORM SIGN DUG TIMES GA", 74899>>,
    <<"CUNEIFORM SIGN DUG TIMES GI", 74900>>, <<"CUNEIFORM SIGN DUG TIMES GIR2 GUNU", 74901>>,
    <<"CUNEIFORM SIGN DUG TIMES GISH", 74902>>, <<"CUNEIFORM SIGN DUG TIMES HA", 74903>>,
    <<"CUNEIFORM SIGN DUG TIMES HI", 74904>>, <<"CUNEIFORM SIGN DUG TIMES IGI GUNU", 74905>>,
    <<"CUNEIFORM SIGN DUG TIMES KASKAL", 74906>>, <<"CUNEIFORM SIGN DUG TIMES KUR", 74907>>,
    <<"CUNEIFORM SIGN DUG TIMES KUSHU2", 74908>>,
    <<"CUNEIFORM SIGN DUG TIMES KUSHU2 PLUS KASKAL", 74909>>,
    <<"CUNEIFORM SIGN DUG TIMES LAK-020", 74910>>, <<"CUNEIFORM SIGN DUG TIMES LAM", 74911>>,
    <<"CUNEIFORM SIGN DUG TIMES LAM TIMES KUR", 74912>>,
    <<"CUNEIFORM SIGN DUG TIMES LUH PLUS GISH", 74913>>, <<"CUNEIFORM SIGN DUG TIMES MASH", 74914>>,
    <<"CUNEIFORM SIGN DUG TIMES MES", 74915>>, <<"CUNEIFORM SIGN DUG TIMES MI", 74916>>,
    <<"CUNEIFORM SIGN DUG TIMES NI", 74917>>, <<"CUNEIFORM SIGN DUG TIMES PI", 74918>>,
    <<"CUNEIFORM SIGN DUG TIMES SHE", 74919>>, <<"CUNEIFORM SIGN DUG TIMES SI GUNU", 74920>>,
    <<"CUNEIFORM SIGN E2 TIMES KUR", 74921>>, <<"CUNEIFORM SIGN E2 TIMES PAP", 74922>>,
    <<"CUNEIFORM SIGN ERIN2 X", 74923>>, <<"CUNEIFORM SIGN ESH2 CROSSING ESH2", 74924>>,
    <<"CUNEIFORM SIGN EZEN SHESHIG TIMES ASH", 74925>>,
    <<"CUNEIFORM SIGN EZEN SHESHIG TIMES HI", 74926>>,
    <<"CUNEIFORM SIGN EZEN SHESHIG TIMES IGI GUNU", 74927>>,
    <<"CUNEIFORM SIGN EZEN SHESHIG TIMES LA", 74928>>,
    <<"CUNEIFORM SIGN EZEN SHESHIG TIMES LAL", 74929>>,
    <<"CUNEIFORM SIGN EZEN SHESHIG TIMES ME", 74930>>,
    <<"CUNEIFORM SIGN EZEN SHESHIG TIMES MES", 74931>>,
    <<"CUNEIFORM SIGN EZEN SHESHIG TIMES SU", 74932>>, <<"CUNEIFORM SIGN EZEN TIMES SU", 74933>>,
    <<"CUNEIFORM SIGN GA2 TIMES BAHAR2", 74934>>, <<"CUNEIFORM SIGN GA2 TIMES DIM GUNU", 74935>>,
    <<"CUNEIFORM SIGN GA2 TIMES DUG TIMES IGI GUNU", 74936>>,
    <<"CUNEIFORM SIGN GA2 TIMES DUG TIMES KASKAL", 74937>>, <<"CUNEIFORM SIGN GA2 TIMES EREN", 74938>>,
    <<"CUNEIFORM SIGN GA2 TIMES GA", 74939>>, <<"CUNEIFORM SIGN GA2 TIMES GAR PLUS DI", 74940>>,
    <<"CUNEIFORM SIGN GA2 TIMES GAR PLUS NE", 74941>>, <<"CUNEIFORM SIGN GA2 TIMES HA PLUS A", 74942>>,
    <<"CUNEIFORM SIGN GA2 TIMES KUSHU2 PLUS KASKAL", 74943>>,
    <<"CUNEIFORM SIGN GA2 TIMES LAM", 74944>>, <<"CUNEIFORM SIGN GA2 TIMES LAM TIMES KUR", 74945>>,
    <<"CUNEIFORM SIGN GA2 TIMES LUH", 74946>>, <<"CUNEIFORM SIGN GA2 TIMES MUSH", 74947>>,
    <<"CUNEIFORM SIGN GA2 TIMES NE", 74948>>, <<"CUNEIFORM SIGN GA2 TIMES NE PLUS E2", 74949>>,
    <<"CUNEIFORM SIGN GA2 TIMES NE PLUS GI", 74950>>, <<"CUNEIFORM SIGN GA2 TIMES SHIM", 74951>>,
    <<"CUNEIFORM SIGN GA2 TIMES ZIZ2", 74952>>,
    <<"CUNEIFORM SIGN GABA ROTATED NINETY DEGREES", 74953>>,
    <<"CUNEIFORM SIGN GESHTIN TIMES U", 74954>>,
    <<"CUNEIFORM SIGN GISH TIMES GISH CROSSING GISH", 74955>>,
    <<"CUNEIFORM SIGN GU2 TIMES IGI GUNU", 74956>>,
    <<"CUNEIFORM SIGN GUD PLUS GISH TIMES TAK4", 74957>>, <<"CUNEIFORM SIGN HA TENU GUNU", 74958>>,
    <<"CUNEIFORM SIGN HI TIMES ASH OVER HI TIMES ASH", 74959>>,
    <<"CUNEIFORM SIGN KA TIMES BU", 74960>>, <<"CUNEIFORM SIGN KA TIMES KA", 74961>>,
    <<"CUNEIFORM SIGN KA TIMES U U U", 74962>>, <<"CUNEIFORM SIGN KA TIMES UR", 74963>>,
    <<"CUNEIFORM SIGN LAGAB TIMES ZU OVER ZU", 74964>>, <<"CUNEIFORM SIGN LAK-003", 74965>>,
    <<"CUNEIFORM SIGN LAK-021", 74966>>, <<"CUNEIFORM SIGN LAK-025", 74967>>,
    <<"CUNEIFORM SIGN LAK-030", 74968>>, <<"CUNEIFORM SIGN LAK-050", 74969>>,
    <<"CUNEIFORM SIGN LAK-051", 74970>>, <<"CUNEIFORM SIGN LAK-062", 74971>>,
    <<"CUNEIFORM SIGN LAK-079 OVER LAK-079 GUNU", 74972>>, <<"CUNEIFORM SIGN LAK-080", 74973>>,
    <<"CUNEIFORM SIGN LAK-081 OVER LAK-081", 74974>>, <<"CUNEIFORM SIGN LAK-092", 74975>>,
    <<"CUNEIFORM SIGN LAK-130", 74976>>, <<"CUNEIFORM SIGN LAK-142", 74977>>,
    <<"CUNEIFORM SIGN LAK-210", 74978>>, <<"CUNEIFORM SIGN LAK-219", 74979>>,
    <<"CUNEIFORM SIGN LAK-220", 74980>>, <<"CUNEIFORM SIGN LAK-225", 74981>>,
    <<"CUNEIFORM SIGN LAK-228", 74982>>, <<"CUNEIFORM SIGN LAK-238", 74983>>,
    <<"CUNEIFORM SIGN LAK-265", 74984>>, <<"CUNEIFORM SIGN LAK-266", 74985>>,
    <<"CUNEIFORM SIGN LAK-343", 74986>>, <<"CUNEIFORM SIGN LAK-347", 74987>>,
    <<"CUNEIFORM SIGN LAK-348", 74988>>, <<"CUNEIFORM SIGN LAK-383", 74989>>,
    <<"CUNEIFORM SIGN LAK-384", 74990>>, <<"CUNEIFORM SIGN LAK-390", 74991>>,
    <<"CUNEIFORM SIGN LAK-441", 74992>>, <<"CUNEIFORM SIGN LAK-449", 74993>>,
    <<"CUNEIFORM SIGN LAK-449 TIMES GU", 74994>>, <<"CUNEIFORM SIGN LAK-449 TIMES IGI", 74995>>,
    <<"CUNEIFORM SIGN LAK-449 TIMES PAP PLUS LU3", 74996>>,
    <<"CUNEIFORM SIGN LAK-449 TIMES PAP PLUS PAP PLUS LU3", 74997>>,
    <<"CUNEIFORM SIGN LAK-449 TIMES U2 PLUS BA", 74998>>, <<"CUNEIFORM SIGN LAK-450", 74999>>,
    <<"CUNEIFORM SIGN LAK-457", 75000>>, <<"CUNEIFORM SIGN LAK-470", 75001>>,
    <<"CUNEIFORM SIGN LAK-483", 75002>>, <<"CUNEIFORM SIGN LAK-490", 75003>>,
    <<"CUNEIFORM SIGN LAK-492", 75004>>, <<"CUNEIFORM SIGN LAK-493", 75005>>,
    <<"CUNEIFORM SIGN LAK-495", 75006>>, <<"CUNEIFORM SIGN LAK-550", 75007>>,
    <<"CUNEIFORM SIGN LAK-608", 75008>>, <<"CUNEIFORM SIGN LAK-617", 75009>>,
    <<"CUNEIFORM SIGN LAK-617 TIMES ASH", 75010>>, <<"CUNEIFORM SIGN LAK-617 TIMES BAD", 75011>>,
    <<"CUNEIFORM SIGN LAK-617 TIMES DUN3 GUNU GUNU", 75012>>,
    <<"CUNEIFORM SIGN LAK-617 TIMES KU3", 75013>>, <<"CUNEIFORM SIGN LAK-617 TIMES LA", 75014>>,
    <<"CUNEIFORM SIGN LAK-617 TIMES TAR", 75015>>, <<"CUNEIFORM SIGN LAK-617 TIMES TE", 75016>>,
    <<"CUNEIFORM SIGN LAK-617 TIMES U2", 75017>>, <<"CUNEIFORM SIGN LAK-617 TIMES UD", 75018>>,
    <<"CUNEIFORM SIGN LAK-617 TIMES URUDA", 75019>>, <<"CUNEIFORM SIGN LAK-636", 75020>>,
    <<"CUNEIFORM SIGN LAK-648", 75021>>, <<"CUNEIFORM SIGN LAK-648 TIMES DUB", 75022>>,
    <<"CUNEIFORM SIGN LAK-648 TIMES GA", 75023>>, <<"CUNEIFORM SIGN LAK-648 TIMES IGI", 75024>>,
    <<"CUNEIFORM SIGN LAK-648 TIMES IGI GUNU", 75025>>, <<"CUNEIFORM SIGN LAK-648 TIMES NI", 75026>>,
    <<"CUNEIFORM SIGN LAK-648 TIMES PAP PLUS PAP PLUS LU3", 75027>>,
    <<"CUNEIFORM SIGN LAK-648 TIMES SHESH PLUS KI", 75028>>,
    <<"CUNEIFORM SIGN LAK-648 TIMES UD", 75029>>, <<"CUNEIFORM SIGN LAK-648 TIMES URUDA", 75030>>,
    <<"CUNEIFORM SIGN LAK-724", 75031>>, <<"CUNEIFORM SIGN LAK-749", 75032>>,
    <<"CUNEIFORM SIGN LU2 GUNU TIMES ASH", 75033>>, <<"CUNEIFORM SIGN LU2 TIMES DISH", 75034>>,
    <<"CUNEIFORM SIGN LU2 TIMES HAL", 75035>>, <<"CUNEIFORM SIGN LU2 TIMES PAP", 75036>>,
    <<"CUNEIFORM SIGN LU2 TIMES PAP PLUS PAP PLUS LU3", 75037>>,
    <<"CUNEIFORM SIGN LU2 TIMES TAK4", 75038>>, <<"CUNEIFORM SIGN MI PLUS ZA7", 75039>>,
    <<"CUNEIFORM SIGN MUSH OVER MUSH TIMES GA", 75040>>,
    <<"CUNEIFORM SIGN MUSH OVER MUSH TIMES KAK", 75041>>,
    <<"CUNEIFORM SIGN NINDA2 TIMES DIM GUNU", 75042>>, <<"CUNEIFORM SIGN NINDA2 TIMES GISH", 75043>>,
    <<"CUNEIFORM SIGN NINDA2 TIMES GUL", 75044>>, <<"CUNEIFORM SIGN NINDA2 TIMES HI", 75045>>,
    <<"CUNEIFORM SIGN NINDA2 TIMES KESH2", 75046>>, <<"CUNEIFORM SIGN NINDA2 TIMES LAK-050", 75047>>,
    <<"CUNEIFORM SIGN NINDA2 TIMES MASH", 75048>>,
    <<"CUNEIFORM SIGN NINDA2 TIMES PAP PLUS PAP", 75049>>, <<"CUNEIFORM SIGN NINDA2 TIMES U", 75050>>,
    <<"CUNEIFORM SIGN NINDA2 TIMES U PLUS U", 75051>>, <<"CUNEIFORM SIGN NINDA2 TIMES URUDA", 75052>>,
    <<"CUNEIFORM SIGN SAG GUNU TIMES HA", 75053>>, <<"CUNEIFORM SIGN SAG TIMES EN", 75054>>,
    <<"CUNEIFORM SIGN SAG TIMES SHE AT LEFT", 75055>>, <<"CUNEIFORM SIGN SAG TIMES TAK4", 75056>>,
    <<"CUNEIFORM SIGN SHA6 TENU", 75057>>, <<"CUNEIFORM SIGN SHE OVER SHE", 75058>>,
    <<"CUNEIFORM SIGN SHE PLUS HUB2", 75059>>, <<"CUNEIFORM SIGN SHE PLUS NAM2", 75060>>,
    <<"CUNEIFORM SIGN SHE PLUS SAR", 75061>>, <<"CUNEIFORM SIGN SHU2 PLUS DUG TIMES NI", 75062>>,
    <<"CUNEIFORM SIGN SHU2 PLUS E2 TIMES AN", 75063>>, <<"CUNEIFORM SIGN SI TIMES TAK4", 75064>>,
    <<"CUNEIFORM SIGN TAK4 PLUS SAG", 75065>>, <<"CUNEIFORM SIGN TUM TIMES GAN2 TENU", 75066>>,
    <<"CUNEIFORM SIGN TUM TIMES THREE DISH", 75067>>, <<"CUNEIFORM SIGN UR2 INVERTED", 75068>>,
    <<"CUNEIFORM SIGN UR2 TIMES UD", 75069>>, <<"CUNEIFORM SIGN URU TIMES DARA3", 75070>>,
    <<"CUNEIFORM SIGN URU TIMES LAK-668", 75071>>, <<"CUNEIFORM SIGN URU TIMES LU3", 75072>>,
    <<"CUNEIFORM SIGN ZA7", 75073>>, <<"CUNEIFORM SIGN ZU OVER ZU PLUS SAR", 75074>>,
    <<"CUNEIFORM SIGN ZU5 TIMES THREE DISH TENU", 75075>>, <<"CYPRO-MINOAN SIGN CM001", 77712>>,
    <<"CYPRO-MINOAN SIGN CM002", 77713>>, <<"CYPRO-MINOAN SIGN CM004", 77714>>,
    <<"CYPRO-MINOAN SIGN CM005", 77715>>, <<"CYPRO-MINOAN SIGN CM006", 77716>>,
    <<"CYPRO-MINOAN SIGN CM007", 77717>>, <<"CYPRO-MINOAN SIGN CM008", 77718>>,
    <<"CYPRO-MINOAN SIGN CM009", 77719>>, <<"CYPRO-MINOAN SIGN CM010", 77720>>,
    <<"CYPRO-MINOAN SIGN CM011", 77721>>, <<"CYPRO-MINOAN SIGN CM012", 77722>>,
    <<"CYPRO-MINOAN SIGN CM012B", 77723>>, <<"CYPRO-MINOAN SIGN CM013", 77724>>,
    <<"CYPRO-MINOAN SIGN CM015", 77725>>, <<"CYPRO-MINOAN SIGN CM017", 77726>>,
    <<"CYPRO-MINOAN SIGN CM019", 77727>>, <<"CYPRO-MINOAN SIGN CM021", 77728>>,
    <<"CYPRO-MINOAN SIGN CM023", 77729>>, <<"CYPRO-MINOAN SIGN CM024", 77730>>,
    <<"CYPRO-MINOAN SIGN CM025", 77731>>, <<"CYPRO-MINOAN SIGN CM026", 77732>>,
    <<"CYPRO-MINOAN SIGN CM027", 77733>>, <<"CYPRO-MINOAN SIGN CM028", 77734>>,
    <<"CYPRO-MINOAN SIGN CM029", 77735>>, <<"CYPRO-MINOAN SIGN CM030", 77736>>,
    <<"CYPRO-MINOAN SIGN CM033", 77737>>, <<"CYPRO-MINOAN SIGN CM034", 77738>>,
    <<"CYPRO-MINOAN SIGN CM035", 77739>>, <<"CYPRO-MINOAN SIGN CM036", 77740>>,
    <<"CYPRO-MINOAN SIGN CM037", 77741>>, <<"CYPRO-MINOAN SIGN CM038", 77742>>,
    <<"CYPRO-MINOAN SIGN CM039", 77743>>, <<"CYPRO-MINOAN SIGN CM040", 77744>>,
    <<"CYPRO-MINOAN SIGN CM041", 77745>>, <<"CYPRO-MINOAN SIGN CM044", 77746>>,
    <<"CYPRO-MINOAN SIGN CM046", 77747>>, <<"CYPRO-MINOAN SIGN CM047", 77748>>,
    <<"CYPRO-MINOAN SIGN CM049", 77749>>, <<"CYPRO-MINOAN SIGN CM050", 77750>>,
    <<"CYPRO-MINOAN SIGN CM051", 77751>>, <<"CYPRO-MINOAN SIGN CM052", 77752>>,
    <<"CYPRO-MINOAN SIGN CM053", 77753>>, <<"CYPRO-MINOAN SIGN CM054", 77754>>,
    <<"CYPRO-MINOAN SIGN CM055", 77755>>, <<"CYPRO-MINOAN SIGN CM056", 77756>>,
    <<"CYPRO-MINOAN SIGN CM058", 77757>>, <<"CYPRO-MINOAN SIGN CM059", 77758>>,
    <<"CYPRO-MINOAN SIGN CM060", 77759>>, <<"CYPRO-MINOAN SIGN CM061", 77760>>,
    <<"CYPRO-MINOAN SIGN CM062", 77761>>, <<"CYPRO-MINOAN SIGN CM063", 77762>>,
    <<"CYPRO-MINOAN SIGN CM064", 77763>>, <<"CYPRO-MINOAN SIGN CM066", 77764>>,
    <<"CYPRO-MINOAN SIGN CM067", 77765>>, <<"CYPRO-MINOAN SIGN CM068", 77766>>,
    <<"CYPRO-MINOAN SIGN CM069", 77767>>, <<"CYPRO-MINOAN SIGN CM070", 77768>>,
    <<"CYPRO-MINOAN SIGN CM071", 77769>>, <<"CYPRO-MINOAN SIGN CM072", 77770>>,
    <<"CYPRO-MINOAN SIGN CM073", 77771>>, <<"CYPRO-MINOAN SIGN CM074", 77772>>,
    <<"CYPRO-MINOAN SIGN CM075", 77773>>, <<"CYPRO-MINOAN SIGN CM075B", 77774>>,
    <<"CYPRO-MINOAN SIGN CM076", 77775>>, <<"CYPRO-MINOAN SIGN CM078", 77776>>,
    <<"CYPRO-MINOAN SIGN CM079", 77777>>, <<"CYPRO-MINOAN SIGN CM080", 77778>>,
    <<"CYPRO-MINOAN SIGN CM081", 77779>>, <<"CYPRO-MINOAN SIGN CM082", 77780>>,
    <<"CYPRO-MINOAN SIGN CM083", 77781>>, <<"CYPRO-MINOAN SIGN CM084", 77782>>,
    <<"CYPRO-MINOAN SIGN CM085", 77783>>, <<"CYPRO-MINOAN SIGN CM086", 77784>>,
    <<"CYPRO-MINOAN SIGN CM087", 77785>>, <<"CYPRO-MINOAN SIGN CM088", 77786>>,
    <<"CYPRO-MINOAN SIGN CM089", 77787>>, <<"CYPRO-MINOAN SIGN CM090", 77788>>,
    <<"CYPRO-MINOAN SIGN CM091", 77789>>, <<"CYPRO-MINOAN SIGN CM092", 77790>>,
    <<"CYPRO-MINOAN SIGN CM094", 77791>>, <<"CYPRO-MINOAN SIGN CM095", 77792>>,
    <<"CYPRO-MINOAN SIGN CM096", 77793>>, <<"CYPRO-MINOAN SIGN CM097", 77794>>,
    <<"CYPRO-MINOAN SIGN CM098", 77795>>, <<"CYPRO-MINOAN SIGN CM099", 77796>>,
    <<"CYPRO-MINOAN SIGN CM100", 77797>>, <<"CYPRO-MINOAN SIGN CM101", 77798>>,
    <<"CYPRO-MINOAN SIGN CM102", 77799>>, <<"CYPRO-MINOAN SIGN CM103", 77800>>,
    <<"CYPRO-MINOAN SIGN CM104", 77801>>, <<"CYPRO-MINOAN SIGN CM105", 77802>>,
    <<"CYPRO-MINOAN SIGN CM107", 77803>>, <<"CYPRO-MINOAN SIGN CM108", 77804>>,
    <<"CYPRO-MINOAN SIGN CM109", 77805>>, <<"CYPRO-MINOAN SIGN CM110", 77806>>,
    <<"CYPRO-MINOAN SIGN CM112", 77807>>, <<"CYPRO-MINOAN SIGN CM114", 77808>>,
    <<"CYPRO-MINOAN SIGN CM301", 77809>>, <<"CYPRO-MINOAN SIGN CM302", 77810>>,
    <<"EGYPTIAN HIEROGLYPH A001", 77824>>, <<"EGYPTIAN HIEROGLYPH A002", 77825>>,
    <<"EGYPTIAN HIEROGLYPH A003", 77826>>, <<"EGYPTIAN HIEROGLYPH A004", 77827>>,
    <<"EGYPTIAN HIEROGLYPH A005", 77828>>, <<"EGYPTIAN HIEROGLYPH A005A", 77829>>,
    <<"EGYPTIAN HIEROGLYPH A006", 77830>>, <<"EGYPTIAN HIEROGLYPH A006A", 77831>>,
    <<"EGYPTIAN HIEROGLYPH A006B", 77832>>, <<"EGYPTIAN HIEROGLYPH A007", 77833>>,
    <<"EGYPTIAN HIEROGLYPH A008", 77834>>, <<"EGYPTIAN HIEROGLYPH A009", 77835>>,
    <<"EGYPTIAN HIEROGLYPH A010", 77836>>, <<"EGYPTIAN HIEROGLYPH A011", 77837>>,
    <<"EGYPTIAN HIEROGLYPH A012", 77838>>, <<"EGYPTIAN HIEROGLYPH A013", 77839>>,
    <<"EGYPTIAN HIEROGLYPH A014", 77840>>, <<"EGYPTIAN HIEROGLYPH A014A", 77841>>,
    <<"EGYPTIAN HIEROGLYPH A015", 77842>>, <<"EGYPTIAN HIEROGLYPH A016", 77843>>,
    <<"EGYPTIAN HIEROGLYPH A017", 77844>>, <<"EGYPTIAN HIEROGLYPH A017A", 77845>>,
    <<"EGYPTIAN HIEROGLYPH A018", 77846>>, <<"EGYPTIAN HIEROGLYPH A019", 77847>>,
    <<"EGYPTIAN HIEROGLYPH A020", 77848>>, <<"EGYPTIAN HIEROGLYPH A021", 77849>>,
    <<"EGYPTIAN HIEROGLYPH A022", 77850>>, <<"EGYPTIAN HIEROGLYPH A023", 77851>>,
    <<"EGYPTIAN HIEROGLYPH A024", 77852>>, <<"EGYPTIAN HIEROGLYPH A025", 77853>>,
    <<"EGYPTIAN HIEROGLYPH A026", 77854>>, <<"EGYPTIAN HIEROGLYPH A027", 77855>>,
    <<"EGYPTIAN HIEROGLYPH A028", 77856>>, <<"EGYPTIAN HIEROGLYPH A029", 77857>>,
    <<"EGYPTIAN HIEROGLYPH A030", 77858>>, <<"EGYPTIAN HIEROGLYPH A031", 77859>>,
    <<"EGYPTIAN HIEROGLYPH A032", 77860>>, <<"EGYPTIAN HIEROGLYPH A032A", 77861>>,
    <<"EGYPTIAN HIEROGLYPH A033", 77862>>, <<"EGYPTIAN HIEROGLYPH A034", 77863>>,
    <<"EGYPTIAN HIEROGLYPH A035", 77864>>, <<"EGYPTIAN HIEROGLYPH A036", 77865>>,
    <<"EGYPTIAN HIEROGLYPH A037", 77866>>, <<"EGYPTIAN HIEROGLYPH A038", 77867>>,
    <<"EGYPTIAN HIEROGLYPH A039", 77868>>, <<"EGYPTIAN HIEROGLYPH A040", 77869>>,
    <<"EGYPTIAN HIEROGLYPH A040A", 77870>>, <<"EGYPTIAN HIEROGLYPH A041", 77871>>,
    <<"EGYPTIAN HIEROGLYPH A042", 77872>>, <<"EGYPTIAN HIEROGLYPH A042A", 77873>>,
    <<"EGYPTIAN HIEROGLYPH A043", 77874>>, <<"EGYPTIAN HIEROGLYPH A043A", 77875>>,
    <<"EGYPTIAN HIEROGLYPH A044", 77876>>, <<"EGYPTIAN HIEROGLYPH A045", 77877>>,
    <<"EGYPTIAN HIEROGLYPH A045A", 77878>>, <<"EGYPTIAN HIEROGLYPH A046", 77879>>,
    <<"EGYPTIAN HIEROGLYPH A047", 77880>>, <<"EGYPTIAN HIEROGLYPH A048", 77881>>,
    <<"EGYPTIAN HIEROGLYPH A049", 77882>>, <<"EGYPTIAN HIEROGLYPH A050", 77883>>,
    <<"EGYPTIAN HIEROGLYPH A051", 77884>>, <<"EGYPTIAN HIEROGLYPH A052", 77885>>,
    <<"EGYPTIAN HIEROGLYPH A053", 77886>>, <<"EGYPTIAN HIEROGLYPH A054", 77887>>,
    <<"EGYPTIAN HIEROGLYPH A055", 77888>>, <<"EGYPTIAN HIEROGLYPH A056", 77889>>,
    <<"EGYPTIAN HIEROGLYPH A057", 77890>>, <<"EGYPTIAN HIEROGLYPH A058", 77891>>,
    <<"EGYPTIAN HIEROGLYPH A059", 77892>>, <<"EGYPTIAN HIEROGLYPH A060", 77893>>,
    <<"EGYPTIAN HIEROGLYPH A061", 77894>>, <<"EGYPTIAN HIEROGLYPH A062", 77895>>,
    <<"EGYPTIAN HIEROGLYPH A063", 77896>>, <<"EGYPTIAN HIEROGLYPH A064", 77897>>,
    <<"EGYPTIAN HIEROGLYPH A065", 77898>>, <<"EGYPTIAN HIEROGLYPH A066", 77899>>,
    <<"EGYPTIAN HIEROGLYPH A067", 77900>>, <<"EGYPTIAN HIEROGLYPH A068", 77901>>,
    <<"EGYPTIAN HIEROGLYPH A069", 77902>>, <<"EGYPTIAN HIEROGLYPH A070", 77903>>,
    <<"EGYPTIAN HIEROGLYPH B001", 77904>>, <<"EGYPTIAN HIEROGLYPH B002", 77905>>,
    <<"EGYPTIAN HIEROGLYPH B003", 77906>>, <<"EGYPTIAN HIEROGLYPH B004", 77907>>,
    <<"EGYPTIAN HIEROGLYPH B005", 77908>>, <<"EGYPTIAN HIEROGLYPH B005A", 77909>>,
    <<"EGYPTIAN HIEROGLYPH B006", 77910>>, <<"EGYPTIAN HIEROGLYPH B007", 77911>>,
    <<"EGYPTIAN HIEROGLYPH B008", 77912>>, <<"EGYPTIAN HIEROGLYPH B009", 77913>>,
    <<"EGYPTIAN HIEROGLYPH C001", 77914>>, <<"EGYPTIAN HIEROGLYPH C002", 77915>>,
    <<"EGYPTIAN HIEROGLYPH C002A", 77916>>, <<"EGYPTIAN HIEROGLYPH C002B", 77917>>,
    <<"EGYPTIAN HIEROGLYPH C002C", 77918>>, <<"EGYPTIAN HIEROGLYPH C003", 77919>>,
    <<"EGYPTIAN HIEROGLYPH C004", 77920>>, <<"EGYPTIAN HIEROGLYPH C005", 77921>>,
    <<"EGYPTIAN HIEROGLYPH C006", 77922>>, <<"EGYPTIAN HIEROGLYPH C007", 77923>>,
    <<"EGYPTIAN HIEROGLYPH C008", 77924>>, <<"EGYPTIAN HIEROGLYPH C009", 77925>>,
    <<"EGYPTIAN HIEROGLYPH C010", 77926>>, <<"EGYPTIAN HIEROGLYPH C010A", 77927>>,
    <<"EGYPTIAN HIEROGLYPH C011", 77928>>, <<"EGYPTIAN HIEROGLYPH C012", 77929>>,
    <<"EGYPTIAN HIEROGLYPH C013", 77930>>, <<"EGYPTIAN HIEROGLYPH C014", 77931>>,
    <<"EGYPTIAN HIEROGLYPH C015", 77932>>, <<"EGYPTIAN HIEROGLYPH C016", 77933>>,
    <<"EGYPTIAN HIEROGLYPH C017", 77934>>, <<"EGYPTIAN HIEROGLYPH C018", 77935>>,
    <<"EGYPTIAN HIEROGLYPH C019", 77936>>, <<"EGYPTIAN HIEROGLYPH C020", 77937>>,
    <<"EGYPTIAN HIEROGLYPH C021", 77938>>, <<"EGYPTIAN HIEROGLYPH C022", 77939>>,
    <<"EGYPTIAN HIEROGLYPH C023", 77940>>, <<"EGYPTIAN HIEROGLYPH C024", 77941>>,
    <<"EGYPTIAN HIEROGLYPH D001", 77942>>, <<"EGYPTIAN HIEROGLYPH D002", 77943>>,
    <<"EGYPTIAN HIEROGLYPH D003", 77944>>, <<"EGYPTIAN HIEROGLYPH D004", 77945>>,
    <<"EGYPTIAN HIEROGLYPH D005", 77946>>, <<"EGYPTIAN HIEROGLYPH D006", 77947>>,
    <<"EGYPTIAN HIEROGLYPH D007", 77948>>, <<"EGYPTIAN HIEROGLYPH D008", 77949>>,
    <<"EGYPTIAN HIEROGLYPH D008A", 77950>>, <<"EGYPTIAN HIEROGLYPH D009", 77951>>,
    <<"EGYPTIAN HIEROGLYPH D010", 77952>>, <<"EGYPTIAN HIEROGLYPH D011", 77953>>,
    <<"EGYPTIAN HIEROGLYPH D012", 77954>>, <<"EGYPTIAN HIEROGLYPH D013", 77955>>,
    <<"EGYPTIAN HIEROGLYPH D014", 77956>>, <<"EGYPTIAN HIEROGLYPH D015", 77957>>,
    <<"EGYPTIAN HIEROGLYPH D016", 77958>>, <<"EGYPTIAN HIEROGLYPH D017", 77959>>,
    <<"EGYPTIAN HIEROGLYPH D018", 77960>>, <<"EGYPTIAN HIEROGLYPH D019", 77961>>,
    <<"EGYPTIAN HIEROGLYPH D020", 77962>>, <<"EGYPTIAN HIEROGLYPH D021", 77963>>,
    <<"EGYPTIAN HIEROGLYPH D022", 77964>>, <<"EGYPTIAN HIEROGLYPH D023", 77965>>,
    <<"EGYPTIAN HIEROGLYPH D024", 77966>>, <<"EGYPTIAN HIEROGLYPH D025", 77967>>,
    <<"EGYPTIAN HIEROGLYPH D026", 77968>>, <<"EGYPTIAN HIEROGLYPH D027", 77969>>,
    <<"EGYPTIAN HIEROGLYPH D027A", 77970>>, <<"EGYPTIAN HIEROGLYPH D028", 77971>>,
    <<"EGYPTIAN HIEROGLYPH D029", 77972>>, <<"EGYPTIAN HIEROGLYPH D030", 77973>>,
    <<"EGYPTIAN HIEROGLYPH D031", 77974>>, <<"EGYPTIAN HIEROGLYPH D031A", 77975>>,
    <<"EGYPTIAN HIEROGLYPH D032", 77976>>, <<"EGYPTIAN HIEROGLYPH D033", 77977>>,
    <<"EGYPTIAN HIEROGLYPH D034", 77978>>, <<"EGYPTIAN HIEROGLYPH D034A", 77979>>,
    <<"EGYPTIAN HIEROGLYPH D035", 77980>>, <<"EGYPTIAN HIEROGLYPH D036", 77981>>,
    <<"EGYPTIAN HIEROGLYPH D037", 77982>>, <<"EGYPTIAN HIEROGLYPH D038", 77983>>,
    <<"EGYPTIAN HIEROGLYPH D039", 77984>>, <<"EGYPTIAN HIEROGLYPH D040", 77985>>,
    <<"EGYPTIAN HIEROGLYPH D041", 77986>>, <<"EGYPTIAN HIEROGLYPH D042", 77987>>,
    <<"EGYPTIAN HIEROGLYPH D043", 77988>>, <<"EGYPTIAN HIEROGLYPH D044", 77989>>,
    <<"EGYPTIAN HIEROGLYPH D045", 77990>>, <<"EGYPTIAN HIEROGLYPH D046", 77991>>,
    <<"EGYPTIAN HIEROGLYPH D046A", 77992>>, <<"EGYPTIAN HIEROGLYPH D047", 77993>>,
    <<"EGYPTIAN HIEROGLYPH D048", 77994>>, <<"EGYPTIAN HIEROGLYPH D048A", 77995>>,
    <<"EGYPTIAN HIEROGLYPH D049", 77996>>, <<"EGYPTIAN HIEROGLYPH D050", 77997>>,
    <<"EGYPTIAN HIEROGLYPH D050A", 77998>>, <<"EGYPTIAN HIEROGLYPH D050B", 77999>>,
    <<"EGYPTIAN HIEROGLYPH D050C", 78000>>, <<"EGYPTIAN HIEROGLYPH D050D", 78001>>,
    <<"EGYPTIAN HIEROGLYPH D050E", 78002>>, <<"EGYPTIAN HIEROGLYPH D050F", 78003>>,
    <<"EGYPTIAN HIEROGLYPH D050G", 78004>>, <<"EGYPTIAN HIEROGLYPH D050H", 78005>>,
    <<"EGYPTIAN HIEROGLYPH D050I", 78006>>, <<"EGYPTIAN HIEROGLYPH D051", 78007>>,
    <<"EGYPTIAN HIEROGLYPH D052", 78008>>, <<"EGYPTIAN HIEROGLYPH D052A", 78009>>,
    <<"EGYPTIAN HIEROGLYPH D053", 78010>>, <<"EGYPTIAN HIEROGLYPH D054", 78011>>,
    <<"EGYPTIAN HIEROGLYPH D054A", 78012>>, <<"EGYPTIAN HIEROGLYPH D055", 78013>>,
    <<"EGYPTIAN HIEROGLYPH D056", 78014>>, <<"EGYPTIAN HIEROGLYPH D057", 78015>>,
    <<"EGYPTIAN HIEROGLYPH D058", 78016>>, <<"EGYPTIAN HIEROGLYPH D059", 78017>>,
    <<"EGYPTIAN HIEROGLYPH D060", 78018>>, <<"EGYPTIAN HIEROGLYPH D061", 78019>>,
    <<"EGYPTIAN HIEROGLYPH D062", 78020>>, <<"EGYPTIAN HIEROGLYPH D063", 78021>>,
    <<"EGYPTIAN HIEROGLYPH D064", 78022>>, <<"EGYPTIAN HIEROGLYPH D065", 78023>>,
    <<"EGYPTIAN HIEROGLYPH D066", 78024>>, <<"EGYPTIAN HIEROGLYPH D067", 78025>>,
    <<"EGYPTIAN HIEROGLYPH D067A", 78026>>, <<"EGYPTIAN HIEROGLYPH D067B", 78027>>,
    <<"EGYPTIAN HIEROGLYPH D067C", 78028>>, <<"EGYPTIAN HIEROGLYPH D067D", 78029>>,
    <<"EGYPTIAN HIEROGLYPH D067E", 78030>>, <<"EGYPTIAN HIEROGLYPH D067F", 78031>>,
    <<"EGYPTIAN HIEROGLYPH D067G", 78032>>, <<"EGYPTIAN HIEROGLYPH D067H", 78033>>,
    <<"EGYPTIAN HIEROGLYPH E001", 78034>>, <<"EGYPTIAN HIEROGLYPH E002", 78035>>,
    <<"EGYPTIAN HIEROGLYPH E003", 78036>>, <<"EGYPTIAN HIEROGLYPH E004", 78037>>,
    <<"EGYPTIAN HIEROGLYPH E005", 78038>>, <<"EGYPTIAN HIEROGLYPH E006", 78039>>,
    <<"EGYPTIAN HIEROGLYPH E007", 78040>>, <<"EGYPTIAN HIEROGLYPH E008", 78041>>,
    <<"EGYPTIAN HIEROGLYPH E008A", 78042>>, <<"EGYPTIAN HIEROGLYPH E009", 78043>>,
    <<"EGYPTIAN HIEROGLYPH E009A", 78044>>, <<"EGYPTIAN HIEROGLYPH E010", 78045>>,
    <<"EGYPTIAN HIEROGLYPH E011", 78046>>, <<"EGYPTIAN HIEROGLYPH E012", 78047>>,
    <<"EGYPTIAN HIEROGLYPH E013", 78048>>, <<"EGYPTIAN HIEROGLYPH E014", 78049>>,
    <<"EGYPTIAN HIEROGLYPH E015", 78050>>, <<"EGYPTIAN HIEROGLYPH E016", 78051>>,
    <<"EGYPTIAN HIEROGLYPH E016A", 78052>>, <<"EGYPTIAN HIEROGLYPH E017", 78053>>,
    <<"EGYPTIAN HIEROGLYPH E017A", 78054>>, <<"EGYPTIAN HIEROGLYPH E018", 78055>>,
    <<"EGYPTIAN HIEROGLYPH E019", 78056>>, <<"EGYPTIAN HIEROGLYPH E020", 78057>>,
    <<"EGYPTIAN HIEROGLYPH E020A", 78058>>, <<"EGYPTIAN HIEROGLYPH E021", 78059>>,
    <<"EGYPTIAN HIEROGLYPH E022", 78060>>, <<"EGYPTIAN HIEROGLYPH E023", 78061>>,
    <<"EGYPTIAN HIEROGLYPH E024", 78062>>, <<"EGYPTIAN HIEROGLYPH E025", 78063>>,
    <<"EGYPTIAN HIEROGLYPH E026", 78064>>, <<"EGYPTIAN HIEROGLYPH E027", 78065>>,
    <<"EGYPTIAN HIEROGLYPH E028", 78066>>, <<"EGYPTIAN HIEROGLYPH E028A", 78067>>,
    <<"EGYPTIAN HIEROGLYPH E029", 78068>>, <<"EGYPTIAN HIEROGLYPH E030", 78069>>,
    <<"EGYPTIAN HIEROGLYPH E031", 78070>>, <<"EGYPTIAN HIEROGLYPH E032", 78071>>,
    <<"EGYPTIAN HIEROGLYPH E033", 78072>>, <<"EGYPTIAN HIEROGLYPH E034", 78073>>,
    <<"EGYPTIAN HIEROGLYPH E034A", 78074>>, <<"EGYPTIAN HIEROGLYPH E036", 78075>>,
    <<"EGYPTIAN HIEROGLYPH E037", 78076>>, <<"EGYPTIAN HIEROGLYPH E038", 78077>>,
    <<"EGYPTIAN HIEROGLYPH F001", 78078>>, <<"EGYPTIAN HIEROGLYPH F001A", 78079>>,
    <<"EGYPTIAN HIEROGLYPH F002", 78080>>, <<"EGYPTIAN HIEROGLYPH F003", 78081>>,
    <<"EGYPTIAN HIEROGLYPH F004", 78082>>, <<"EGYPTIAN HIEROGLYPH F005", 78083>>,
    <<"EGYPTIAN HIEROGLYPH F006", 78084>>, <<"EGYPTIAN HIEROGLYPH F007", 78085>>,
    <<"EGYPTIAN HIEROGLYPH F008", 78086>>, <<"EGYPTIAN HIEROGLYPH F009", 78087>>,
    <<"EGYPTIAN HIEROGLYPH F010", 78088>>, <<"EGYPTIAN HIEROGLYPH F011", 78089>>,
    <<"EGYPTIAN HIEROGLYPH F012", 78090>>, <<"EGYPTIAN HIEROGLYPH F013", 78091>>,
    <<"EGYPTIAN HIEROGLYPH F013A", 78092>>, <<"EGYPTIAN HIEROGLYPH F014", 78093>>,
    <<"EGYPTIAN HIEROGLYPH F015", 78094>>, <<"EGYPTIAN HIEROGLYPH F016", 78095>>,
    <<"EGYPTIAN HIEROGLYPH F017", 78096>>, <<"EGYPTIAN HIEROGLYPH F018", 78097>>,
    <<"EGYPTIAN HIEROGLYPH F019", 78098>>, <<"EGYPTIAN HIEROGLYPH F020", 78099>>,
    <<"EGYPTIAN HIEROGLYPH F021", 78100>>, <<"EGYPTIAN HIEROGLYPH F021A", 78101>>,
    <<"EGYPTIAN HIEROGLYPH F022", 78102>>, <<"EGYPTIAN HIEROGLYPH F023", 78103>>,
    <<"EGYPTIAN HIEROGLYPH F024", 78104>>, <<"EGYPTIAN HIEROGLYPH F025", 78105>>,
    <<"EGYPTIAN HIEROGLYPH F026", 78106>>, <<"EGYPTIAN HIEROGLYPH F027", 78107>>,
    <<"EGYPTIAN HIEROGLYPH F028", 78108>>, <<"EGYPTIAN HIEROGLYPH F029", 78109>>,
    <<"EGYPTIAN HIEROGLYPH F030", 78110>>, <<"EGYPTIAN HIEROGLYPH F031", 78111>>,
    <<"EGYPTIAN HIEROGLYPH F031A", 78112>>, <<"EGYPTIAN HIEROGLYPH F032", 78113>>,
    <<"EGYPTIAN HIEROGLYPH F033", 78114>>, <<"EGYPTIAN HIEROGLYPH F034", 78115>>,
    <<"EGYPTIAN HIEROGLYPH F035", 78116>>, <<"EGYPTIAN HIEROGLYPH F036", 78117>>,
    <<"EGYPTIAN HIEROGLYPH F037", 78118>>, <<"EGYPTIAN HIEROGLYPH F037A", 78119>>,
    <<"EGYPTIAN HIEROGLYPH F038", 78120>>, <<"EGYPTIAN HIEROGLYPH F038A", 78121>>,
    <<"EGYPTIAN HIEROGLYPH F039", 78122>>, <<"EGYPTIAN HIEROGLYPH F040", 78123>>,
    <<"EGYPTIAN HIEROGLYPH F041", 78124>>, <<"EGYPTIAN HIEROGLYPH F042", 78125>>,
    <<"EGYPTIAN HIEROGLYPH F043", 78126>>, <<"EGYPTIAN HIEROGLYPH F044", 78127>>,
    <<"EGYPTIAN HIEROGLYPH F045", 78128>>, <<"EGYPTIAN HIEROGLYPH F045A", 78129>>,
    <<"EGYPTIAN HIEROGLYPH F046", 78130>>, <<"EGYPTIAN HIEROGLYPH F046A", 78131>>,
    <<"EGYPTIAN HIEROGLYPH F047", 78132>>, <<"EGYPTIAN HIEROGLYPH F047A", 78133>>,
    <<"EGYPTIAN HIEROGLYPH F048", 78134>>, <<"EGYPTIAN HIEROGLYPH F049", 78135>>,
    <<"EGYPTIAN HIEROGLYPH F050", 78136>>, <<"EGYPTIAN HIEROGLYPH F051", 78137>>,
    <<"EGYPTIAN HIEROGLYPH F051A", 78138>>, <<"EGYPTIAN HIEROGLYPH F051B", 78139>>,
    <<"EGYPTIAN HIEROGLYPH F051C", 78140>>, <<"EGYPTIAN HIEROGLYPH F052", 78141>>,
    <<"EGYPTIAN HIEROGLYPH F053", 78142>>, <<"EGYPTIAN HIEROGLYPH G001", 78143>>,
    <<"EGYPTIAN HIEROGLYPH G002", 78144>>, <<"EGYPTIAN HIEROGLYPH G003", 78145>>,
    <<"EGYPTIAN HIEROGLYPH G004", 78146>>, <<"EGYPTIAN HIEROGLYPH G005", 78147>>,
    <<"EGYPTIAN HIEROGLYPH G006", 78148>>, <<"EGYPTIAN HIEROGLYPH G006A", 78149>>,
    <<"EGYPTIAN HIEROGLYPH G007", 78150>>, <<"EGYPTIAN HIEROGLYPH G007A", 78151>>,
    <<"EGYPTIAN HIEROGLYPH G007B", 78152>>, <<"EGYPTIAN HIEROGLYPH G008", 78153>>,
    <<"EGYPTIAN HIEROGLYPH G009", 78154>>, <<"EGYPTIAN HIEROGLYPH G010", 78155>>,
    <<"EGYPTIAN HIEROGLYPH G011", 78156>>, <<"EGYPTIAN HIEROGLYPH G011A", 78157>>,
    <<"EGYPTIAN HIEROGLYPH G012", 78158>>, <<"EGYPTIAN HIEROGLYPH G013", 78159>>,
    <<"EGYPTIAN HIEROGLYPH G014", 78160>>, <<"EGYPTIAN HIEROGLYPH G015", 78161>>,
    <<"EGYPTIAN HIEROGLYPH G016", 78162>>, <<"EGYPTIAN HIEROGLYPH G017", 78163>>,
    <<"EGYPTIAN HIEROGLYPH G018", 78164>>, <<"EGYPTIAN HIEROGLYPH G019", 78165>>,
    <<"EGYPTIAN HIEROGLYPH G020", 78166>>, <<"EGYPTIAN HIEROGLYPH G020A", 78167>>,
    <<"EGYPTIAN HIEROGLYPH G021", 78168>>, <<"EGYPTIAN HIEROGLYPH G022", 78169>>,
    <<"EGYPTIAN HIEROGLYPH G023", 78170>>, <<"EGYPTIAN HIEROGLYPH G024", 78171>>,
    <<"EGYPTIAN HIEROGLYPH G025", 78172>>, <<"EGYPTIAN HIEROGLYPH G026", 78173>>,
    <<"EGYPTIAN HIEROGLYPH G026A", 78174>>, <<"EGYPTIAN HIEROGLYPH G027", 78175>>,
    <<"EGYPTIAN HIEROGLYPH G028", 78176>>, <<"EGYPTIAN HIEROGLYPH G029", 78177>>,
    <<"EGYPTIAN HIEROGLYPH G030", 78178>>, <<"EGYPTIAN HIEROGLYPH G031", 78179>>,
    <<"EGYPTIAN HIEROGLYPH G032", 78180>>, <<"EGYPTIAN HIEROGLYPH G033", 78181>>,
    <<"EGYPTIAN HIEROGLYPH G034", 78182>>, <<"EGYPTIAN HIEROGLYPH G035", 78183>>,
    <<"EGYPTIAN HIEROGLYPH G036", 78184>>, <<"EGYPTIAN HIEROGLYPH G036A", 78185>>,
    <<"EGYPTIAN HIEROGLYPH G037", 78186>>, <<"EGYPTIAN HIEROGLYPH G037A", 78187>>,
    <<"EGYPTIAN HIEROGLYPH G038", 78188>>, <<"EGYPTIAN HIEROGLYPH G039", 78189>>,
    <<"EGYPTIAN HIEROGLYPH G040", 78190>>, <<"EGYPTIAN HIEROGLYPH G041", 78191>>,
    <<"EGYPTIAN HIEROGLYPH G042", 78192>>, <<"EGYPTIAN HIEROGLYPH G043", 78193>>,
    <<"EGYPTIAN HIEROGLYPH G043A", 78194>>, <<"EGYPTIAN HIEROGLYPH G044", 78195>>,
    <<"EGYPTIAN HIEROGLYPH G045", 78196>>, <<"EGYPTIAN HIEROGLYPH G045A", 78197>>,
    <<"EGYPTIAN HIEROGLYPH G046", 78198>>, <<"EGYPTIAN HIEROGLYPH G047", 78199>>,
    <<"EGYPTIAN HIEROGLYPH G048", 78200>>, <<"EGYPTIAN HIEROGLYPH G049", 78201>>,
    <<"EGYPTIAN HIEROGLYPH G050", 78202>>, <<"EGYPTIAN HIEROGLYPH G051", 78203>>,
    <<"EGYPTIAN HIEROGLYPH G052", 78204>>, <<"EGYPTIAN HIEROGLYPH G053", 78205>>,
    <<"EGYPTIAN HIEROGLYPH G054", 78206>>, <<"EGYPTIAN HIEROGLYPH H001", 78207>>,
    <<"EGYPTIAN HIEROGLYPH H002", 78208>>, <<"EGYPTIAN HIEROGLYPH H003", 78209>>,
    <<"EGYPTIAN HIEROGLYPH H004", 78210>>, <<"EGYPTIAN HIEROGLYPH H005", 78211>>,
    <<"EGYPTIAN HIEROGLYPH H006", 78212>>, <<"EGYPTIAN HIEROGLYPH H006A", 78213>>,
    <<"EGYPTIAN HIEROGLYPH H007", 78214>>, <<"EGYPTIAN HIEROGLYPH H008", 78215>>,
    <<"EGYPTIAN HIEROGLYPH I001", 78216>>, <<"EGYPTIAN HIEROGLYPH I002", 78217>>,
    <<"EGYPTIAN HIEROGLYPH I003", 78218>>, <<"EGYPTIAN HIEROGLYPH I004", 78219>>,
    <<"EGYPTIAN HIEROGLYPH I005", 78220>>, <<"EGYPTIAN HIEROGLYPH I005A", 78221>>,
    <<"EGYPTIAN HIEROGLYPH I006", 78222>>, <<"EGYPTIAN HIEROGLYPH I007", 78223>>,
    <<"EGYPTIAN HIEROGLYPH I008", 78224>>, <<"EGYPTIAN HIEROGLYPH I009", 78225>>,
    <<"EGYPTIAN HIEROGLYPH I009A", 78226>>, <<"EGYPTIAN HIEROGLYPH I010", 78227>>,
    <<"EGYPTIAN HIEROGLYPH I010A", 78228>>, <<"EGYPTIAN HIEROGLYPH I011", 78229>>,
    <<"EGYPTIAN HIEROGLYPH I011A", 78230>>, <<"EGYPTIAN HIEROGLYPH I012", 78231>>,
    <<"EGYPTIAN HIEROGLYPH I013", 78232>>, <<"EGYPTIAN HIEROGLYPH I014", 78233>>,
    <<"EGYPTIAN HIEROGLYPH I015", 78234>>, <<"EGYPTIAN HIEROGLYPH K001", 78235>>,
    <<"EGYPTIAN HIEROGLYPH K002", 78236>>, <<"EGYPTIAN HIEROGLYPH K003", 78237>>,
    <<"EGYPTIAN HIEROGLYPH K004", 78238>>, <<"EGYPTIAN HIEROGLYPH K005", 78239>>,
    <<"EGYPTIAN HIEROGLYPH K006", 78240>>, <<"EGYPTIAN HIEROGLYPH K007", 78241>>,
    <<"EGYPTIAN HIEROGLYPH K008", 78242>>, <<"EGYPTIAN HIEROGLYPH L001", 78243>>,
    <<"EGYPTIAN HIEROGLYPH L002", 78244>>, <<"EGYPTIAN HIEROGLYPH L002A", 78245>>,
    <<"EGYPTIAN HIEROGLYPH L003", 78246>>, <<"EGYPTIAN HIEROGLYPH L004", 78247>>,
    <<"EGYPTIAN HIEROGLYPH L005", 78248>>, <<"EGYPTIAN HIEROGLYPH L006", 78249>>,
    <<"EGYPTIAN HIEROGLYPH L006A", 78250>>, <<"EGYPTIAN HIEROGLYPH L007", 78251>>,
    <<"EGYPTIAN HIEROGLYPH L008", 78252>>, <<"EGYPTIAN HIEROGLYPH M001", 78253>>,
    <<"EGYPTIAN HIEROGLYPH M001A", 78254>>, <<"EGYPTIAN HIEROGLYPH M001B", 78255>>,
    <<"EGYPTIAN HIEROGLYPH M002", 78256>>, <<"EGYPTIAN HIEROGLYPH M003", 78257>>,
    <<"EGYPTIAN HIEROGLYPH M003A", 78258>>, <<"EGYPTIAN HIEROGLYPH M004", 78259>>,
    <<"EGYPTIAN HIEROGLYPH M005", 78260>>, <<"EGYPTIAN HIEROGLYPH M006", 78261>>,
    <<"EGYPTIAN HIEROGLYPH M007", 78262>>, <<"EGYPTIAN HIEROGLYPH M008", 78263>>,
    <<"EGYPTIAN HIEROGLYPH M009", 78264>>, <<"EGYPTIAN HIEROGLYPH M010", 78265>>,
    <<"EGYPTIAN HIEROGLYPH M010A", 78266>>, <<"EGYPTIAN HIEROGLYPH M011", 78267>>,
    <<"EGYPTIAN HIEROGLYPH M012", 78268>>, <<"EGYPTIAN HIEROGLYPH M012A", 78269>>,
    <<"EGYPTIAN HIEROGLYPH M012B", 78270>>, <<"EGYPTIAN HIEROGLYPH M012C", 78271>>,
    <<"EGYPTIAN HIEROGLYPH M012D", 78272>>, <<"EGYPTIAN HIEROGLYPH M012E", 78273>>,
    <<"EGYPTIAN HIEROGLYPH M012F", 78274>>, <<"EGYPTIAN HIEROGLYPH M012G", 78275>>,
    <<"EGYPTIAN HIEROGLYPH M012H", 78276>>, <<"EGYPTIAN HIEROGLYPH M013", 78277>>,
    <<"EGYPTIAN HIEROGLYPH M014", 78278>>, <<"EGYPTIAN HIEROGLYPH M015", 78279>>,
    <<"EGYPTIAN HIEROGLYPH M015A", 78280>>, <<"EGYPTIAN HIEROGLYPH M016", 78281>>,
    <<"EGYPTIAN HIEROGLYPH M016A", 78282>>, <<"EGYPTIAN HIEROGLYPH M017", 78283>>,
    <<"EGYPTIAN HIEROGLYPH M017A", 78284>>, <<"EGYPTIAN HIEROGLYPH M018", 78285>>,
    <<"EGYPTIAN HIEROGLYPH M019", 78286>>, <<"EGYPTIAN HIEROGLYPH M020", 78287>>,
    <<"EGYPTIAN HIEROGLYPH M021", 78288>>, <<"EGYPTIAN HIEROGLYPH M022", 78289>>,
    <<"EGYPTIAN HIEROGLYPH M022A", 78290>>, <<"EGYPTIAN HIEROGLYPH M023", 78291>>,
    <<"EGYPTIAN HIEROGLYPH M024", 78292>>, <<"EGYPTIAN HIEROGLYPH M024A", 78293>>,
    <<"EGYPTIAN HIEROGLYPH M025", 78294>>, <<"EGYPTIAN HIEROGLYPH M026", 78295>>,
    <<"EGYPTIAN HIEROGLYPH M027", 78296>>, <<"EGYPTIAN HIEROGLYPH M028", 78297>>,
    <<"EGYPTIAN HIEROGLYPH M028A", 78298>>, <<"EGYPTIAN HIEROGLYPH M029", 78299>>,
    <<"EGYPTIAN HIEROGLYPH M030", 78300>>, <<"EGYPTIAN HIEROGLYPH M031", 78301>>,
    <<"EGYPTIAN HIEROGLYPH M031A", 78302>>, <<"EGYPTIAN HIEROGLYPH M032", 78303>>,
    <<"EGYPTIAN HIEROGLYPH M033", 78304>>, <<"EGYPTIAN HIEROGLYPH M033A", 78305>>,
    <<"EGYPTIAN HIEROGLYPH M033B", 78306>>, <<"EGYPTIAN HIEROGLYPH M034", 78307>>,
    <<"EGYPTIAN HIEROGLYPH M035", 78308>>, <<"EGYPTIAN HIEROGLYPH M036", 78309>>,
    <<"EGYPTIAN HIEROGLYPH M037", 78310>>, <<"EGYPTIAN HIEROGLYPH M038", 78311>>,
    <<"EGYPTIAN HIEROGLYPH M039", 78312>>, <<"EGYPTIAN HIEROGLYPH M040", 78313>>,
    <<"EGYPTIAN HIEROGLYPH M040A", 78314>>, <<"EGYPTIAN HIEROGLYPH M041", 78315>>,
    <<"EGYPTIAN HIEROGLYPH M042", 78316>>, <<"EGYPTIAN HIEROGLYPH M043", 78317>>,
    <<"EGYPTIAN HIEROGLYPH M044", 78318>>, <<"EGYPTIAN HIEROGLYPH N001", 78319>>,
    <<"EGYPTIAN HIEROGLYPH N002", 78320>>, <<"EGYPTIAN HIEROGLYPH N003", 78321>>,
    <<"EGYPTIAN HIEROGLYPH N004", 78322>>, <<"EGYPTIAN HIEROGLYPH N005", 78323>>,
    <<"EGYPTIAN HIEROGLYPH N006", 78324>>, <<"EGYPTIAN HIEROGLYPH N007", 78325>>,
    <<"EGYPTIAN HIEROGLYPH N008", 78326>>, <<"EGYPTIAN HIEROGLYPH N009", 78327>>,
    <<"EGYPTIAN HIEROGLYPH N010", 78328>>, <<"EGYPTIAN HIEROGLYPH N011", 78329>>,
    <<"EGYPTIAN HIEROGLYPH N012", 78330>>, <<"EGYPTIAN HIEROGLYPH N013", 78331>>,
    <<"EGYPTIAN HIEROGLYPH N014", 78332>>, <<"EGYPTIAN HIEROGLYPH N015", 78333>>,
    <<"EGYPTIAN HIEROGLYPH N016", 78334>>, <<"EGYPTIAN HIEROGLYPH N017", 78335>>,
    <<"EGYPTIAN HIEROGLYPH N018", 78336>>, <<"EGYPTIAN HIEROGLYPH N018A", 78337>>,
    <<"EGYPTIAN HIEROGLYPH N018B", 78338>>, <<"EGYPTIAN HIEROGLYPH N019", 78339>>,
    <<"EGYPTIAN HIEROGLYPH N020", 78340>>, <<"EGYPTIAN HIEROGLYPH N021", 78341>>,
    <<"EGYPTIAN HIEROGLYPH N022", 78342>>, <<"EGYPTIAN HIEROGLYPH N023", 78343>>,
    <<"EGYPTIAN HIEROGLYPH N024", 78344>>, <<"EGYPTIAN HIEROGLYPH N025", 78345>>,
    <<"EGYPTIAN HIEROGLYPH N025A", 78346>>, <<"EGYPTIAN HIEROGLYPH N026", 78347>>,
    <<"EGYPTIAN HIEROGLYPH N027", 78348>>, <<"EGYPTIAN HIEROGLYPH N028", 78349>>,
    <<"EGYPTIAN HIEROGLYPH N029", 78350>>, <<"EGYPTIAN HIEROGLYPH N030", 78351>>,
    <<"EGYPTIAN HIEROGLYPH N031", 78352>>, <<"EGYPTIAN HIEROGLYPH N032", 78353>>,
    <<"EGYPTIAN HIEROGLYPH N033", 78354>>, <<"EGYPTIAN HIEROGLYPH N033A", 78355>>,
    <<"EGYPTIAN HIEROGLYPH N034", 78356>>, <<"EGYPTIAN HIEROGLYPH N034A", 78357>>,
    <<"EGYPTIAN HIEROGLYPH N035", 78358>>, <<"EGYPTIAN HIEROGLYPH N035A", 78359>>,
    <<"EGYPTIAN HIEROGLYPH N036", 78360>>, <<"EGYPTIAN HIEROGLYPH N037", 78361>>,
    <<"EGYPTIAN HIEROGLYPH N037A", 78362>>, <<"EGYPTIAN HIEROGLYPH N038", 78363>>,
    <<"EGYPTIAN HIEROGLYPH N039", 78364>>, <<"EGYPTIAN HIEROGLYPH N040", 78365>>,
    <<"EGYPTIAN HIEROGLYPH N041", 78366>>, <<"EGYPTIAN HIEROGLYPH N042", 78367>>,
    <<"EGYPTIAN HIEROGLYPH NL001", 78368>>, <<"EGYPTIAN HIEROGLYPH NL002", 78369>>,
    <<"EGYPTIAN HIEROGLYPH NL003", 78370>>, <<"EGYPTIAN HIEROGLYPH NL004", 78371>>,
    <<"EGYPTIAN HIEROGLYPH NL005", 78372>>, <<"EGYPTIAN HIEROGLYPH NL005A", 78373>>,
    <<"EGYPTIAN HIEROGLYPH NL006", 78374>>, <<"EGYPTIAN HIEROGLYPH NL007", 78375>>,
    <<"EGYPTIAN HIEROGLYPH NL008", 78376>>, <<"EGYPTIAN HIEROGLYPH NL009", 78377>>,
    <<"EGYPTIAN HIEROGLYPH NL010", 78378>>, <<"EGYPTIAN HIEROGLYPH NL011", 78379>>,
    <<"EGYPTIAN HIEROGLYPH NL012", 78380>>, <<"EGYPTIAN HIEROGLYPH NL013", 78381>>,
    <<"EGYPTIAN HIEROGLYPH NL014", 78382>>, <<"EGYPTIAN HIEROGLYPH NL015", 78383>>,
    <<"EGYPTIAN HIEROGLYPH NL016", 78384>>, <<"EGYPTIAN HIEROGLYPH NL017", 78385>>,
    <<"EGYPTIAN HIEROGLYPH NL017A", 78386>>, <<"EGYPTIAN HIEROGLYPH NL018", 78387>>,
    <<"EGYPTIAN HIEROGLYPH NL019", 78388>>, <<"EGYPTIAN HIEROGLYPH NL020", 78389>>,
    <<"EGYPTIAN HIEROGLYPH NU001", 78390>>, <<"EGYPTIAN HIEROGLYPH NU002", 78391>>,
    <<"EGYPTIAN HIEROGLYPH NU003", 78392>>, <<"EGYPTIAN HIEROGLYPH NU004", 78393>>,
    <<"EGYPTIAN HIEROGLYPH NU005", 78394>>, <<"EGYPTIAN HIEROGLYPH NU006", 78395>>,
    <<"EGYPTIAN HIEROGLYPH NU007", 78396>>, <<"EGYPTIAN HIEROGLYPH NU008", 78397>>,
    <<"EGYPTIAN HIEROGLYPH NU009", 78398>>, <<"EGYPTIAN HIEROGLYPH NU010", 78399>>,
    <<"EGYPTIAN HIEROGLYPH NU010A", 78400>>, <<"EGYPTIAN HIEROGLYPH NU011", 78401>>,
    <<"EGYPTIAN HIEROGLYPH NU011A", 78402>>, <<"EGYPTIAN HIEROGLYPH NU012", 78403>>,
    <<"EGYPTIAN HIEROGLYPH NU013", 78404>>, <<"EGYPTIAN HIEROGLYPH NU014", 78405>>,
    <<"EGYPTIAN HIEROGLYPH NU015", 78406>>, <<"EGYPTIAN HIEROGLYPH NU016", 78407>>,
    <<"EGYPTIAN HIEROGLYPH NU017", 78408>>, <<"EGYPTIAN HIEROGLYPH NU018", 78409>>,
    <<"EGYPTIAN HIEROGLYPH NU018A", 78410>>, <<"EGYPTIAN HIEROGLYPH NU019", 78411>>,
    <<"EGYPTIAN HIEROGLYPH NU020", 78412>>, <<"EGYPTIAN HIEROGLYPH NU021", 78413>>,
    <<"EGYPTIAN HIEROGLYPH NU022", 78414>>, <<"EGYPTIAN HIEROGLYPH NU022A", 78415>>,
    <<"EGYPTIAN HIEROGLYPH O001", 78416>>, <<"EGYPTIAN HIEROGLYPH O001A", 78417>>,
    <<"EGYPTIAN HIEROGLYPH O002", 78418>>, <<"EGYPTIAN HIEROGLYPH O003", 78419>>,
    <<"EGYPTIAN HIEROGLYPH O004", 78420>>, <<"EGYPTIAN HIEROGLYPH O005", 78421>>,
    <<"EGYPTIAN HIEROGLYPH O005A", 78422>>, <<"EGYPTIAN HIEROGLYPH O006", 78423>>,
    <<"EGYPTIAN HIEROGLYPH O006A", 78424>>, <<"EGYPTIAN HIEROGLYPH O006B", 78425>>,
    <<"EGYPTIAN HIEROGLYPH O006C", 78426>>, <<"EGYPTIAN HIEROGLYPH O006D", 78427>>,
    <<"EGYPTIAN HIEROGLYPH O006E", 78428>>, <<"EGYPTIAN HIEROGLYPH O006F", 78429>>,
    <<"EGYPTIAN HIEROGLYPH O007", 78430>>, <<"EGYPTIAN HIEROGLYPH O008", 78431>>,
    <<"EGYPTIAN HIEROGLYPH O009", 78432>>, <<"EGYPTIAN HIEROGLYPH O010", 78433>>,
    <<"EGYPTIAN HIEROGLYPH O010A", 78434>>, <<"EGYPTIAN HIEROGLYPH O010B", 78435>>,
    <<"EGYPTIAN HIEROGLYPH O010C", 78436>>, <<"EGYPTIAN HIEROGLYPH O011", 78437>>,
    <<"EGYPTIAN HIEROGLYPH O012", 78438>>, <<"EGYPTIAN HIEROGLYPH O013", 78439>>,
    <<"EGYPTIAN HIEROGLYPH O014", 78440>>, <<"EGYPTIAN HIEROGLYPH O015", 78441>>,
    <<"EGYPTIAN HIEROGLYPH O016", 78442>>, <<"EGYPTIAN HIEROGLYPH O017", 78443>>,
    <<"EGYPTIAN HIEROGLYPH O018", 78444>>, <<"EGYPTIAN HIEROGLYPH O019", 78445>>,
    <<"EGYPTIAN HIEROGLYPH O019A", 78446>>, <<"EGYPTIAN HIEROGLYPH O020", 78447>>,
    <<"EGYPTIAN HIEROGLYPH O020A", 78448>>, <<"EGYPTIAN HIEROGLYPH O021", 78449>>,
    <<"EGYPTIAN HIEROGLYPH O022", 78450>>, <<"EGYPTIAN HIEROGLYPH O023", 78451>>,
    <<"EGYPTIAN HIEROGLYPH O024", 78452>>, <<"EGYPTIAN HIEROGLYPH O024A", 78453>>,
    <<"EGYPTIAN HIEROGLYPH O025", 78454>>, <<"EGYPTIAN HIEROGLYPH O025A", 78455>>,
    <<"EGYPTIAN HIEROGLYPH O026", 78456>>, <<"EGYPTIAN HIEROGLYPH O027", 78457>>,
    <<"EGYPTIAN HIEROGLYPH O028", 78458>>, <<"EGYPTIAN HIEROGLYPH O029", 78459>>,
    <<"EGYPTIAN HIEROGLYPH O029A", 78460>>, <<"EGYPTIAN HIEROGLYPH O030", 78461>>,
    <<"EGYPTIAN HIEROGLYPH O030A", 78462>>, <<"EGYPTIAN HIEROGLYPH O031", 78463>>,
    <<"EGYPTIAN HIEROGLYPH O032", 78464>>, <<"EGYPTIAN HIEROGLYPH O033", 78465>>,
    <<"EGYPTIAN HIEROGLYPH O033A", 78466>>, <<"EGYPTIAN HIEROGLYPH O034", 78467>>,
    <<"EGYPTIAN HIEROGLYPH O035", 78468>>, <<"EGYPTIAN HIEROGLYPH O036", 78469>>,
    <<"EGYPTIAN HIEROGLYPH O036A", 78470>>, <<"EGYPTIAN HIEROGLYPH O036B", 78471>>,
    <<"EGYPTIAN HIEROGLYPH O036C", 78472>>, <<"EGYPTIAN HIEROGLYPH O036D", 78473>>,
    <<"EGYPTIAN HIEROGLYPH O037", 78474>>, <<"EGYPTIAN HIEROGLYPH O038", 78475>>,
    <<"EGYPTIAN HIEROGLYPH O039", 78476>>, <<"EGYPTIAN HIEROGLYPH O040", 78477>>,
    <<"EGYPTIAN HIEROGLYPH O041", 78478>>, <<"EGYPTIAN HIEROGLYPH O042", 78479>>,
    <<"EGYPTIAN HIEROGLYPH O043", 78480>>, <<"EGYPTIAN HIEROGLYPH O044", 78481>>,
    <<"EGYPTIAN HIEROGLYPH O045", 78482>>, <<"EGYPTIAN HIEROGLYPH O046", 78483>>,
    <<"EGYPTIAN HIEROGLYPH O047", 78484>>, <<"EGYPTIAN HIEROGLYPH O048", 78485>>,
    <<"EGYPTIAN HIEROGLYPH O049", 78486>>, <<"EGYPTIAN HIEROGLYPH O050", 78487>>,
    <<"EGYPTIAN HIEROGLYPH O050A", 78488>>, <<"EGYPTIAN HIEROGLYPH O050B", 78489>>,
    <<"EGYPTIAN HIEROGLYPH O051", 78490>>, <<"EGYPTIAN HIEROGLYPH P001", 78491>>,
    <<"EGYPTIAN HIEROGLYPH P001A", 78492>>, <<"EGYPTIAN HIEROGLYPH P002", 78493>>,
    <<"EGYPTIAN HIEROGLYPH P003", 78494>>, <<"EGYPTIAN HIEROGLYPH P003A", 78495>>,
    <<"EGYPTIAN HIEROGLYPH P004", 78496>>, <<"EGYPTIAN HIEROGLYPH P005", 78497>>,
    <<"EGYPTIAN HIEROGLYPH P006", 78498>>, <<"EGYPTIAN HIEROGLYPH P007", 78499>>,
    <<"EGYPTIAN HIEROGLYPH P008", 78500>>, <<"EGYPTIAN HIEROGLYPH P009", 78501>>,
    <<"EGYPTIAN HIEROGLYPH P010", 78502>>, <<"EGYPTIAN HIEROGLYPH P011", 78503>>,
    <<"EGYPTIAN HIEROGLYPH Q001", 78504>>, <<"EGYPTIAN HIEROGLYPH Q002", 78505>>,
    <<"EGYPTIAN HIEROGLYPH Q003", 78506>>, <<"EGYPTIAN HIEROGLYPH Q004", 78507>>,
    <<"EGYPTIAN HIEROGLYPH Q005", 78508>>, <<"EGYPTIAN HIEROGLYPH Q006", 78509>>,
    <<"EGYPTIAN HIEROGLYPH Q007", 78510>>, <<"EGYPTIAN HIEROGLYPH R001", 78511>>,
    <<"EGYPTIAN HIEROGLYPH R002", 78512>>, <<"EGYPTIAN HIEROGLYPH R002A", 78513>>,
    <<"EGYPTIAN HIEROGLYPH R003", 78514>>, <<"EGYPTIAN HIEROGLYPH R003A", 78515>>,
    <<"EGYPTIAN HIEROGLYPH R003B", 78516>>, <<"EGYPTIAN HIEROGLYPH R004", 78517>>,
    <<"EGYPTIAN HIEROGLYPH R005", 78518>>, <<"EGYPTIAN HIEROGLYPH R006", 78519>>,
    <<"EGYPTIAN HIEROGLYPH R007", 78520>>, <<"EGYPTIAN HIEROGLYPH R008", 78521>>,
    <<"EGYPTIAN HIEROGLYPH R009", 78522>>, <<"EGYPTIAN HIEROGLYPH R010", 78523>>,
    <<"EGYPTIAN HIEROGLYPH R010A", 78524>>, <<"EGYPTIAN HIEROGLYPH R011", 78525>>,
    <<"EGYPTIAN HIEROGLYPH R012", 78526>>, <<"EGYPTIAN HIEROGLYPH R013", 78527>>,
    <<"EGYPTIAN HIEROGLYPH R014", 78528>>, <<"EGYPTIAN HIEROGLYPH R015", 78529>>,
    <<"EGYPTIAN HIEROGLYPH R016", 78530>>, <<"EGYPTIAN HIEROGLYPH R016A", 78531>>,
    <<"EGYPTIAN HIEROGLYPH R017", 78532>>, <<"EGYPTIAN HIEROGLYPH R018", 78533>>,
    <<"EGYPTIAN HIEROGLYPH R019", 78534>>, <<"EGYPTIAN HIEROGLYPH R020", 78535>>,
    <<"EGYPTIAN HIEROGLYPH R021", 78536>>, <<"EGYPTIAN HIEROGLYPH R022", 78537>>,
    <<"EGYPTIAN HIEROGLYPH R023", 78538>>, <<"EGYPTIAN HIEROGLYPH R024", 78539>>,
    <<"EGYPTIAN HIEROGLYPH R025", 78540>>, <<"EGYPTIAN HIEROGLYPH R026", 78541>>,
    <<"EGYPTIAN HIEROGLYPH R027", 78542>>, <<"EGYPTIAN HIEROGLYPH R028", 78543>>,
    <<"EGYPTIAN HIEROGLYPH R029", 78544>>, <<"EGYPTIAN HIEROGLYPH S001", 78545>>,
    <<"EGYPTIAN HIEROGLYPH S002", 78546>>, <<"EGYPTIAN HIEROGLYPH S002A", 78547>>,
    <<"EGYPTIAN HIEROGLYPH S003", 78548>>, <<"EGYPTIAN HIEROGLYPH S004", 78549>>,
    <<"EGYPTIAN HIEROGLYPH S005", 78550>>, <<"EGYPTIAN HIEROGLYPH S006", 78551>>,
    <<"EGYPTIAN HIEROGLYPH S006A", 78552>>, <<"EGYPTIAN HIEROGLYPH S007", 78553>>,
    <<"EGYPTIAN HIEROGLYPH S008", 78554>>, <<"EGYPTIAN HIEROGLYPH S009", 78555>>,
    <<"EGYPTIAN HIEROGLYPH S010", 78556>>, <<"EGYPTIAN HIEROGLYPH S011", 78557>>,
    <<"EGYPTIAN HIEROGLYPH S012", 78558>>, <<"EGYPTIAN HIEROGLYPH S013", 78559>>,
    <<"EGYPTIAN HIEROGLYPH S014", 78560>>, <<"EGYPTIAN HIEROGLYPH S014A", 78561>>,
    <<"EGYPTIAN HIEROGLYPH S014B", 78562>>, <<"EGYPTIAN HIEROGLYPH S015", 78563>>,
    <<"EGYPTIAN HIEROGLYPH S016", 78564>>, <<"EGYPTIAN HIEROGLYPH S017", 78565>>,
    <<"EGYPTIAN HIEROGLYPH S017A", 78566>>, <<"EGYPTIAN HIEROGLYPH S018", 78567>>,
    <<"EGYPTIAN HIEROGLYPH S019", 78568>>, <<"EGYPTIAN HIEROGLYPH S020", 78569>>,
    <<"EGYPTIAN HIEROGLYPH S021", 78570>>, <<"EGYPTIAN HIEROGLYPH S022", 78571>>,
    <<"EGYPTIAN HIEROGLYPH S023", 78572>>, <<"EGYPTIAN HIEROGLYPH S024", 78573>>,
    <<"EGYPTIAN HIEROGLYPH S025", 78574>>, <<"EGYPTIAN HIEROGLYPH S026", 78575>>,
    <<"EGYPTIAN HIEROGLYPH S026A", 78576>>, <<"EGYPTIAN HIEROGLYPH S026B", 78577>>,
    <<"EGYPTIAN HIEROGLYPH S027", 78578>>, <<"EGYPTIAN HIEROGLYPH S028", 78579>>,
    <<"EGYPTIAN HIEROGLYPH S029", 78580>>, <<"EGYPTIAN HIEROGLYPH S030", 78581>>,
    <<"EGYPTIAN HIEROGLYPH S031", 78582>>, <<"EGYPTIAN HIEROGLYPH S032", 78583>>,
    <<"EGYPTIAN HIEROGLYPH S033", 78584>>, <<"EGYPTIAN HIEROGLYPH S034", 78585>>,
    <<"EGYPTIAN HIEROGLYPH S035", 78586>>, <<"EGYPTIAN HIEROGLYPH S035A", 78587>>,
    <<"EGYPTIAN HIEROGLYPH S036", 78588>>, <<"EGYPTIAN HIEROGLYPH S037", 78589>>,
    <<"EGYPTIAN HIEROGLYPH S038", 78590>>, <<"EGYPTIAN HIEROGLYPH S039", 78591>>,
    <<"EGYPTIAN HIEROGLYPH S040", 78592>>, <<"EGYPTIAN HIEROGLYPH S041", 78593>>,
    <<"EGYPTIAN HIEROGLYPH S042", 78594>>, <<"EGYPTIAN HIEROGLYPH S043", 78595>>,
    <<"EGYPTIAN HIEROGLYPH S044", 78596>>, <<"EGYPTIAN HIEROGLYPH S045", 78597>>,
    <<"EGYPTIAN HIEROGLYPH S046", 78598>>, <<"EGYPTIAN HIEROGLYPH T001", 78599>>,
    <<"EGYPTIAN HIEROGLYPH T002", 78600>>, <<"EGYPTIAN HIEROGLYPH T003", 78601>>,
    <<"EGYPTIAN HIEROGLYPH T003A", 78602>>, <<"EGYPTIAN HIEROGLYPH T004", 78603>>,
    <<"EGYPTIAN HIEROGLYPH T005", 78604>>, <<"EGYPTIAN HIEROGLYPH T006", 78605>>,
    <<"EGYPTIAN HIEROGLYPH T007", 78606>>, <<"EGYPTIAN HIEROGLYPH T007A", 78607>>,
    <<"EGYPTIAN HIEROGLYPH T008", 78608>>, <<"EGYPTIAN HIEROGLYPH T008A", 78609>>,
    <<"EGYPTIAN HIEROGLYPH T009", 78610>>, <<"EGYPTIAN HIEROGLYPH T009A", 78611>>,
    <<"EGYPTIAN HIEROGLYPH T010", 78612>>, <<"EGYPTIAN HIEROGLYPH T011", 78613>>,
    <<"EGYPTIAN HIEROGLYPH T011A", 78614>>, <<"EGYPTIAN HIEROGLYPH T012", 78615>>,
    <<"EGYPTIAN HIEROGLYPH T013", 78616>>, <<"EGYPTIAN HIEROGLYPH T014", 78617>>,
    <<"EGYPTIAN HIEROGLYPH T015", 78618>>, <<"EGYPTIAN HIEROGLYPH T016", 78619>>,
    <<"EGYPTIAN HIEROGLYPH T016A", 78620>>, <<"EGYPTIAN HIEROGLYPH T017", 78621>>,
    <<"EGYPTIAN HIEROGLYPH T018", 78622>>, <<"EGYPTIAN HIEROGLYPH T019", 78623>>,
    <<"EGYPTIAN HIEROGLYPH T020", 78624>>, <<"EGYPTIAN HIEROGLYPH T021", 78625>>,
    <<"EGYPTIAN HIEROGLYPH T022", 78626>>, <<"EGYPTIAN HIEROGLYPH T023", 78627>>,
    <<"EGYPTIAN HIEROGLYPH T024", 78628>>, <<"EGYPTIAN HIEROGLYPH T025", 78629>>,
    <<"EGYPTIAN HIEROGLYPH T026", 78630>>, <<"EGYPTIAN HIEROGLYPH T027", 78631>>,
    <<"EGYPTIAN HIEROGLYPH T028", 78632>>, <<"EGYPTIAN HIEROGLYPH T029", 78633>>,
    <<"EGYPTIAN HIEROGLYPH T030", 78634>>, <<"EGYPTIAN HIEROGLYPH T031", 78635>>,
    <<"EGYPTIAN HIEROGLYPH T032", 78636>>, <<"EGYPTIAN HIEROGLYPH T032A", 78637>>,
    <<"EGYPTIAN HIEROGLYPH T033", 78638>>, <<"EGYPTIAN HIEROGLYPH T033A", 78639>>,
    <<"EGYPTIAN HIEROGLYPH T034", 78640>>, <<"EGYPTIAN HIEROGLYPH T035", 78641>>,
    <<"EGYPTIAN HIEROGLYPH T036", 78642>>, <<"EGYPTIAN HIEROGLYPH U001", 78643>>,
    <<"EGYPTIAN HIEROGLYPH U002", 78644>>, <<"EGYPTIAN HIEROGLYPH U003", 78645>>,
    <<"EGYPTIAN HIEROGLYPH U004", 78646>>, <<"EGYPTIAN HIEROGLYPH U005", 78647>>,
    <<"EGYPTIAN HIEROGLYPH U006", 78648>>, <<"EGYPTIAN HIEROGLYPH U006A", 78649>>,
    <<"EGYPTIAN HIEROGLYPH U006B", 78650>>, <<"EGYPTIAN HIEROGLYPH U007", 78651>>,
    <<"EGYPTIAN HIEROGLYPH U008", 78652>>, <<"EGYPTIAN HIEROGLYPH U009", 78653>>,
    <<"EGYPTIAN HIEROGLYPH U010", 78654>>, <<"EGYPTIAN HIEROGLYPH U011", 78655>>,
    <<"EGYPTIAN HIEROGLYPH U012", 78656>>, <<"EGYPTIAN HIEROGLYPH U013", 78657>>,
    <<"EGYPTIAN HIEROGLYPH U014", 78658>>, <<"EGYPTIAN HIEROGLYPH U015", 78659>>,
    <<"EGYPTIAN HIEROGLYPH U016", 78660>>, <<"EGYPTIAN HIEROGLYPH U017", 78661>>,
    <<"EGYPTIAN HIEROGLYPH U018", 78662>>, <<"EGYPTIAN HIEROGLYPH U019", 78663>>,
    <<"EGYPTIAN HIEROGLYPH U020", 78664>>, <<"EGYPTIAN HIEROGLYPH U021", 78665>>,
    <<"EGYPTIAN HIEROGLYPH U022", 78666>>, <<"EGYPTIAN HIEROGLYPH U023", 78667>>,
    <<"EGYPTIAN HIEROGLYPH U023A", 78668>>, <<"EGYPTIAN HIEROGLYPH U024", 78669>>,
    <<"EGYPTIAN HIEROGLYPH U025", 78670>>, <<"EGYPTIAN HIEROGLYPH U026", 78671>>,
    <<"EGYPTIAN HIEROGLYPH U027", 78672>>, <<"EGYPTIAN HIEROGLYPH U028", 78673>>,
    <<"EGYPTIAN HIEROGLYPH U029", 78674>>, <<"EGYPTIAN HIEROGLYPH U029A", 78675>>,
    <<"EGYPTIAN HIEROGLYPH U030", 78676>>, <<"EGYPTIAN HIEROGLYPH U031", 78677>>,
    <<"EGYPTIAN HIEROGLYPH U032", 78678>>, <<"EGYPTIAN HIEROGLYPH U032A", 78679>>,
    <<"EGYPTIAN HIEROGLYPH U033", 78680>>, <<"EGYPTIAN HIEROGLYPH U034", 78681>>,
    <<"EGYPTIAN HIEROGLYPH U035", 78682>>, <<"EGYPTIAN HIEROGLYPH U036", 78683>>,
    <<"EGYPTIAN HIEROGLYPH U037", 78684>>, <<"EGYPTIAN HIEROGLYPH U038", 78685>>,
    <<"EGYPTIAN HIEROGLYPH U039", 78686>>, <<"EGYPTIAN HIEROGLYPH U040", 78687>>,
    <<"EGYPTIAN HIEROGLYPH U041", 78688>>, <<"EGYPTIAN HIEROGLYPH U042", 78689>>,
    <<"EGYPTIAN HIEROGLYPH V001", 78690>>, <<"EGYPTIAN HIEROGLYPH V001A", 78691>>,
    <<"EGYPTIAN HIEROGLYPH V001B", 78692>>, <<"EGYPTIAN HIEROGLYPH V001C", 78693>>,
    <<"EGYPTIAN HIEROGLYPH V001D", 78694>>, <<"EGYPTIAN HIEROGLYPH V001E", 78695>>,
    <<"EGYPTIAN HIEROGLYPH V001F", 78696>>, <<"EGYPTIAN HIEROGLYPH V001G", 78697>>,
    <<"EGYPTIAN HIEROGLYPH V001H", 78698>>, <<"EGYPTIAN HIEROGLYPH V001I", 78699>>,
    <<"EGYPTIAN HIEROGLYPH V002", 78700>>, <<"EGYPTIAN HIEROGLYPH V002A", 78701>>,
    <<"EGYPTIAN HIEROGLYPH V003", 78702>>, <<"EGYPTIAN HIEROGLYPH V004", 78703>>,
    <<"EGYPTIAN HIEROGLYPH V005", 78704>>, <<"EGYPTIAN HIEROGLYPH V006", 78705>>,
    <<"EGYPTIAN HIEROGLYPH V007", 78706>>, <<"EGYPTIAN HIEROGLYPH V007A", 78707>>,
    <<"EGYPTIAN HIEROGLYPH V007B", 78708>>, <<"EGYPTIAN HIEROGLYPH V008", 78709>>,
    <<"EGYPTIAN HIEROGLYPH V009", 78710>>, <<"EGYPTIAN HIEROGLYPH V010", 78711>>,
    <<"EGYPTIAN HIEROGLYPH V011", 78712>>, <<"EGYPTIAN HIEROGLYPH V011A", 78713>>,
    <<"EGYPTIAN HIEROGLYPH V011B", 78714>>, <<"EGYPTIAN HIEROGLYPH V011C", 78715>>,
    <<"EGYPTIAN HIEROGLYPH V012", 78716>>, <<"EGYPTIAN HIEROGLYPH V012A", 78717>>,
    <<"EGYPTIAN HIEROGLYPH V012B", 78718>>, <<"EGYPTIAN HIEROGLYPH V013", 78719>>,
    <<"EGYPTIAN HIEROGLYPH V014", 78720>>, <<"EGYPTIAN HIEROGLYPH V015", 78721>>,
    <<"EGYPTIAN HIEROGLYPH V016", 78722>>, <<"EGYPTIAN HIEROGLYPH V017", 78723>>,
    <<"EGYPTIAN HIEROGLYPH V018", 78724>>, <<"EGYPTIAN HIEROGLYPH V019", 78725>>,
    <<"EGYPTIAN HIEROGLYPH V020", 78726>>, <<"EGYPTIAN HIEROGLYPH V020A", 78727>>,
    <<"EGYPTIAN HIEROGLYPH V020B", 78728>>, <<"EGYPTIAN HIEROGLYPH V020C", 78729>>,
    <<"EGYPTIAN HIEROGLYPH V020D", 78730>>, <<"EGYPTIAN HIEROGLYPH V020E", 78731>>,
    <<"EGYPTIAN HIEROGLYPH V020F", 78732>>, <<"EGYPTIAN HIEROGLYPH V020G", 78733>>,
    <<"EGYPTIAN HIEROGLYPH V020H", 78734>>, <<"EGYPTIAN HIEROGLYPH V020I", 78735>>,
    <<"EGYPTIAN HIEROGLYPH V020J", 78736>>, <<"EGYPTIAN HIEROGLYPH V020K", 78737>>,
    <<"EGYPTIAN HIEROGLYPH V020L", 78738>>, <<"EGYPTIAN HIEROGLYPH V021", 78739>>,
    <<"EGYPTIAN HIEROGLYPH V022", 78740>>, <<"EGYPTIAN HIEROGLYPH V023", 78741>>,
    <<"EGYPTIAN HIEROGLYPH V023A", 78742>>, <<"EGYPTIAN HIEROGLYPH V024", 78743>>,
    <<"EGYPTIAN HIEROGLYPH V025", 78744>>, <<"EGYPTIAN HIEROGLYPH V026", 78745>>,
    <<"EGYPTIAN HIEROGLYPH V027", 78746>>, <<"EGYPTIAN HIEROGLYPH V028", 78747>>,
    <<"EGYPTIAN HIEROGLYPH V028A", 78748>>, <<"EGYPTIAN HIEROGLYPH V029", 78749>>,
    <<"EGYPTIAN HIEROGLYPH V029A", 78750>>, <<"EGYPTIAN HIEROGLYPH V030", 78751>>,
    <<"EGYPTIAN HIEROGLYPH V030A", 78752>>, <<"EGYPTIAN HIEROGLYPH V031", 78753>>,
    <<"EGYPTIAN HIEROGLYPH V031A", 78754>>, <<"EGYPTIAN HIEROGLYPH V032", 78755>>,
    <<"EGYPTIAN HIEROGLYPH V033", 78756>>, <<"EGYPTIAN HIEROGLYPH V033A", 78757>>,
    <<"EGYPTIAN HIEROGLYPH V034", 78758>>, <<"EGYPTIAN HIEROGLYPH V035", 78759>>,
    <<"EGYPTIAN HIEROGLYPH V036", 78760>>, <<"EGYPTIAN HIEROGLYPH V037", 78761>>,
    <<"EGYPTIAN HIEROGLYPH V037A", 78762>>, <<"EGYPTIAN HIEROGLYPH V038", 78763>>,
    <<"EGYPTIAN HIEROGLYPH V039", 78764>>, <<"EGYPTIAN HIEROGLYPH V040", 78765>>,
    <<"EGYPTIAN HIEROGLYPH V040A", 78766>>, <<"EGYPTIAN HIEROGLYPH W001", 78767>>,
    <<"EGYPTIAN HIEROGLYPH W002", 78768>>, <<"EGYPTIAN HIEROGLYPH W003", 78769>>,
    <<"EGYPTIAN HIEROGLYPH W003A", 78770>>, <<"EGYPTIAN HIEROGLYPH W004", 78771>>,
    <<"EGYPTIAN HIEROGLYPH W005", 78772>>, <<"EGYPTIAN HIEROGLYPH W006", 78773>>,
    <<"EGYPTIAN HIEROGLYPH W007", 78774>>, <<"EGYPTIAN HIEROGLYPH W008", 78775>>,
    <<"EGYPTIAN HIEROGLYPH W009", 78776>>, <<"EGYPTIAN HIEROGLYPH W009A", 78777>>,
    <<"EGYPTIAN HIEROGLYPH W010", 78778>>, <<"EGYPTIAN HIEROGLYPH W010A", 78779>>,
    <<"EGYPTIAN HIEROGLYPH W011", 78780>>, <<"EGYPTIAN HIEROGLYPH W012", 78781>>,
    <<"EGYPTIAN HIEROGLYPH W013", 78782>>, <<"EGYPTIAN HIEROGLYPH W014", 78783>>,
    <<"EGYPTIAN HIEROGLYPH W014A", 78784>>, <<"EGYPTIAN HIEROGLYPH W015", 78785>>,
    <<"EGYPTIAN HIEROGLYPH W016", 78786>>, <<"EGYPTIAN HIEROGLYPH W017", 78787>>,
    <<"EGYPTIAN HIEROGLYPH W017A", 78788>>, <<"EGYPTIAN HIEROGLYPH W018", 78789>>,
    <<"EGYPTIAN HIEROGLYPH W018A", 78790>>, <<"EGYPTIAN HIEROGLYPH W019", 78791>>,
    <<"EGYPTIAN HIEROGLYPH W020", 78792>>, <<"EGYPTIAN HIEROGLYPH W021", 78793>>,
    <<"EGYPTIAN HIEROGLYPH W022", 78794>>, <<"EGYPTIAN HIEROGLYPH W023", 78795>>,
    <<"EGYPTIAN HIEROGLYPH W024", 78796>>, <<"EGYPTIAN HIEROGLYPH W024A", 78797>>,
    <<"EGYPTIAN HIEROGLYPH W025", 78798>>, <<"EGYPTIAN HIEROGLYPH X001", 78799>>,
    <<"EGYPTIAN HIEROGLYPH X002", 78800>>, <<"EGYPTIAN HIEROGLYPH X003", 78801>>,
    <<"EGYPTIAN HIEROGLYPH X004", 78802>>, <<"EGYPTIAN HIEROGLYPH X004A", 78803>>,
    <<"EGYPTIAN HIEROGLYPH X004B", 78804>>, <<"EGYPTIAN HIEROGLYPH X005", 78805>>,
    <<"EGYPTIAN HIEROGLYPH X006", 78806>>, <<"EGYPTIAN HIEROGLYPH X006A", 78807>>,
    <<"EGYPTIAN HIEROGLYPH X007", 78808>>, <<"EGYPTIAN HIEROGLYPH X008", 78809>>,
    <<"EGYPTIAN HIEROGLYPH X008A", 78810>>, <<"EGYPTIAN HIEROGLYPH Y001", 78811>>,
    <<"EGYPTIAN HIEROGLYPH Y001A", 78812>>, <<"EGYPTIAN HIEROGLYPH Y002", 78813>>,
    <<"EGYPTIAN HIEROGLYPH Y003", 78814>>, <<"EGYPTIAN HIEROGLYPH Y004", 78815>>,
    <<"EGYPTIAN HIEROGLYPH Y005", 78816>>, <<"EGYPTIAN HIEROGLYPH Y006", 78817>>,
    <<"EGYPTIAN HIEROGLYPH Y007", 78818>>, <<"EGYPTIAN HIEROGLYPH Y008", 78819>>,
    <<"EGYPTIAN HIEROGLYPH Z001", 78820>>, <<"EGYPTIAN HIEROGLYPH Z002", 78821>>,
    <<"EGYPTIAN HIEROGLYPH Z002A", 78822>>, <<"EGYPTIAN HIEROGLYPH Z002B", 78823>>,
    <<"EGYPTIAN HIEROGLYPH Z002C", 78824>>, <<"EGYPTIAN HIEROGLYPH Z002D", 78825>>,
    <<"EGYPTIAN HIEROGLYPH Z003", 78826>>, <<"EGYPTIAN HIEROGLYPH Z003A", 78827>>,
    <<"EGYPTIAN HIEROGLYPH Z003B", 78828>>, <<"EGYPTIAN HIEROGLYPH Z004", 78829>>,
    <<"EGYPTIAN HIEROGLYPH Z004A", 78830>>, <<"EGYPTIAN HIEROGLYPH Z005", 78831>>,
    <<"EGYPTIAN HIEROGLYPH Z005A", 78832>>, <<"EGYPTIAN HIEROGLYPH Z006", 78833>>,
    <<"EGYPTIAN HIEROGLYPH Z007", 78834>>, <<"EGYPTIAN HIEROGLYPH Z008", 78835>>,
    <<"EGYPTIAN HIEROGLYPH Z009", 78836>>, <<"EGYPTIAN HIEROGLYPH Z010", 78837>>,
    <<"EGYPTIAN HIEROGLYPH Z011", 78838>>, <<"EGYPTIAN HIEROGLYPH Z012", 78839>>,
    <<"EGYPTIAN HIEROGLYPH Z013", 78840>>, <<"EGYPTIAN HIEROGLYPH Z014", 78841>>,
    <<"EGYPTIAN HIEROGLYPH Z015", 78842>>, <<"EGYPTIAN HIEROGLYPH Z015A", 78843>>,
    <<"EGYPTIAN HIEROGLYPH Z015B", 78844>>, <<"EGYPTIAN HIEROGLYPH Z015C", 78845>>,
    <<"EGYPTIAN HIEROGLYPH Z015D", 78846>>, <<"EGYPTIAN HIEROGLYPH Z015E", 78847>>,
    <<"EGYPTIAN HIEROGLYPH Z015F", 78848>>, <<"EGYPTIAN HIEROGLYPH Z015G", 78849>>,
    <<"EGYPTIAN HIEROGLYPH Z015H", 78850>>, <<"EGYPTIAN HIEROGLYPH Z015I", 78851>>,
    <<"EGYPTIAN HIEROGLYPH Z016", 78852>>, <<"EGYPTIAN HIEROGLYPH Z016A", 78853>>,
    <<"EGYPTIAN HIEROGLYPH Z016B", 78854>>, <<"EGYPTIAN HIEROGLYPH Z016C", 78855>>,
    <<"EGYPTIAN HIEROGLYPH Z016D", 78856>>, <<"EGYPTIAN HIEROGLYPH Z016E", 78857>>,
    <<"EGYPTIAN HIEROGLYPH Z016F", 78858>>, <<"EGYPTIAN HIEROGLYPH Z016G", 78859>>,
    <<"EGYPTIAN HIEROGLYPH Z016H", 78860>>, <<"EGYPTIAN HIEROGLYPH AA001", 78861>>,
    <<"EGYPTIAN HIEROGLYPH AA002", 78862>>, <<"EGYPTIAN HIEROGLYPH AA003", 78863>>,
    <<"EGYPTIAN HIEROGLYPH AA004", 78864>>, <<"EGYPTIAN HIEROGLYPH AA005", 78865>>,
    <<"EGYPTIAN HIEROGLYPH AA006", 78866>>, <<"EGYPTIAN HIEROGLYPH AA007", 78867>>,
    <<"EGYPTIAN HIEROGLYPH AA007A", 78868>>, <<"EGYPTIAN HIEROGLYPH AA007B", 78869>>,
    <<"EGYPTIAN HIEROGLYPH AA008", 78870>>, <<"EGYPTIAN HIEROGLYPH AA009", 78871>>,
    <<"EGYPTIAN HIEROGLYPH AA010", 78872>>, <<"EGYPTIAN HIEROGLYPH AA011", 78873>>,
    <<"EGYPTIAN HIEROGLYPH AA012", 78874>>, <<"EGYPTIAN HIEROGLYPH AA013", 78875>>,
    <<"EGYPTIAN HIEROGLYPH AA014", 78876>>, <<"EGYPTIAN HIEROGLYPH AA015", 78877>>,
    <<"EGYPTIAN HIEROGLYPH AA016", 78878>>, <<"EGYPTIAN HIEROGLYPH AA017", 78879>>,
    <<"EGYPTIAN HIEROGLYPH AA018", 78880>>, <<"EGYPTIAN HIEROGLYPH AA019", 78881>>,
    <<"EGYPTIAN HIEROGLYPH AA020", 78882>>, <<"EGYPTIAN HIEROGLYPH AA021", 78883>>,
    <<"EGYPTIAN HIEROGLYPH AA022", 78884>>, <<"EGYPTIAN HIEROGLYPH AA023", 78885>>,
    <<"EGYPTIAN HIEROGLYPH AA024", 78886>>, <<"EGYPTIAN HIEROGLYPH AA025", 78887>>,
    <<"EGYPTIAN HIEROGLYPH AA026", 78888>>, <<"EGYPTIAN HIEROGLYPH AA027", 78889>>,
    <<"EGYPTIAN HIEROGLYPH AA028", 78890>>, <<"EGYPTIAN HIEROGLYPH AA029", 78891>>,
    <<"EGYPTIAN HIEROGLYPH AA030", 78892>>, <<"EGYPTIAN HIEROGLYPH AA031", 78893>>,
    <<"EGYPTIAN HIEROGLYPH AA032", 78894>>, <<"EGYPTIAN HIEROGLYPH VERTICAL JOINER", 78896>>,
    <<"EGYPTIAN HIEROGLYPH HORIZONTAL JOINER", 78897>>,
    <<"EGYPTIAN HIEROGLYPH INSERT AT TOP START", 78898>>,
    <<"EGYPTIAN HIEROGLYPH INSERT AT BOTTOM START", 78899>>,
    <<"EGYPTIAN HIEROGLYPH INSERT AT TOP END", 78900>>,
    <<"EGYPTIAN HIEROGLYPH INSERT AT BOTTOM END", 78901>>,
    <<"EGYPTIAN HIEROGLYPH OVERLAY MIDDLE", 78902>>, <<"EGYPTIAN HIEROGLYPH BEGIN SEGMENT", 78903>>,
    <<"EGYPTIAN HIEROGLYPH END SEGMENT", 78904>>, <<"ANATOLIAN HIEROGLYPH A001", 82944>>,
    <<"ANATOLIAN HIEROGLYPH A002", 82945>>, <<"ANATOLIAN HIEROGLYPH A003", 82946>>,
    <<"ANATOLIAN HIEROGLYPH A004", 82947>>, <<"ANATOLIAN HIEROGLYPH A005", 82948>>,
    <<"ANATOLIAN HIEROGLYPH A006", 82949>>, <<"ANATOLIAN HIEROGLYPH A007", 82950>>,
    <<"ANATOLIAN HIEROGLYPH A008", 82951>>, <<"ANATOLIAN HIEROGLYPH A009", 82952>>,
    <<"ANATOLIAN HIEROGLYPH A010", 82953>>, <<"ANATOLIAN HIEROGLYPH A010A", 82954>>,
    <<"ANATOLIAN HIEROGLYPH A011", 82955>>, <<"ANATOLIAN HIEROGLYPH A012", 82956>>,
    <<"ANATOLIAN HIEROGLYPH A013", 82957>>, <<"ANATOLIAN HIEROGLYPH A014", 82958>>,
    <<"ANATOLIAN HIEROGLYPH A015", 82959>>, <<"ANATOLIAN HIEROGLYPH A016", 82960>>,
    <<"ANATOLIAN HIEROGLYPH A017", 82961>>, <<"ANATOLIAN HIEROGLYPH A018", 82962>>,
    <<"ANATOLIAN HIEROGLYPH A019", 82963>>, <<"ANATOLIAN HIEROGLYPH A020", 82964>>,
    <<"ANATOLIAN HIEROGLYPH A021", 82965>>, <<"ANATOLIAN HIEROGLYPH A022", 82966>>,
    <<"ANATOLIAN HIEROGLYPH A023", 82967>>, <<"ANATOLIAN HIEROGLYPH A024", 82968>>,
    <<"ANATOLIAN HIEROGLYPH A025", 82969>>, <<"ANATOLIAN HIEROGLYPH A026", 82970>>,
    <<"ANATOLIAN HIEROGLYPH A026A", 82971>>, <<"ANATOLIAN HIEROGLYPH A027", 82972>>,
    <<"ANATOLIAN HIEROGLYPH A028", 82973>>, <<"ANATOLIAN HIEROGLYPH A029", 82974>>,
    <<"ANATOLIAN HIEROGLYPH A030", 82975>>, <<"ANATOLIAN HIEROGLYPH A031", 82976>>,
    <<"ANATOLIAN HIEROGLYPH A032", 82977>>, <<"ANATOLIAN HIEROGLYPH A033", 82978>>,
    <<"ANATOLIAN HIEROGLYPH A034", 82979>>, <<"ANATOLIAN HIEROGLYPH A035", 82980>>,
    <<"ANATOLIAN HIEROGLYPH A036", 82981>>, <<"ANATOLIAN HIEROGLYPH A037", 82982>>,
    <<"ANATOLIAN HIEROGLYPH A038", 82983>>, <<"ANATOLIAN HIEROGLYPH A039", 82984>>,
    <<"ANATOLIAN HIEROGLYPH A039A", 82985>>, <<"ANATOLIAN HIEROGLYPH A040", 82986>>,
    <<"ANATOLIAN HIEROGLYPH A041", 82987>>, <<"ANATOLIAN HIEROGLYPH A041A", 82988>>,
    <<"ANATOLIAN HIEROGLYPH A042", 82989>>, <<"ANATOLIAN HIEROGLYPH A043", 82990>>,
    <<"ANATOLIAN HIEROGLYPH A044", 82991>>, <<"ANATOLIAN HIEROGLYPH A045", 82992>>,
    <<"ANATOLIAN HIEROGLYPH A045A", 82993>>, <<"ANATOLIAN HIEROGLYPH A046", 82994>>,
    <<"ANATOLIAN HIEROGLYPH A046A", 82995>>, <<"ANATOLIAN HIEROGLYPH A046B", 82996>>,
    <<"ANATOLIAN HIEROGLYPH A047", 82997>>, <<"ANATOLIAN HIEROGLYPH A048", 82998>>,
    <<"ANATOLIAN HIEROGLYPH A049", 82999>>, <<"ANATOLIAN HIEROGLYPH A050", 83000>>,
    <<"ANATOLIAN HIEROGLYPH A051", 83001>>, <<"ANATOLIAN HIEROGLYPH A052", 83002>>,
    <<"ANATOLIAN HIEROGLYPH A053", 83003>>, <<"ANATOLIAN HIEROGLYPH A054", 83004>>,
    <<"ANATOLIAN HIEROGLYPH A055", 83005>>, <<"ANATOLIAN HIEROGLYPH A056", 83006>>,
    <<"ANATOLIAN HIEROGLYPH A057", 83007>>, <<"ANATOLIAN HIEROGLYPH A058", 83008>>,
    <<"ANATOLIAN HIEROGLYPH A059", 83009>>, <<"ANATOLIAN HIEROGLYPH A060", 83010>>,
    <<"ANATOLIAN HIEROGLYPH A061", 83011>>, <<"ANATOLIAN HIEROGLYPH A062", 83012>>,
    <<"ANATOLIAN HIEROGLYPH A063", 83013>>, <<"ANATOLIAN HIEROGLYPH A064", 83014>>,
    <<"ANATOLIAN HIEROGLYPH A065", 83015>>, <<"ANATOLIAN HIEROGLYPH A066", 83016>>,
    <<"ANATOLIAN HIEROGLYPH A066A", 83017>>, <<"ANATOLIAN HIEROGLYPH A066B", 83018>>,
    <<"ANATOLIAN HIEROGLYPH A066C", 83019>>, <<"ANATOLIAN HIEROGLYPH A067", 83020>>,
    <<"ANATOLIAN HIEROGLYPH A068", 83021>>, <<"ANATOLIAN HIEROGLYPH A069", 83022>>,
    <<"ANATOLIAN HIEROGLYPH A070", 83023>>, <<"ANATOLIAN HIEROGLYPH A071", 83024>>,
    <<"ANATOLIAN HIEROGLYPH A072", 83025>>, <<"ANATOLIAN HIEROGLYPH A073", 83026>>,
    <<"ANATOLIAN HIEROGLYPH A074", 83027>>, <<"ANATOLIAN HIEROGLYPH A075", 83028>>,
    <<"ANATOLIAN HIEROGLYPH A076", 83029>>, <<"ANATOLIAN HIEROGLYPH A077", 83030>>,
    <<"ANATOLIAN HIEROGLYPH A078", 83031>>, <<"ANATOLIAN HIEROGLYPH A079", 83032>>,
    <<"ANATOLIAN HIEROGLYPH A080", 83033>>, <<"ANATOLIAN HIEROGLYPH A081", 83034>>,
    <<"ANATOLIAN HIEROGLYPH A082", 83035>>, <<"ANATOLIAN HIEROGLYPH A083", 83036>>,
    <<"ANATOLIAN HIEROGLYPH A084", 83037>>, <<"ANATOLIAN HIEROGLYPH A085", 83038>>,
    <<"ANATOLIAN HIEROGLYPH A086", 83039>>, <<"ANATOLIAN HIEROGLYPH A087", 83040>>,
    <<"ANATOLIAN HIEROGLYPH A088", 83041>>, <<"ANATOLIAN HIEROGLYPH A089", 83042>>,
    <<"ANATOLIAN HIEROGLYPH A090", 83043>>, <<"ANATOLIAN HIEROGLYPH A091", 83044>>,
    <<"ANATOLIAN HIEROGLYPH A092", 83045>>, <<"ANATOLIAN HIEROGLYPH A093", 83046>>,
    <<"ANATOLIAN HIEROGLYPH A094", 83047>>, <<"ANATOLIAN HIEROGLYPH A095", 83048>>,
    <<"ANATOLIAN HIEROGLYPH A096", 83049>>, <<"ANATOLIAN HIEROGLYPH A097", 83050>>,
    <<"ANATOLIAN HIEROGLYPH A097A", 83051>>, <<"ANATOLIAN HIEROGLYPH A098", 83052>>,
    <<"ANATOLIAN HIEROGLYPH A098A", 83053>>, <<"ANATOLIAN HIEROGLYPH A099", 83054>>,
    <<"ANATOLIAN HIEROGLYPH A100", 83055>>, <<"ANATOLIAN HIEROGLYPH A100A", 83056>>,
    <<"ANATOLIAN HIEROGLYPH A101", 83057>>, <<"ANATOLIAN HIEROGLYPH A101A", 83058>>,
    <<"ANATOLIAN HIEROGLYPH A102", 83059>>, <<"ANATOLIAN HIEROGLYPH A102A", 83060>>,
    <<"ANATOLIAN HIEROGLYPH A103", 83061>>, <<"ANATOLIAN HIEROGLYPH A104", 83062>>,
    <<"ANATOLIAN HIEROGLYPH A104A", 83063>>, <<"ANATOLIAN HIEROGLYPH A104B", 83064>>,
    <<"ANATOLIAN HIEROGLYPH A104C", 83065>>, <<"ANATOLIAN HIEROGLYPH A105", 83066>>,
    <<"ANATOLIAN HIEROGLYPH A105A", 83067>>, <<"ANATOLIAN HIEROGLYPH A105B", 83068>>,
    <<"ANATOLIAN HIEROGLYPH A106", 83069>>, <<"ANATOLIAN HIEROGLYPH A107", 83070>>,
    <<"ANATOLIAN HIEROGLYPH A107A", 83071>>, <<"ANATOLIAN HIEROGLYPH A107B", 83072>>,
    <<"ANATOLIAN HIEROGLYPH A107C", 83073>>, <<"ANATOLIAN HIEROGLYPH A108", 83074>>,
    <<"ANATOLIAN HIEROGLYPH A109", 83075>>, <<"ANATOLIAN HIEROGLYPH A110", 83076>>,
    <<"ANATOLIAN HIEROGLYPH A110A", 83077>>, <<"ANATOLIAN HIEROGLYPH A110B", 83078>>,
    <<"ANATOLIAN HIEROGLYPH A111", 83079>>, <<"ANATOLIAN HIEROGLYPH A112", 83080>>,
    <<"ANATOLIAN HIEROGLYPH A113", 83081>>, <<"ANATOLIAN HIEROGLYPH A114", 83082>>,
    <<"ANATOLIAN HIEROGLYPH A115", 83083>>, <<"ANATOLIAN HIEROGLYPH A115A", 83084>>,
    <<"ANATOLIAN HIEROGLYPH A116", 83085>>, <<"ANATOLIAN HIEROGLYPH A117", 83086>>,
    <<"ANATOLIAN HIEROGLYPH A118", 83087>>, <<"ANATOLIAN HIEROGLYPH A119", 83088>>,
    <<"ANATOLIAN HIEROGLYPH A120", 83089>>, <<"ANATOLIAN HIEROGLYPH A121", 83090>>,
    <<"ANATOLIAN HIEROGLYPH A122", 83091>>, <<"ANATOLIAN HIEROGLYPH A123", 83092>>,
    <<"ANATOLIAN HIEROGLYPH A124", 83093>>, <<"ANATOLIAN HIEROGLYPH A125", 83094>>,
    <<"ANATOLIAN HIEROGLYPH A125A", 83095>>, <<"ANATOLIAN HIEROGLYPH A126", 83096>>,
    <<"ANATOLIAN HIEROGLYPH A127", 83097>>, <<"ANATOLIAN HIEROGLYPH A128", 83098>>,
    <<"ANATOLIAN HIEROGLYPH A129", 83099>>, <<"ANATOLIAN HIEROGLYPH A130", 83100>>,
    <<"ANATOLIAN HIEROGLYPH A131", 83101>>, <<"ANATOLIAN HIEROGLYPH A132", 83102>>,
    <<"ANATOLIAN HIEROGLYPH A133", 83103>>, <<"ANATOLIAN HIEROGLYPH A134", 83104>>,
    <<"ANATOLIAN HIEROGLYPH A135", 83105>>, <<"ANATOLIAN HIEROGLYPH A135A", 83106>>,
    <<"ANATOLIAN HIEROGLYPH A136", 83107>>, <<"ANATOLIAN HIEROGLYPH A137", 83108>>,
    <<"ANATOLIAN HIEROGLYPH A138", 83109>>, <<"ANATOLIAN HIEROGLYPH A139", 83110>>,
    <<"ANATOLIAN HIEROGLYPH A140", 83111>>, <<"ANATOLIAN HIEROGLYPH A141", 83112>>,
    <<"ANATOLIAN HIEROGLYPH A142", 83113>>, <<"ANATOLIAN HIEROGLYPH A143", 83114>>,
    <<"ANATOLIAN HIEROGLYPH A144", 83115>>, <<"ANATOLIAN HIEROGLYPH A145", 83116>>,
    <<"ANATOLIAN HIEROGLYPH A146", 83117>>, <<"ANATOLIAN HIEROGLYPH A147", 83118>>,
    <<"ANATOLIAN HIEROGLYPH A148", 83119>>, <<"ANATOLIAN HIEROGLYPH A149", 83120>>,
    <<"ANATOLIAN HIEROGLYPH A150", 83121>>, <<"ANATOLIAN HIEROGLYPH A151", 83122>>,
    <<"ANATOLIAN HIEROGLYPH A152", 83123>>, <<"ANATOLIAN HIEROGLYPH A153", 83124>>,
    <<"ANATOLIAN HIEROGLYPH A154", 83125>>, <<"ANATOLIAN HIEROGLYPH A155", 83126>>,
    <<"ANATOLIAN HIEROGLYPH A156", 83127>>, <<"ANATOLIAN HIEROGLYPH A157", 83128>>,
    <<"ANATOLIAN HIEROGLYPH A158", 83129>>, <<"ANATOLIAN HIEROGLYPH A159", 83130>>,
    <<"ANATOLIAN HIEROGLYPH A160", 83131>>, <<"ANATOLIAN HIEROGLYPH A161", 83132>>,
    <<"ANATOLIAN HIEROGLYPH A162", 83133>>, <<"ANATOLIAN HIEROGLYPH A163", 83134>>,
    <<"ANATOLIAN HIEROGLYPH A164", 83135>>, <<"ANATOLIAN HIEROGLYPH A165", 83136>>,
    <<"ANATOLIAN HIEROGLYPH A166", 83137>>, <<"ANATOLIAN HIEROGLYPH A167", 83138>>,
    <<"ANATOLIAN HIEROGLYPH A168", 83139>>, <<"ANATOLIAN HIEROGLYPH A169", 83140>>,
    <<"ANATOLIAN HIEROGLYPH A170", 83141>>, <<"ANATOLIAN HIEROGLYPH A171", 83142>>,
    <<"ANATOLIAN HIEROGLYPH A172", 83143>>, <<"ANATOLIAN HIEROGLYPH A173", 83144>>,
    <<"ANATOLIAN HIEROGLYPH A174", 83145>>, <<"ANATOLIAN HIEROGLYPH A175", 83146>>,
    <<"ANATOLIAN HIEROGLYPH A176", 83147>>, <<"ANATOLIAN HIEROGLYPH A177", 83148>>,
    <<"ANATOLIAN HIEROGLYPH A178", 83149>>, <<"ANATOLIAN HIEROGLYPH A179", 83150>>,
    <<"ANATOLIAN HIEROGLYPH A180", 83151>>, <<"ANATOLIAN HIEROGLYPH A181", 83152>>,
    <<"ANATOLIAN HIEROGLYPH A182", 83153>>, <<"ANATOLIAN HIEROGLYPH A183", 83154>>,
    <<"ANATOLIAN HIEROGLYPH A184", 83155>>, <<"ANATOLIAN HIEROGLYPH A185", 83156>>,
    <<"ANATOLIAN HIEROGLYPH A186", 83157>>, <<"ANATOLIAN HIEROGLYPH A187", 83158>>,
    <<"ANATOLIAN HIEROGLYPH A188", 83159>>, <<"ANATOLIAN HIEROGLYPH A189", 83160>>,
    <<"ANATOLIAN HIEROGLYPH A190", 83161>>, <<"ANATOLIAN HIEROGLYPH A191", 83162>>,
    <<"ANATOLIAN HIEROGLYPH A192", 83163>>, <<"ANATOLIAN HIEROGLYPH A193", 83164>>,
    <<"ANATOLIAN HIEROGLYPH A194", 83165>>, <<"ANATOLIAN HIEROGLYPH A195", 83166>>,
    <<"ANATOLIAN HIEROGLYPH A196", 83167>>, <<"ANATOLIAN HIEROGLYPH A197", 83168>>,
    <<"ANATOLIAN HIEROGLYPH A198", 83169>>, <<"ANATOLIAN HIEROGLYPH A199", 83170>>,
    <<"ANATOLIAN HIEROGLYPH A200", 83171>>, <<"ANATOLIAN HIEROGLYPH A201", 83172>>,
    <<"ANATOLIAN HIEROGLYPH A202", 83173>>, <<"ANATOLIAN HIEROGLYPH A202A", 83174>>,
    <<"ANATOLIAN HIEROGLYPH A202B", 83175>>, <<"ANATOLIAN HIEROGLYPH A203", 83176>>,
    <<"ANATOLIAN HIEROGLYPH A204", 83177>>, <<"ANATOLIAN HIEROGLYPH A205", 83178>>,
    <<"ANATOLIAN HIEROGLYPH A206", 83179>>, <<"ANATOLIAN HIEROGLYPH A207", 83180>>,
    <<"ANATOLIAN HIEROGLYPH A207A", 83181>>, <<"ANATOLIAN HIEROGLYPH A208", 83182>>,
    <<"ANATOLIAN HIEROGLYPH A209", 83183>>, <<"ANATOLIAN HIEROGLYPH A209A", 83184>>,
    <<"ANATOLIAN HIEROGLYPH A210", 83185>>, <<"ANATOLIAN HIEROGLYPH A211", 83186>>,
    <<"ANATOLIAN HIEROGLYPH A212", 83187>>, <<"ANATOLIAN HIEROGLYPH A213", 83188>>,
    <<"ANATOLIAN HIEROGLYPH A214", 83189>>, <<"ANATOLIAN HIEROGLYPH A215", 83190>>,
    <<"ANATOLIAN HIEROGLYPH A215A", 83191>>, <<"ANATOLIAN HIEROGLYPH A216", 83192>>,
    <<"ANATOLIAN HIEROGLYPH A216A", 83193>>, <<"ANATOLIAN HIEROGLYPH A217", 83194>>,
    <<"ANATOLIAN HIEROGLYPH A218", 83195>>, <<"ANATOLIAN HIEROGLYPH A219", 83196>>,
    <<"ANATOLIAN HIEROGLYPH A220", 83197>>, <<"ANATOLIAN HIEROGLYPH A221", 83198>>,
    <<"ANATOLIAN HIEROGLYPH A222", 83199>>, <<"ANATOLIAN HIEROGLYPH A223", 83200>>,
    <<"ANATOLIAN HIEROGLYPH A224", 83201>>, <<"ANATOLIAN HIEROGLYPH A225", 83202>>,
    <<"ANATOLIAN HIEROGLYPH A226", 83203>>, <<"ANATOLIAN HIEROGLYPH A227", 83204>>,
    <<"ANATOLIAN HIEROGLYPH A227A", 83205>>, <<"ANATOLIAN HIEROGLYPH A228", 83206>>,
    <<"ANATOLIAN HIEROGLYPH A229", 83207>>, <<"ANATOLIAN HIEROGLYPH A230", 83208>>,
    <<"ANATOLIAN HIEROGLYPH A231", 83209>>, <<"ANATOLIAN HIEROGLYPH A232", 83210>>,
    <<"ANATOLIAN HIEROGLYPH A233", 83211>>, <<"ANATOLIAN HIEROGLYPH A234", 83212>>,
    <<"ANATOLIAN HIEROGLYPH A235", 83213>>, <<"ANATOLIAN HIEROGLYPH A236", 83214>>,
    <<"ANATOLIAN HIEROGLYPH A237", 83215>>, <<"ANATOLIAN HIEROGLYPH A238", 83216>>,
    <<"ANATOLIAN HIEROGLYPH A239", 83217>>, <<"ANATOLIAN HIEROGLYPH A240", 83218>>,
    <<"ANATOLIAN HIEROGLYPH A241", 83219>>, <<"ANATOLIAN HIEROGLYPH A242", 83220>>,
    <<"ANATOLIAN HIEROGLYPH A243", 83221>>, <<"ANATOLIAN HIEROGLYPH A244", 83222>>,
    <<"ANATOLIAN HIEROGLYPH A245", 83223>>, <<"ANATOLIAN HIEROGLYPH A246", 83224>>,
    <<"ANATOLIAN HIEROGLYPH A247", 83225>>, <<"ANATOLIAN HIEROGLYPH A248", 83226>>,
    <<"ANATOLIAN HIEROGLYPH A249", 83227>>, <<"ANATOLIAN HIEROGLYPH A250", 83228>>,
    <<"ANATOLIAN HIEROGLYPH A251", 83229>>, <<"ANATOLIAN HIEROGLYPH A252", 83230>>,
    <<"ANATOLIAN HIEROGLYPH A253", 83231>>, <<"ANATOLIAN HIEROGLYPH A254", 83232>>,
    <<"ANATOLIAN HIEROGLYPH A255", 83233>>, <<"ANATOLIAN HIEROGLYPH A256", 83234>>,
    <<"ANATOLIAN HIEROGLYPH A257", 83235>>, <<"ANATOLIAN HIEROGLYPH A258", 83236>>,
    <<"ANATOLIAN HIEROGLYPH A259", 83237>>, <<"ANATOLIAN HIEROGLYPH A260", 83238>>,
    <<"ANATOLIAN HIEROGLYPH A261", 83239>>, <<"ANATOLIAN HIEROGLYPH A262", 83240>>,
    <<"ANATOLIAN HIEROGLYPH A263", 83241>>, <<"ANATOLIAN HIEROGLYPH A264", 83242>>,
    <<"ANATOLIAN HIEROGLYPH A265", 83243>>, <<"ANATOLIAN HIEROGLYPH A266", 83244>>,
    <<"ANATOLIAN HIEROGLYPH A267", 83245>>, <<"ANATOLIAN HIEROGLYPH A267A", 83246>>,
    <<"ANATOLIAN HIEROGLYPH A268", 83247>>, <<"ANATOLIAN HIEROGLYPH A269", 83248>>,
    <<"ANATOLIAN HIEROGLYPH A270", 83249>>, <<"ANATOLIAN HIEROGLYPH A271", 83250>>,
    <<"ANATOLIAN HIEROGLYPH A272", 83251>>, <<"ANATOLIAN HIEROGLYPH A273", 83252>>,
    <<"ANATOLIAN HIEROGLYPH A274", 83253>>, <<"ANATOLIAN HIEROGLYPH A275", 83254>>,
    <<"ANATOLIAN HIEROGLYPH A276", 83255>>, <<"ANATOLIAN HIEROGLYPH A277", 83256>>,
    <<"ANATOLIAN HIEROGLYPH A278", 83257>>, <<"ANATOLIAN HIEROGLYPH A279", 83258>>,
    <<"ANATOLIAN HIEROGLYPH A280", 83259>>, <<"ANATOLIAN HIEROGLYPH A281", 83260>>,
    <<"ANATOLIAN HIEROGLYPH A282", 83261>>, <<"ANATOLIAN HIEROGLYPH A283", 83262>>,
    <<"ANATOLIAN HIEROGLYPH A284", 83263>>, <<"ANATOLIAN HIEROGLYPH A285", 83264>>,
    <<"ANATOLIAN HIEROGLYPH A286", 83265>>, <<"ANATOLIAN HIEROGLYPH A287", 83266>>,
    <<"ANATOLIAN HIEROGLYPH A288", 83267>>, <<"ANATOLIAN HIEROGLYPH A289", 83268>>,
    <<"ANATOLIAN HIEROGLYPH A289A", 83269>>, <<"ANATOLIAN HIEROGLYPH A290", 83270>>,
    <<"ANATOLIAN HIEROGLYPH A291", 83271>>, <<"ANATOLIAN HIEROGLYPH A292", 83272>>,
    <<"ANATOLIAN HIEROGLYPH A293", 83273>>, <<"ANATOLIAN HIEROGLYPH A294", 83274>>,
    <<"ANATOLIAN HIEROGLYPH A294A", 83275>>, <<"ANATOLIAN HIEROGLYPH A295", 83276>>,
    <<"ANATOLIAN HIEROGLYPH A296", 83277>>, <<"ANATOLIAN HIEROGLYPH A297", 83278>>,
    <<"ANATOLIAN HIEROGLYPH A298", 83279>>, <<"ANATOLIAN HIEROGLYPH A299", 83280>>,
    <<"ANATOLIAN HIEROGLYPH A299A", 83281>>, <<"ANATOLIAN HIEROGLYPH A300", 83282>>,
    <<"ANATOLIAN HIEROGLYPH A301", 83283>>, <<"ANATOLIAN HIEROGLYPH A302", 83284>>,
    <<"ANATOLIAN HIEROGLYPH A303", 83285>>, <<"ANATOLIAN HIEROGLYPH A304", 83286>>,
    <<"ANATOLIAN HIEROGLYPH A305", 83287>>, <<"ANATOLIAN HIEROGLYPH A306", 83288>>,
    <<"ANATOLIAN HIEROGLYPH A307", 83289>>, <<"ANATOLIAN HIEROGLYPH A308", 83290>>,
    <<"ANATOLIAN HIEROGLYPH A309", 83291>>, <<"ANATOLIAN HIEROGLYPH A309A", 83292>>,
    <<"ANATOLIAN HIEROGLYPH A310", 83293>>, <<"ANATOLIAN HIEROGLYPH A311", 83294>>,
    <<"ANATOLIAN HIEROGLYPH A312", 83295>>, <<"ANATOLIAN HIEROGLYPH A313", 83296>>,
    <<"ANATOLIAN HIEROGLYPH A314", 83297>>, <<"ANATOLIAN HIEROGLYPH A315", 83298>>,
    <<"ANATOLIAN HIEROGLYPH A316", 83299>>, <<"ANATOLIAN HIEROGLYPH A317", 83300>>,
    <<"ANATOLIAN HIEROGLYPH A318", 83301>>, <<"ANATOLIAN HIEROGLYPH A319", 83302>>,
    <<"ANATOLIAN HIEROGLYPH A320", 83303>>, <<"ANATOLIAN HIEROGLYPH A321", 83304>>,
    <<"ANATOLIAN HIEROGLYPH A322", 83305>>, <<"ANATOLIAN HIEROGLYPH A323", 83306>>,
    <<"ANATOLIAN HIEROGLYPH A324", 83307>>, <<"ANATOLIAN HIEROGLYPH A325", 83308>>,
    <<"ANATOLIAN HIEROGLYPH A326", 83309>>, <<"ANATOLIAN HIEROGLYPH A327", 83310>>,
    <<"ANATOLIAN HIEROGLYPH A328", 83311>>, <<"ANATOLIAN HIEROGLYPH A329", 83312>>,
    <<"ANATOLIAN HIEROGLYPH A329A", 83313>>, <<"ANATOLIAN HIEROGLYPH A330", 83314>>,
    <<"ANATOLIAN HIEROGLYPH A331", 83315>>, <<"ANATOLIAN HIEROGLYPH A332A", 83316>>,
    <<"ANATOLIAN HIEROGLYPH A332B", 83317>>, <<"ANATOLIAN HIEROGLYPH A332C", 83318>>,
    <<"ANATOLIAN HIEROGLYPH A333", 83319>>, <<"ANATOLIAN HIEROGLYPH A334", 83320>>,
    <<"ANATOLIAN HIEROGLYPH A335", 83321>>, <<"ANATOLIAN HIEROGLYPH A336", 83322>>,
    <<"ANATOLIAN HIEROGLYPH A336A", 83323>>, <<"ANATOLIAN HIEROGLYPH A336B", 83324>>,
    <<"ANATOLIAN HIEROGLYPH A336C", 83325>>, <<"ANATOLIAN HIEROGLYPH A337", 83326>>,
    <<"ANATOLIAN HIEROGLYPH A338", 83327>>, <<"ANATOLIAN HIEROGLYPH A339", 83328>>,
    <<"ANATOLIAN HIEROGLYPH A340", 83329>>, <<"ANATOLIAN HIEROGLYPH A341", 83330>>,
    <<"ANATOLIAN HIEROGLYPH A342", 83331>>, <<"ANATOLIAN HIEROGLYPH A343", 83332>>,
    <<"ANATOLIAN HIEROGLYPH A344", 83333>>, <<"ANATOLIAN HIEROGLYPH A345", 83334>>,
    <<"ANATOLIAN HIEROGLYPH A346", 83335>>, <<"ANATOLIAN HIEROGLYPH A347", 83336>>,
    <<"ANATOLIAN HIEROGLYPH A348", 83337>>, <<"ANATOLIAN HIEROGLYPH A349", 83338>>,
    <<"ANATOLIAN HIEROGLYPH A350", 83339>>, <<"ANATOLIAN HIEROGLYPH A351", 83340>>,
    <<"ANATOLIAN HIEROGLYPH A352", 83341>>, <<"ANATOLIAN HIEROGLYPH A353", 83342>>,
    <<"ANATOLIAN HIEROGLYPH A354", 83343>>, <<"ANATOLIAN HIEROGLYPH A355", 83344>>,
    <<"ANATOLIAN HIEROGLYPH A356", 83345>>, <<"ANATOLIAN HIEROGLYPH A357", 83346>>,
    <<"ANATOLIAN HIEROGLYPH A358", 83347>>, <<"ANATOLIAN HIEROGLYPH A359", 83348>>,
    <<"ANATOLIAN HIEROGLYPH A359A", 83349>>, <<"ANATOLIAN HIEROGLYPH A360", 83350>>,
    <<"ANATOLIAN HIEROGLYPH A361", 83351>>, <<"ANATOLIAN HIEROGLYPH A362", 83352>>,
    <<"ANATOLIAN HIEROGLYPH A363", 83353>>, <<"ANATOLIAN HIEROGLYPH A364", 83354>>,
    <<"ANATOLIAN HIEROGLYPH A364A", 83355>>, <<"ANATOLIAN HIEROGLYPH A365", 83356>>,
    <<"ANATOLIAN HIEROGLYPH A366", 83357>>, <<"ANATOLIAN HIEROGLYPH A367", 83358>>,
    <<"ANATOLIAN HIEROGLYPH A368", 83359>>, <<"ANATOLIAN HIEROGLYPH A368A", 83360>>,
    <<"ANATOLIAN HIEROGLYPH A369", 83361>>, <<"ANATOLIAN HIEROGLYPH A370", 83362>>,
    <<"ANATOLIAN HIEROGLYPH A371", 83363>>, <<"ANATOLIAN HIEROGLYPH A371A", 83364>>,
    <<"ANATOLIAN HIEROGLYPH A372", 83365>>, <<"ANATOLIAN HIEROGLYPH A373", 83366>>,
    <<"ANATOLIAN HIEROGLYPH A374", 83367>>, <<"ANATOLIAN HIEROGLYPH A375", 83368>>,
    <<"ANATOLIAN HIEROGLYPH A376", 83369>>, <<"ANATOLIAN HIEROGLYPH A377", 83370>>,
    <<"ANATOLIAN HIEROGLYPH A378", 83371>>, <<"ANATOLIAN HIEROGLYPH A379", 83372>>,
    <<"ANATOLIAN HIEROGLYPH A380", 83373>>, <<"ANATOLIAN HIEROGLYPH A381", 83374>>,
    <<"ANATOLIAN HIEROGLYPH A381A", 83375>>, <<"ANATOLIAN HIEROGLYPH A382", 83376>>,
    <<"ANATOLIAN HIEROGLYPH A383 RA OR RI", 83377>>, <<"ANATOLIAN HIEROGLYPH A383A", 83378>>,
    <<"ANATOLIAN HIEROGLYPH A384", 83379>>, <<"ANATOLIAN HIEROGLYPH A385", 83380>>,
    <<"ANATOLIAN HIEROGLYPH A386", 83381>>, <<"ANATOLIAN HIEROGLYPH A386A", 83382>>,
    <<"ANATOLIAN HIEROGLYPH A387", 83383>>, <<"ANATOLIAN HIEROGLYPH A388", 83384>>,
    <<"ANATOLIAN HIEROGLYPH A389", 83385>>, <<"ANATOLIAN HIEROGLYPH A390", 83386>>,
    <<"ANATOLIAN HIEROGLYPH A391", 83387>>, <<"ANATOLIAN HIEROGLYPH A392", 83388>>,
    <<"ANATOLIAN HIEROGLYPH A393 EIGHT", 83389>>, <<"ANATOLIAN HIEROGLYPH A394", 83390>>,
    <<"ANATOLIAN HIEROGLYPH A395", 83391>>, <<"ANATOLIAN HIEROGLYPH A396", 83392>>,
    <<"ANATOLIAN HIEROGLYPH A397", 83393>>, <<"ANATOLIAN HIEROGLYPH A398", 83394>>,
    <<"ANATOLIAN HIEROGLYPH A399", 83395>>, <<"ANATOLIAN HIEROGLYPH A400", 83396>>,
    <<"ANATOLIAN HIEROGLYPH A401", 83397>>, <<"ANATOLIAN HIEROGLYPH A402", 83398>>,
    <<"ANATOLIAN HIEROGLYPH A403", 83399>>, <<"ANATOLIAN HIEROGLYPH A404", 83400>>,
    <<"ANATOLIAN HIEROGLYPH A405", 83401>>, <<"ANATOLIAN HIEROGLYPH A406", 83402>>,
    <<"ANATOLIAN HIEROGLYPH A407", 83403>>, <<"ANATOLIAN HIEROGLYPH A408", 83404>>,
    <<"ANATOLIAN HIEROGLYPH A409", 83405>>, <<"ANATOLIAN HIEROGLYPH A410 BEGIN LOGOGRAM MARK", 83406>>,
    <<"ANATOLIAN HIEROGLYPH A410A END LOGOGRAM MARK", 83407>>, <<"ANATOLIAN HIEROGLYPH A411", 83408>>,
    <<"ANATOLIAN HIEROGLYPH A412", 83409>>, <<"ANATOLIAN HIEROGLYPH A413", 83410>>,
    <<"ANATOLIAN HIEROGLYPH A414", 83411>>, <<"ANATOLIAN HIEROGLYPH A415", 83412>>,
    <<"ANATOLIAN HIEROGLYPH A416", 83413>>, <<"ANATOLIAN HIEROGLYPH A417", 83414>>,
    <<"ANATOLIAN HIEROGLYPH A418", 83415>>, <<"ANATOLIAN HIEROGLYPH A419", 83416>>,
    <<"ANATOLIAN HIEROGLYPH A420", 83417>>, <<"ANATOLIAN HIEROGLYPH A421", 83418>>,
    <<"ANATOLIAN HIEROGLYPH A422", 83419>>, <<"ANATOLIAN HIEROGLYPH A423", 83420>>,
    <<"ANATOLIAN HIEROGLYPH A424", 83421>>, <<"ANATOLIAN HIEROGLYPH A425", 83422>>,
    <<"ANATOLIAN HIEROGLYPH A426", 83423>>, <<"ANATOLIAN HIEROGLYPH A427", 83424>>,
    <<"ANATOLIAN HIEROGLYPH A428", 83425>>, <<"ANATOLIAN HIEROGLYPH A429", 83426>>,
    <<"ANATOLIAN HIEROGLYPH A430", 83427>>, <<"ANATOLIAN HIEROGLYPH A431", 83428>>,
    <<"ANATOLIAN HIEROGLYPH A432", 83429>>, <<"ANATOLIAN HIEROGLYPH A433", 83430>>,
    <<"ANATOLIAN HIEROGLYPH A434", 83431>>, <<"ANATOLIAN HIEROGLYPH A435", 83432>>,
    <<"ANATOLIAN HIEROGLYPH A436", 83433>>, <<"ANATOLIAN HIEROGLYPH A437", 83434>>,
    <<"ANATOLIAN HIEROGLYPH A438", 83435>>, <<"ANATOLIAN HIEROGLYPH A439", 83436>>,
    <<"ANATOLIAN HIEROGLYPH A440", 83437>>, <<"ANATOLIAN HIEROGLYPH A441", 83438>>,
    <<"ANATOLIAN HIEROGLYPH A442", 83439>>, <<"ANATOLIAN HIEROGLYPH A443", 83440>>,
    <<"ANATOLIAN HIEROGLYPH A444", 83441>>, <<"ANATOLIAN HIEROGLYPH A445", 83442>>,
    <<"ANATOLIAN HIEROGLYPH A446", 83443>>, <<"ANATOLIAN HIEROGLYPH A447", 83444>>,
    <<"ANATOLIAN HIEROGLYPH A448", 83445>>, <<"ANATOLIAN HIEROGLYPH A449", 83446>>,
    <<"ANATOLIAN HIEROGLYPH A450", 83447>>, <<"ANATOLIAN HIEROGLYPH A450A", 83448>>,
    <<"ANATOLIAN HIEROGLYPH A451", 83449>>, <<"ANATOLIAN HIEROGLYPH A452", 83450>>,
    <<"ANATOLIAN HIEROGLYPH A453", 83451>>, <<"ANATOLIAN HIEROGLYPH A454", 83452>>,
    <<"ANATOLIAN HIEROGLYPH A455", 83453>>, <<"ANATOLIAN HIEROGLYPH A456", 83454>>,
    <<"ANATOLIAN HIEROGLYPH A457", 83455>>, <<"ANATOLIAN HIEROGLYPH A457A", 83456>>,
    <<"ANATOLIAN HIEROGLYPH A458", 83457>>, <<"ANATOLIAN HIEROGLYPH A459", 83458>>,
    <<"ANATOLIAN HIEROGLYPH A460", 83459>>, <<"ANATOLIAN HIEROGLYPH A461", 83460>>,
    <<"ANATOLIAN HIEROGLYPH A462", 83461>>, <<"ANATOLIAN HIEROGLYPH A463", 83462>>,
    <<"ANATOLIAN HIEROGLYPH A464", 83463>>, <<"ANATOLIAN HIEROGLYPH A465", 83464>>,
    <<"ANATOLIAN HIEROGLYPH A466", 83465>>, <<"ANATOLIAN HIEROGLYPH A467", 83466>>,
    <<"ANATOLIAN HIEROGLYPH A468", 83467>>, <<"ANATOLIAN HIEROGLYPH A469", 83468>>,
    <<"ANATOLIAN HIEROGLYPH A470", 83469>>, <<"ANATOLIAN HIEROGLYPH A471", 83470>>,
    <<"ANATOLIAN HIEROGLYPH A472", 83471>>, <<"ANATOLIAN HIEROGLYPH A473", 83472>>,
    <<"ANATOLIAN HIEROGLYPH A474", 83473>>, <<"ANATOLIAN HIEROGLYPH A475", 83474>>,
    <<"ANATOLIAN HIEROGLYPH A476", 83475>>, <<"ANATOLIAN HIEROGLYPH A477", 83476>>,
    <<"ANATOLIAN HIEROGLYPH A478", 83477>>, <<"ANATOLIAN HIEROGLYPH A479", 83478>>,
    <<"ANATOLIAN HIEROGLYPH A480", 83479>>, <<"ANATOLIAN HIEROGLYPH A481", 83480>>,
    <<"ANATOLIAN HIEROGLYPH A482", 83481>>, <<"ANATOLIAN HIEROGLYPH A483", 83482>>,
    <<"ANATOLIAN HIEROGLYPH A484", 83483>>, <<"ANATOLIAN HIEROGLYPH A485", 83484>>,
    <<"ANATOLIAN HIEROGLYPH A486", 83485>>, <<"ANATOLIAN HIEROGLYPH A487", 83486>>,
    <<"ANATOLIAN HIEROGLYPH A488", 83487>>, <<"ANATOLIAN HIEROGLYPH A489", 83488>>,
    <<"ANATOLIAN HIEROGLYPH A490", 83489>>, <<"ANATOLIAN HIEROGLYPH A491", 83490>>,
    <<"ANATOLIAN HIEROGLYPH A492", 83491>>, <<"ANATOLIAN HIEROGLYPH A493", 83492>>,
    <<"ANATOLIAN HIEROGLYPH A494", 83493>>, <<"ANATOLIAN HIEROGLYPH A495", 83494>>,
    <<"ANATOLIAN HIEROGLYPH A496", 83495>>, <<"ANATOLIAN HIEROGLYPH A497", 83496>>,
    <<"ANATOLIAN HIEROGLYPH A501", 83497>>, <<"ANATOLIAN HIEROGLYPH A502", 83498>>,
    <<"ANATOLIAN HIEROGLYPH A503", 83499>>, <<"ANATOLIAN HIEROGLYPH A504", 83500>>,
    <<"ANATOLIAN HIEROGLYPH A505", 83501>>, <<"ANATOLIAN HIEROGLYPH A506", 83502>>,
    <<"ANATOLIAN HIEROGLYPH A507", 83503>>, <<"ANATOLIAN HIEROGLYPH A508", 83504>>,
    <<"ANATOLIAN HIEROGLYPH A509", 83505>>, <<"ANATOLIAN HIEROGLYPH A510", 83506>>,
    <<"ANATOLIAN HIEROGLYPH A511", 83507>>, <<"ANATOLIAN HIEROGLYPH A512", 83508>>,
    <<"ANATOLIAN HIEROGLYPH A513", 83509>>, <<"ANATOLIAN HIEROGLYPH A514", 83510>>,
    <<"ANATOLIAN HIEROGLYPH A515", 83511>>, <<"ANATOLIAN HIEROGLYPH A516", 83512>>,
    <<"ANATOLIAN HIEROGLYPH A517", 83513>>, <<"ANATOLIAN HIEROGLYPH A518", 83514>>,
    <<"ANATOLIAN HIEROGLYPH A519", 83515>>, <<"ANATOLIAN HIEROGLYPH A520", 83516>>,
    <<"ANATOLIAN HIEROGLYPH A521", 83517>>, <<"ANATOLIAN HIEROGLYPH A522", 83518>>,
    <<"ANATOLIAN HIEROGLYPH A523", 83519>>, <<"ANATOLIAN HIEROGLYPH A524", 83520>>,
    <<"ANATOLIAN HIEROGLYPH A525", 83521>>, <<"ANATOLIAN HIEROGLYPH A526", 83522>>,
    <<"ANATOLIAN HIEROGLYPH A527", 83523>>, <<"ANATOLIAN HIEROGLYPH A528", 83524>>,
    <<"ANATOLIAN HIEROGLYPH A529", 83525>>, <<"ANATOLIAN HIEROGLYPH A530", 83526>>,
    <<"BAMUM LETTER PHASE-A NGKUE MFON", 92160>>, <<"BAMUM LETTER PHASE-A GBIEE FON", 92161>>,
    <<"BAMUM LETTER PHASE-A PON MFON PIPAEMGBIEE", 92162>>,
    <<"BAMUM LETTER PHASE-A PON MFON PIPAEMBA", 92163>>, <<"BAMUM LETTER PHASE-A NAA MFON", 92164>>,
    <<"BAMUM LETTER PHASE-A SHUENSHUET", 92165>>, <<"BAMUM LETTER PHASE-A TITA MFON", 92166>>,
    <<"BAMUM LETTER PHASE-A NZA MFON", 92167>>, <<"BAMUM LETTER PHASE-A SHINDA PA NJI", 92168>>,
    <<"BAMUM LETTER PHASE-A PON PA NJI PIPAEMGBIEE", 92169>>,
    <<"BAMUM LETTER PHASE-A PON PA NJI PIPAEMBA", 92170>>,
    <<"BAMUM LETTER PHASE-A MAEMBGBIEE", 92171>>, <<"BAMUM LETTER PHASE-A TU MAEMBA", 92172>>,
    <<"BAMUM LETTER PHASE-A NGANGU", 92173>>, <<"BAMUM LETTER PHASE-A MAEMVEUX", 92174>>,
    <<"BAMUM LETTER PHASE-A MANSUAE", 92175>>, <<"BAMUM LETTER PHASE-A MVEUAENGAM", 92176>>,
    <<"BAMUM LETTER PHASE-A SEUNYAM", 92177>>, <<"BAMUM LETTER PHASE-A NTOQPEN", 92178>>,
    <<"BAMUM LETTER PHASE-A KEUKEUTNDA", 92179>>, <<"BAMUM LETTER PHASE-A NKINDI", 92180>>,
    <<"BAMUM LETTER PHASE-A SUU", 92181>>, <<"BAMUM LETTER PHASE-A NGKUENZEUM", 92182>>,
    <<"BAMUM LETTER PHASE-A LAPAQ", 92183>>, <<"BAMUM LETTER PHASE-A LET KUT", 92184>>,
    <<"BAMUM LETTER PHASE-A NTAP MFAA", 92185>>, <<"BAMUM LETTER PHASE-A MAEKEUP", 92186>>,
    <<"BAMUM LETTER PHASE-A PASHAE", 92187>>, <<"BAMUM LETTER PHASE-A GHEUAERAE", 92188>>,
    <<"BAMUM LETTER PHASE-A PAMSHAE", 92189>>, <<"BAMUM LETTER PHASE-A MON NGGEUAET", 92190>>,
    <<"BAMUM LETTER PHASE-A NZUN MEUT", 92191>>, <<"BAMUM LETTER PHASE-A U YUQ NAE", 92192>>,
    <<"BAMUM LETTER PHASE-A GHEUAEGHEUAE", 92193>>, <<"BAMUM LETTER PHASE-A NTAP NTAA", 92194>>,
    <<"BAMUM LETTER PHASE-A SISA", 92195>>, <<"BAMUM LETTER PHASE-A MGBASA", 92196>>,
    <<"BAMUM LETTER PHASE-A MEUNJOMNDEUQ", 92197>>, <<"BAMUM LETTER PHASE-A MOOMPUQ", 92198>>,
    <<"BAMUM LETTER PHASE-A KAFA", 92199>>, <<"BAMUM LETTER PHASE-A PA LEERAEWA", 92200>>,
    <<"BAMUM LETTER PHASE-A NDA LEERAEWA", 92201>>, <<"BAMUM LETTER PHASE-A PET", 92202>>,
    <<"BAMUM LETTER PHASE-A MAEMKPEN", 92203>>, <<"BAMUM LETTER PHASE-A NIKA", 92204>>,
    <<"BAMUM LETTER PHASE-A PUP", 92205>>, <<"BAMUM LETTER PHASE-A TUAEP", 92206>>,
    <<"BAMUM LETTER PHASE-A LUAEP", 92207>>, <<"BAMUM LETTER PHASE-A SONJAM", 92208>>,
    <<"BAMUM LETTER PHASE-A TEUTEUWEN", 92209>>, <<"BAMUM LETTER PHASE-A MAENYI", 92210>>,
    <<"BAMUM LETTER PHASE-A KET", 92211>>, <<"BAMUM LETTER PHASE-A NDAANGGEUAET", 92212>>,
    <<"BAMUM LETTER PHASE-A KUOQ", 92213>>, <<"BAMUM LETTER PHASE-A MOOMEUT", 92214>>,
    <<"BAMUM LETTER PHASE-A SHUM", 92215>>, <<"BAMUM LETTER PHASE-A LOMMAE", 92216>>,
    <<"BAMUM LETTER PHASE-A FIRI", 92217>>, <<"BAMUM LETTER PHASE-A ROM", 92218>>,
    <<"BAMUM LETTER PHASE-A KPOQ", 92219>>, <<"BAMUM LETTER PHASE-A SOQ", 92220>>,
    <<"BAMUM LETTER PHASE-A MAP PIEET", 92221>>, <<"BAMUM LETTER PHASE-A SHIRAE", 92222>>,
    <<"BAMUM LETTER PHASE-A NTAP", 92223>>, <<"BAMUM LETTER PHASE-A SHOQ NSHUT YUM", 92224>>,
    <<"BAMUM LETTER PHASE-A NYIT MONGKEUAEQ", 92225>>, <<"BAMUM LETTER PHASE-A PAARAE", 92226>>,
    <<"BAMUM LETTER PHASE-A NKAARAE", 92227>>, <<"BAMUM LETTER PHASE-A UNKNOWN", 92228>>,
    <<"BAMUM LETTER PHASE-A NGGEN", 92229>>, <<"BAMUM LETTER PHASE-A MAESI", 92230>>,
    <<"BAMUM LETTER PHASE-A NJAM", 92231>>, <<"BAMUM LETTER PHASE-A MBANYI", 92232>>,
    <<"BAMUM LETTER PHASE-A NYET", 92233>>, <<"BAMUM LETTER PHASE-A TEUAEN", 92234>>,
    <<"BAMUM LETTER PHASE-A SOT", 92235>>, <<"BAMUM LETTER PHASE-A PAAM", 92236>>,
    <<"BAMUM LETTER PHASE-A NSHIEE", 92237>>, <<"BAMUM LETTER PHASE-A MAEM", 92238>>,
    <<"BAMUM LETTER PHASE-A NYI", 92239>>, <<"BAMUM LETTER PHASE-A KAQ", 92240>>,
    <<"BAMUM LETTER PHASE-A NSHA", 92241>>, <<"BAMUM LETTER PHASE-A VEE", 92242>>,
    <<"BAMUM LETTER PHASE-A LU", 92243>>, <<"BAMUM LETTER PHASE-A NEN", 92244>>,
    <<"BAMUM LETTER PHASE-A NAQ", 92245>>, <<"BAMUM LETTER PHASE-A MBAQ", 92246>>,
    <<"BAMUM LETTER PHASE-B NSHUET", 92247>>, <<"BAMUM LETTER PHASE-B TU MAEMGBIEE", 92248>>,
    <<"BAMUM LETTER PHASE-B SIEE", 92249>>, <<"BAMUM LETTER PHASE-B SET TU", 92250>>,
    <<"BAMUM LETTER PHASE-B LOM NTEUM", 92251>>, <<"BAMUM LETTER PHASE-B MBA MAELEE", 92252>>,
    <<"BAMUM LETTER PHASE-B KIEEM", 92253>>, <<"BAMUM LETTER PHASE-B YEURAE", 92254>>,
    <<"BAMUM LETTER PHASE-B MBAARAE", 92255>>, <<"BAMUM LETTER PHASE-B KAM", 92256>>,
    <<"BAMUM LETTER PHASE-B PEESHI", 92257>>, <<"BAMUM LETTER PHASE-B YAFU LEERAEWA", 92258>>,
    <<"BAMUM LETTER PHASE-B LAM NSHUT NYAM", 92259>>, <<"BAMUM LETTER PHASE-B NTIEE SHEUOQ", 92260>>,
    <<"BAMUM LETTER PHASE-B NDU NJAA", 92261>>, <<"BAMUM LETTER PHASE-B GHEUGHEUAEM", 92262>>,
    <<"BAMUM LETTER PHASE-B PIT", 92263>>, <<"BAMUM LETTER PHASE-B TU NSIEE", 92264>>,
    <<"BAMUM LETTER PHASE-B SHET NJAQ", 92265>>, <<"BAMUM LETTER PHASE-B SHEUAEQTU", 92266>>,
    <<"BAMUM LETTER PHASE-B MFON TEUAEQ", 92267>>, <<"BAMUM LETTER PHASE-B MBIT MBAAKET", 92268>>,
    <<"BAMUM LETTER PHASE-B NYI NTEUM", 92269>>, <<"BAMUM LETTER PHASE-B KEUPUQ", 92270>>,
    <<"BAMUM LETTER PHASE-B GHEUGHEN", 92271>>, <<"BAMUM LETTER PHASE-B KEUYEUX", 92272>>,
    <<"BAMUM LETTER PHASE-B LAANAE", 92273>>, <<"BAMUM LETTER PHASE-B PARUM", 92274>>,
    <<"BAMUM LETTER PHASE-B VEUM", 92275>>, <<"BAMUM LETTER PHASE-B NGKINDI MVOP", 92276>>,
    <<"BAMUM LETTER PHASE-B NGGEU MBU", 92277>>, <<"BAMUM LETTER PHASE-B WUAET", 92278>>,
    <<"BAMUM LETTER PHASE-B SAKEUAE", 92279>>, <<"BAMUM LETTER PHASE-B TAAM", 92280>>,
    <<"BAMUM LETTER PHASE-B MEUQ", 92281>>, <<"BAMUM LETTER PHASE-B NGGUOQ", 92282>>,
    <<"BAMUM LETTER PHASE-B NGGUOQ LARGE", 92283>>, <<"BAMUM LETTER PHASE-B MFIYAQ", 92284>>,
    <<"BAMUM LETTER PHASE-B SUE", 92285>>, <<"BAMUM LETTER PHASE-B MBEURI", 92286>>,
    <<"BAMUM LETTER PHASE-B MONTIEEN", 92287>>, <<"BAMUM LETTER PHASE-B NYAEMAE", 92288>>,
    <<"BAMUM LETTER PHASE-B PUNGAAM", 92289>>, <<"BAMUM LETTER PHASE-B MEUT NGGEET", 92290>>,
    <<"BAMUM LETTER PHASE-B FEUX", 92291>>, <<"BAMUM LETTER PHASE-B MBUOQ", 92292>>,
    <<"BAMUM LETTER PHASE-B FEE", 92293>>, <<"BAMUM LETTER PHASE-B KEUAEM", 92294>>,
    <<"BAMUM LETTER PHASE-B MA NJEUAENA", 92295>>, <<"BAMUM LETTER PHASE-B MA NJUQA", 92296>>,
    <<"BAMUM LETTER PHASE-B LET", 92297>>, <<"BAMUM LETTER PHASE-B NGGAAM", 92298>>,
    <<"BAMUM LETTER PHASE-B NSEN", 92299>>, <<"BAMUM LETTER PHASE-B MA", 92300>>,
    <<"BAMUM LETTER PHASE-B KIQ", 92301>>, <<"BAMUM LETTER PHASE-B NGOM", 92302>>,
    <<"BAMUM LETTER PHASE-C NGKUE MAEMBA", 92303>>, <<"BAMUM LETTER PHASE-C NZA", 92304>>,
    <<"BAMUM LETTER PHASE-C YUM", 92305>>, <<"BAMUM LETTER PHASE-C WANGKUOQ", 92306>>,
    <<"BAMUM LETTER PHASE-C NGGEN", 92307>>, <<"BAMUM LETTER PHASE-C NDEUAEREE", 92308>>,
    <<"BAMUM LETTER PHASE-C NGKAQ", 92309>>, <<"BAMUM LETTER PHASE-C GHARAE", 92310>>,
    <<"BAMUM LETTER PHASE-C MBEEKEET", 92311>>, <<"BAMUM LETTER PHASE-C GBAYI", 92312>>,
    <<"BAMUM LETTER PHASE-C NYIR MKPARAQ MEUN", 92313>>, <<"BAMUM LETTER PHASE-C NTU MBIT", 92314>>,
    <<"BAMUM LETTER PHASE-C MBEUM", 92315>>, <<"BAMUM LETTER PHASE-C PIRIEEN", 92316>>,
    <<"BAMUM LETTER PHASE-C NDOMBU", 92317>>, <<"BAMUM LETTER PHASE-C MBAA CABBAGE-TREE", 92318>>,
    <<"BAMUM LETTER PHASE-C KEUSHEUAEP", 92319>>, <<"BAMUM LETTER PHASE-C GHAP", 92320>>,
    <<"BAMUM LETTER PHASE-C KEUKAQ", 92321>>, <<"BAMUM LETTER PHASE-C YU MUOMAE", 92322>>,
    <<"BAMUM LETTER PHASE-C NZEUM", 92323>>, <<"BAMUM LETTER PHASE-C MBUE", 92324>>,
    <<"BAMUM LETTER PHASE-C NSEUAEN", 92325>>, <<"BAMUM LETTER PHASE-C MBIT", 92326>>,
    <<"BAMUM LETTER PHASE-C YEUQ", 92327>>, <<"BAMUM LETTER PHASE-C KPARAQ", 92328>>,
    <<"BAMUM LETTER PHASE-C KAA", 92329>>, <<"BAMUM LETTER PHASE-C SEUX", 92330>>,
    <<"BAMUM LETTER PHASE-C NDIDA", 92331>>, <<"BAMUM LETTER PHASE-C TAASHAE", 92332>>,
    <<"BAMUM LETTER PHASE-C NJUEQ", 92333>>, <<"BAMUM LETTER PHASE-C TITA YUE", 92334>>,
    <<"BAMUM LETTER PHASE-C SUAET", 92335>>, <<"BAMUM LETTER PHASE-C NGGUAEN NYAM", 92336>>,
    <<"BAMUM LETTER PHASE-C VEUX", 92337>>, <<"BAMUM LETTER PHASE-C NANSANAQ", 92338>>,
    <<"BAMUM LETTER PHASE-C MA KEUAERI", 92339>>, <<"BAMUM LETTER PHASE-C NTAA", 92340>>,
    <<"BAMUM LETTER PHASE-C NGGUON", 92341>>, <<"BAMUM LETTER PHASE-C LAP", 92342>>,
    <<"BAMUM LETTER PHASE-C MBIRIEEN", 92343>>, <<"BAMUM LETTER PHASE-C MGBASAQ", 92344>>,
    <<"BAMUM LETTER PHASE-C NTEUNGBA", 92345>>, <<"BAMUM LETTER PHASE-C TEUTEUX", 92346>>,
    <<"BAMUM LETTER PHASE-C NGGUM", 92347>>, <<"BAMUM LETTER PHASE-C FUE", 92348>>,
    <<"BAMUM LETTER PHASE-C NDEUT", 92349>>, <<"BAMUM LETTER PHASE-C NSA", 92350>>,
    <<"BAMUM LETTER PHASE-C NSHAQ", 92351>>, <<"BAMUM LETTER PHASE-C BUNG", 92352>>,
    <<"BAMUM LETTER PHASE-C VEUAEPEN", 92353>>, <<"BAMUM LETTER PHASE-C MBERAE", 92354>>,
    <<"BAMUM LETTER PHASE-C RU", 92355>>, <<"BAMUM LETTER PHASE-C NJAEM", 92356>>,
    <<"BAMUM LETTER PHASE-C LAM", 92357>>, <<"BAMUM LETTER PHASE-C TITUAEP", 92358>>,
    <<"BAMUM LETTER PHASE-C NSUOT NGOM", 92359>>, <<"BAMUM LETTER PHASE-C NJEEEE", 92360>>,
    <<"BAMUM LETTER PHASE-C KET", 92361>>, <<"BAMUM LETTER PHASE-C NGGU", 92362>>,
    <<"BAMUM LETTER PHASE-C MAESI", 92363>>, <<"BAMUM LETTER PHASE-C MBUAEM", 92364>>,
    <<"BAMUM LETTER PHASE-C LU", 92365>>, <<"BAMUM LETTER PHASE-C KUT", 92366>>,
    <<"BAMUM LETTER PHASE-C NJAM", 92367>>, <<"BAMUM LETTER PHASE-C NGOM", 92368>>,
    <<"BAMUM LETTER PHASE-C WUP", 92369>>, <<"BAMUM LETTER PHASE-C NGGUEET", 92370>>,
    <<"BAMUM LETTER PHASE-C NSOM", 92371>>, <<"BAMUM LETTER PHASE-C NTEN", 92372>>,
    <<"BAMUM LETTER PHASE-C KUOP NKAARAE", 92373>>, <<"BAMUM LETTER PHASE-C NSUN", 92374>>,
    <<"BAMUM LETTER PHASE-C NDAM", 92375>>, <<"BAMUM LETTER PHASE-C MA NSIEE", 92376>>,
    <<"BAMUM LETTER PHASE-C YAA", 92377>>, <<"BAMUM LETTER PHASE-C NDAP", 92378>>,
    <<"BAMUM LETTER PHASE-C SHUEQ", 92379>>, <<"BAMUM LETTER PHASE-C SETFON", 92380>>,
    <<"BAMUM LETTER PHASE-C MBI", 92381>>, <<"BAMUM LETTER PHASE-C MAEMBA", 92382>>,
    <<"BAMUM LETTER PHASE-C MBANYI", 92383>>, <<"BAMUM LETTER PHASE-C KEUSEUX", 92384>>,
    <<"BAMUM LETTER PHASE-C MBEUX", 92385>>, <<"BAMUM LETTER PHASE-C KEUM", 92386>>,
    <<"BAMUM LETTER PHASE-C MBAA PICKET", 92387>>, <<"BAMUM LETTER PHASE-C YUWOQ", 92388>>,
    <<"BAMUM LETTER PHASE-C NJEUX", 92389>>, <<"BAMUM LETTER PHASE-C MIEE", 92390>>,
    <<"BAMUM LETTER PHASE-C MUAE", 92391>>, <<"BAMUM LETTER PHASE-C SHIQ", 92392>>,
    <<"BAMUM LETTER PHASE-C KEN LAW", 92393>>, <<"BAMUM LETTER PHASE-C KEN FATIGUE", 92394>>,
    <<"BAMUM LETTER PHASE-C NGAQ", 92395>>, <<"BAMUM LETTER PHASE-C NAQ", 92396>>,
    <<"BAMUM LETTER PHASE-C LIQ", 92397>>, <<"BAMUM LETTER PHASE-C PIN", 92398>>,
    <<"BAMUM LETTER PHASE-C PEN", 92399>>, <<"BAMUM LETTER PHASE-C TET", 92400>>,
    <<"BAMUM LETTER PHASE-D MBUO", 92401>>, <<"BAMUM LETTER PHASE-D WAP", 92402>>,
    <<"BAMUM LETTER PHASE-D NJI", 92403>>, <<"BAMUM LETTER PHASE-D MFON", 92404>>,
    <<"BAMUM LETTER PHASE-D NJIEE", 92405>>, <<"BAMUM LETTER PHASE-D LIEE", 92406>>,
    <<"BAMUM LETTER PHASE-D NJEUT", 92407>>, <<"BAMUM LETTER PHASE-D NSHEE", 92408>>,
    <<"BAMUM LETTER PHASE-D NGGAAMAE", 92409>>, <<"BAMUM LETTER PHASE-D NYAM", 92410>>,
    <<"BAMUM LETTER PHASE-D WUAEN", 92411>>, <<"BAMUM LETTER PHASE-D NGKUN", 92412>>,
    <<"BAMUM LETTER PHASE-D SHEE", 92413>>, <<"BAMUM LETTER PHASE-D NGKAP", 92414>>,
    <<"BAMUM LETTER PHASE-D KEUAETMEUN", 92415>>, <<"BAMUM LETTER PHASE-D TEUT", 92416>>,
    <<"BAMUM LETTER PHASE-D SHEUAE", 92417>>, <<"BAMUM LETTER PHASE-D NJAP", 92418>>,
    <<"BAMUM LETTER PHASE-D SUE", 92419>>, <<"BAMUM LETTER PHASE-D KET", 92420>>,
    <<"BAMUM LETTER PHASE-D YAEMMAE", 92421>>, <<"BAMUM LETTER PHASE-D KUOM", 92422>>,
    <<"BAMUM LETTER PHASE-D SAP", 92423>>, <<"BAMUM LETTER PHASE-D MFEUT", 92424>>,
    <<"BAMUM LETTER PHASE-D NDEUX", 92425>>, <<"BAMUM LETTER PHASE-D MALEERI", 92426>>,
    <<"BAMUM LETTER PHASE-D MEUT", 92427>>, <<"BAMUM LETTER PHASE-D SEUAEQ", 92428>>,
    <<"BAMUM LETTER PHASE-D YEN", 92429>>, <<"BAMUM LETTER PHASE-D NJEUAEM", 92430>>,
    <<"BAMUM LETTER PHASE-D KEUOT MBUAE", 92431>>, <<"BAMUM LETTER PHASE-D NGKEURI", 92432>>,
    <<"BAMUM LETTER PHASE-D TU", 92433>>, <<"BAMUM LETTER PHASE-D GHAA", 92434>>,
    <<"BAMUM LETTER PHASE-D NGKYEE", 92435>>, <<"BAMUM LETTER PHASE-D FEUFEUAET", 92436>>,
    <<"BAMUM LETTER PHASE-D NDEE", 92437>>, <<"BAMUM LETTER PHASE-D MGBOFUM", 92438>>,
    <<"BAMUM LETTER PHASE-D LEUAEP", 92439>>, <<"BAMUM LETTER PHASE-D NDON", 92440>>,
    <<"BAMUM LETTER PHASE-D MONI", 92441>>, <<"BAMUM LETTER PHASE-D MGBEUN", 92442>>,
    <<"BAMUM LETTER PHASE-D PUUT", 92443>>, <<"BAMUM LETTER PHASE-D MGBIEE", 92444>>,
    <<"BAMUM LETTER PHASE-D MFO", 92445>>, <<"BAMUM LETTER PHASE-D LUM", 92446>>,
    <<"BAMUM LETTER PHASE-D NSIEEP", 92447>>, <<"BAMUM LETTER PHASE-D MBAA", 92448>>,
    <<"BAMUM LETTER PHASE-D KWAET", 92449>>, <<"BAMUM LETTER PHASE-D NYET", 92450>>,
    <<"BAMUM LETTER PHASE-D TEUAEN", 92451>>, <<"BAMUM LETTER PHASE-D SOT", 92452>>,
    <<"BAMUM LETTER PHASE-D YUWOQ", 92453>>, <<"BAMUM LETTER PHASE-D KEUM", 92454>>,
    <<"BAMUM LETTER PHASE-D RAEM", 92455>>, <<"BAMUM LETTER PHASE-D TEEEE", 92456>>,
    <<"BAMUM LETTER PHASE-D NGKEUAEQ", 92457>>, <<"BAMUM LETTER PHASE-D MFEUAE", 92458>>,
    <<"BAMUM LETTER PHASE-D NSIEET", 92459>>, <<"BAMUM LETTER PHASE-D KEUP", 92460>>,
    <<"BAMUM LETTER PHASE-D PIP", 92461>>, <<"BAMUM LETTER PHASE-D PEUTAE", 92462>>,
    <<"BAMUM LETTER PHASE-D NYUE", 92463>>, <<"BAMUM LETTER PHASE-D LET", 92464>>,
    <<"BAMUM LETTER PHASE-D NGGAAM", 92465>>, <<"BAMUM LETTER PHASE-D MFIEE", 92466>>,
    <<"BAMUM LETTER PHASE-D NGGWAEN", 92467>>, <<"BAMUM LETTER PHASE-D YUOM", 92468>>,
    <<"BAMUM LETTER PHASE-D PAP", 92469>>, <<"BAMUM LETTER PHASE-D YUOP", 92470>>,
    <<"BAMUM LETTER PHASE-D NDAM", 92471>>, <<"BAMUM LETTER PHASE-D NTEUM", 92472>>,
    <<"BAMUM LETTER PHASE-D SUAE", 92473>>, <<"BAMUM LETTER PHASE-D KUN", 92474>>,
    <<"BAMUM LETTER PHASE-D NGGEUX", 92475>>, <<"BAMUM LETTER PHASE-D NGKIEE", 92476>>,
    <<"BAMUM LETTER PHASE-D TUOT", 92477>>, <<"BAMUM LETTER PHASE-D MEUN", 92478>>,
    <<"BAMUM LETTER PHASE-D KUQ", 92479>>, <<"BAMUM LETTER PHASE-D NSUM", 92480>>,
    <<"BAMUM LETTER PHASE-D TEUN", 92481>>, <<"BAMUM LETTER PHASE-D MAENJET", 92482>>,
    <<"BAMUM LETTER PHASE-D NGGAP", 92483>>, <<"BAMUM LETTER PHASE-D LEUM", 92484>>,
    <<"BAMUM LETTER PHASE-D NGGUOM", 92485>>, <<"BAMUM LETTER PHASE-D NSHUT", 92486>>,
    <<"BAMUM LETTER PHASE-D NJUEQ", 92487>>, <<"BAMUM LETTER PHASE-D GHEUAE", 92488>>,
    <<"BAMUM LETTER PHASE-D KU", 92489>>, <<"BAMUM LETTER PHASE-D REN OLD", 92490>>,
    <<"BAMUM LETTER PHASE-D TAE", 92491>>, <<"BAMUM LETTER PHASE-D TOQ", 92492>>,
    <<"BAMUM LETTER PHASE-D NYI", 92493>>, <<"BAMUM LETTER PHASE-D RII", 92494>>,
    <<"BAMUM LETTER PHASE-D LEEEE", 92495>>, <<"BAMUM LETTER PHASE-D MEEEE", 92496>>,
    <<"BAMUM LETTER PHASE-D M", 92497>>, <<"BAMUM LETTER PHASE-D SUU", 92498>>,
    <<"BAMUM LETTER PHASE-D MU", 92499>>, <<"BAMUM LETTER PHASE-D SHII", 92500>>,
    <<"BAMUM LETTER PHASE-D SHEUX", 92501>>, <<"BAMUM LETTER PHASE-D KYEE", 92502>>,
    <<"BAMUM LETTER PHASE-D NU", 92503>>, <<"BAMUM LETTER PHASE-D SHU", 92504>>,
    <<"BAMUM LETTER PHASE-D NTEE", 92505>>, <<"BAMUM LETTER PHASE-D PEE", 92506>>,
    <<"BAMUM LETTER PHASE-D NI", 92507>>, <<"BAMUM LETTER PHASE-D SHOQ", 92508>>,
    <<"BAMUM LETTER PHASE-D PUQ", 92509>>, <<"BAMUM LETTER PHASE-D MVOP", 92510>>,
    <<"BAMUM LETTER PHASE-D LOQ", 92511>>, <<"BAMUM LETTER PHASE-D REN MUCH", 92512>>,
    <<"BAMUM LETTER PHASE-D TI", 92513>>, <<"BAMUM LETTER PHASE-D NTUU", 92514>>,
    <<"BAMUM LETTER PHASE-D MBAA SEVEN", 92515>>, <<"BAMUM LETTER PHASE-D SAQ", 92516>>,
    <<"BAMUM LETTER PHASE-D FAA", 92517>>, <<"BAMUM LETTER PHASE-E NDAP", 92518>>,
    <<"BAMUM LETTER PHASE-E TOON", 92519>>, <<"BAMUM LETTER PHASE-E MBEUM", 92520>>,
    <<"BAMUM LETTER PHASE-E LAP", 92521>>, <<"BAMUM LETTER PHASE-E VOM", 92522>>,
    <<"BAMUM LETTER PHASE-E LOON", 92523>>, <<"BAMUM LETTER PHASE-E PAA", 92524>>,
    <<"BAMUM LETTER PHASE-E SOM", 92525>>, <<"BAMUM LETTER PHASE-E RAQ", 92526>>,
    <<"BAMUM LETTER PHASE-E NSHUOP", 92527>>, <<"BAMUM LETTER PHASE-E NDUN", 92528>>,
    <<"BAMUM LETTER PHASE-E PUAE", 92529>>, <<"BAMUM LETTER PHASE-E TAM", 92530>>,
    <<"BAMUM LETTER PHASE-E NGKA", 92531>>, <<"BAMUM LETTER PHASE-E KPEUX", 92532>>,
    <<"BAMUM LETTER PHASE-E WUO", 92533>>, <<"BAMUM LETTER PHASE-E SEE", 92534>>,
    <<"BAMUM LETTER PHASE-E NGGEUAET", 92535>>, <<"BAMUM LETTER PHASE-E PAAM", 92536>>,
    <<"BAMUM LETTER PHASE-E TOO", 92537>>, <<"BAMUM LETTER PHASE-E KUOP", 92538>>,
    <<"BAMUM LETTER PHASE-E LOM", 92539>>, <<"BAMUM LETTER PHASE-E NSHIEE", 92540>>,
    <<"BAMUM LETTER PHASE-E NGOP", 92541>>, <<"BAMUM LETTER PHASE-E MAEM", 92542>>,
    <<"BAMUM LETTER PHASE-E NGKEUX", 92543>>, <<"BAMUM LETTER PHASE-E NGOQ", 92544>>,
    <<"BAMUM LETTER PHASE-E NSHUE", 92545>>, <<"BAMUM LETTER PHASE-E RIMGBA", 92546>>,
    <<"BAMUM LETTER PHASE-E NJEUX", 92547>>, <<"BAMUM LETTER PHASE-E PEEM", 92548>>,
    <<"BAMUM LETTER PHASE-E SAA", 92549>>, <<"BAMUM LETTER PHASE-E NGGURAE", 92550>>,
    <<"BAMUM LETTER PHASE-E MGBA", 92551>>, <<"BAMUM LETTER PHASE-E GHEUX", 92552>>,
    <<"BAMUM LETTER PHASE-E NGKEUAEM", 92553>>, <<"BAMUM LETTER PHASE-E NJAEMLI", 92554>>,
    <<"BAMUM LETTER PHASE-E MAP", 92555>>, <<"BAMUM LETTER PHASE-E LOOT", 92556>>,
    <<"BAMUM LETTER PHASE-E NGGEEEE", 92557>>, <<"BAMUM LETTER PHASE-E NDIQ", 92558>>,
    <<"BAMUM LETTER PHASE-E TAEN NTEUM", 92559>>, <<"BAMUM LETTER PHASE-E SET", 92560>>,
    <<"BAMUM LETTER PHASE-E PUM", 92561>>, <<"BAMUM LETTER PHASE-E NDAA SOFTNESS", 92562>>,
    <<"BAMUM LETTER PHASE-E NGGUAESHAE NYAM", 92563>>, <<"BAMUM LETTER PHASE-E YIEE", 92564>>,
    <<"BAMUM LETTER PHASE-E GHEUN", 92565>>, <<"BAMUM LETTER PHASE-E TUAE", 92566>>,
    <<"BAMUM LETTER PHASE-E YEUAE", 92567>>, <<"BAMUM LETTER PHASE-E PO", 92568>>,
    <<"BAMUM LETTER PHASE-E TUMAE", 92569>>, <<"BAMUM LETTER PHASE-E KEUAE", 92570>>,
    <<"BAMUM LETTER PHASE-E SUAEN", 92571>>, <<"BAMUM LETTER PHASE-E TEUAEQ", 92572>>,
    <<"BAMUM LETTER PHASE-E VEUAE", 92573>>, <<"BAMUM LETTER PHASE-E WEUX", 92574>>,
    <<"BAMUM LETTER PHASE-E LAAM", 92575>>, <<"BAMUM LETTER PHASE-E PU", 92576>>,
    <<"BAMUM LETTER PHASE-E TAAQ", 92577>>, <<"BAMUM LETTER PHASE-E GHAAMAE", 92578>>,
    <<"BAMUM LETTER PHASE-E NGEUREUT", 92579>>, <<"BAMUM LETTER PHASE-E SHEUAEQ", 92580>>,
    <<"BAMUM LETTER PHASE-E MGBEN", 92581>>, <<"BAMUM LETTER PHASE-E MBEE", 92582>>,
    <<"BAMUM LETTER PHASE-E NZAQ", 92583>>, <<"BAMUM LETTER PHASE-E NKOM", 92584>>,
    <<"BAMUM LETTER PHASE-E GBET", 92585>>, <<"BAMUM LETTER PHASE-E TUM", 92586>>,
    <<"BAMUM LETTER PHASE-E KUET", 92587>>, <<"BAMUM LETTER PHASE-E YAP", 92588>>,
    <<"BAMUM LETTER PHASE-E NYI CLEAVER", 92589>>, <<"BAMUM LETTER PHASE-E YIT", 92590>>,
    <<"BAMUM LETTER PHASE-E MFEUQ", 92591>>, <<"BAMUM LETTER PHASE-E NDIAQ", 92592>>,
    <<"BAMUM LETTER PHASE-E PIEEQ", 92593>>, <<"BAMUM LETTER PHASE-E YUEQ", 92594>>,
    <<"BAMUM LETTER PHASE-E LEUAEM", 92595>>, <<"BAMUM LETTER PHASE-E FUE", 92596>>,
    <<"BAMUM LETTER PHASE-E GBEUX", 92597>>, <<"BAMUM LETTER PHASE-E NGKUP", 92598>>,
    <<"BAMUM LETTER PHASE-E KET", 92599>>, <<"BAMUM LETTER PHASE-E MAE", 92600>>,
    <<"BAMUM LETTER PHASE-E NGKAAMI", 92601>>, <<"BAMUM LETTER PHASE-E GHET", 92602>>,
    <<"BAMUM LETTER PHASE-E FA", 92603>>, <<"BAMUM LETTER PHASE-E NTUM", 92604>>,
    <<"BAMUM LETTER PHASE-E PEUT", 92605>>, <<"BAMUM LETTER PHASE-E YEUM", 92606>>,
    <<"BAMUM LETTER PHASE-E NGGEUAE", 92607>>, <<"BAMUM LETTER PHASE-E NYI BETWEEN", 92608>>,
    <<"BAMUM LETTER PHASE-E NZUQ", 92609>>, <<"BAMUM LETTER PHASE-E POON", 92610>>,
    <<"BAMUM LETTER PHASE-E MIEE", 92611>>, <<"BAMUM LETTER PHASE-E FUET", 92612>>,
    <<"BAMUM LETTER PHASE-E NAE", 92613>>, <<"BAMUM LETTER PHASE-E MUAE", 92614>>,
    <<"BAMUM LETTER PHASE-E GHEUAE", 92615>>, <<"BAMUM LETTER PHASE-E FU I", 92616>>,
    <<"BAMUM LETTER PHASE-E MVI", 92617>>, <<"BAMUM LETTER PHASE-E PUAQ", 92618>>,
    <<"BAMUM LETTER PHASE-E NGKUM", 92619>>, <<"BAMUM LETTER PHASE-E KUT", 92620>>,
    <<"BAMUM LETTER PHASE-E PIET", 92621>>, <<"BAMUM LETTER PHASE-E NTAP", 92622>>,
    <<"BAMUM LETTER PHASE-E YEUAET", 92623>>, <<"BAMUM LETTER PHASE-E NGGUP", 92624>>,
    <<"BAMUM LETTER PHASE-E PA PEOPLE", 92625>>, <<"BAMUM LETTER PHASE-E FU CALL", 92626>>,
    <<"BAMUM LETTER PHASE-E FOM", 92627>>, <<"BAMUM LETTER PHASE-E NJEE", 92628>>,
    <<"BAMUM LETTER PHASE-E A", 92629>>, <<"BAMUM LETTER PHASE-E TOQ", 92630>>,
    <<"BAMUM LETTER PHASE-E O", 92631>>, <<"BAMUM LETTER PHASE-E I", 92632>>,
    <<"BAMUM LETTER PHASE-E LAQ", 92633>>, <<"BAMUM LETTER PHASE-E PA PLURAL", 92634>>,
    <<"BAMUM LETTER PHASE-E TAA", 92635>>, <<"BAMUM LETTER PHASE-E TAQ", 92636>>,
    <<"BAMUM LETTER PHASE-E NDAA MY HOUSE", 92637>>, <<"BAMUM LETTER PHASE-E SHIQ", 92638>>,
    <<"BAMUM LETTER PHASE-E YEUX", 92639>>, <<"BAMUM LETTER PHASE-E NGUAE", 92640>>,
    <<"BAMUM LETTER PHASE-E YUAEN", 92641>>, <<"BAMUM LETTER PHASE-E YOQ SWIMMING", 92642>>,
    <<"BAMUM LETTER PHASE-E YOQ COVER", 92643>>, <<"BAMUM LETTER PHASE-E YUQ", 92644>>,
    <<"BAMUM LETTER PHASE-E YUN", 92645>>, <<"BAMUM LETTER PHASE-E KEUX", 92646>>,
    <<"BAMUM LETTER PHASE-E PEUX", 92647>>, <<"BAMUM LETTER PHASE-E NJEE EPOCH", 92648>>,
    <<"BAMUM LETTER PHASE-E PUE", 92649>>, <<"BAMUM LETTER PHASE-E WUE", 92650>>,
    <<"BAMUM LETTER PHASE-E FEE", 92651>>, <<"BAMUM LETTER PHASE-E VEE", 92652>>,
    <<"BAMUM LETTER PHASE-E LU", 92653>>, <<"BAMUM LETTER PHASE-E MI", 92654>>,
    <<"BAMUM LETTER PHASE-E REUX", 92655>>, <<"BAMUM LETTER PHASE-E RAE", 92656>>,
    <<"BAMUM LETTER PHASE-E NGUAET", 92657>>, <<"BAMUM LETTER PHASE-E NGA", 92658>>,
    <<"BAMUM LETTER PHASE-E SHO", 92659>>, <<"BAMUM LETTER PHASE-E SHOQ", 92660>>,
    <<"BAMUM LETTER PHASE-E FU REMEDY", 92661>>, <<"BAMUM LETTER PHASE-E NA", 92662>>,
    <<"BAMUM LETTER PHASE-E PI", 92663>>, <<"BAMUM LETTER PHASE-E LOQ", 92664>>,
    <<"BAMUM LETTER PHASE-E KO", 92665>>, <<"BAMUM LETTER PHASE-E MEN", 92666>>,
    <<"BAMUM LETTER PHASE-E MA", 92667>>, <<"BAMUM LETTER PHASE-E MAQ", 92668>>,
    <<"BAMUM LETTER PHASE-E TEU", 92669>>, <<"BAMUM LETTER PHASE-E KI", 92670>>,
    <<"BAMUM LETTER PHASE-E MON", 92671>>, <<"BAMUM LETTER PHASE-E TEN", 92672>>,
    <<"BAMUM LETTER PHASE-E FAQ", 92673>>, <<"BAMUM LETTER PHASE-E GHOM", 92674>>,
    <<"BAMUM LETTER PHASE-F KA", 92675>>, <<"BAMUM LETTER PHASE-F U", 92676>>,
    <<"BAMUM LETTER PHASE-F KU", 92677>>, <<"BAMUM LETTER PHASE-F EE", 92678>>,
    <<"BAMUM LETTER PHASE-F REE", 92679>>, <<"BAMUM LETTER PHASE-F TAE", 92680>>,
    <<"BAMUM LETTER PHASE-F NYI", 92681>>, <<"BAMUM LETTER PHASE-F LA", 92682>>,
    <<"BAMUM LETTER PHASE-F RII", 92683>>, <<"BAMUM LETTER PHASE-F RIEE", 92684>>,
    <<"BAMUM LETTER PHASE-F MEEEE", 92685>>, <<"BAMUM LETTER PHASE-F TAA", 92686>>,
    <<"BAMUM LETTER PHASE-F NDAA", 92687>>, <<"BAMUM LETTER PHASE-F NJAEM", 92688>>,
    <<"BAMUM LETTER PHASE-F M", 92689>>, <<"BAMUM LETTER PHASE-F SUU", 92690>>,
    <<"BAMUM LETTER PHASE-F SHII", 92691>>, <<"BAMUM LETTER PHASE-F SI", 92692>>,
    <<"BAMUM LETTER PHASE-F SEUX", 92693>>, <<"BAMUM LETTER PHASE-F KYEE", 92694>>,
    <<"BAMUM LETTER PHASE-F KET", 92695>>, <<"BAMUM LETTER PHASE-F NUAE", 92696>>,
    <<"BAMUM LETTER PHASE-F NU", 92697>>, <<"BAMUM LETTER PHASE-F NJUAE", 92698>>,
    <<"BAMUM LETTER PHASE-F YOQ", 92699>>, <<"BAMUM LETTER PHASE-F SHU", 92700>>,
    <<"BAMUM LETTER PHASE-F YA", 92701>>, <<"BAMUM LETTER PHASE-F NSHA", 92702>>,
    <<"BAMUM LETTER PHASE-F PEUX", 92703>>, <<"BAMUM LETTER PHASE-F NTEE", 92704>>,
    <<"BAMUM LETTER PHASE-F WUE", 92705>>, <<"BAMUM LETTER PHASE-F PEE", 92706>>,
    <<"BAMUM LETTER PHASE-F RU", 92707>>, <<"BAMUM LETTER PHASE-F NI", 92708>>,
    <<"BAMUM LETTER PHASE-F REUX", 92709>>, <<"BAMUM LETTER PHASE-F KEN", 92710>>,
    <<"BAMUM LETTER PHASE-F NGKWAEN", 92711>>, <<"BAMUM LETTER PHASE-F NGGA", 92712>>,
    <<"BAMUM LETTER PHASE-F SHO", 92713>>, <<"BAMUM LETTER PHASE-F PUAE", 92714>>,
    <<"BAMUM LETTER PHASE-F FOM", 92715>>, <<"BAMUM LETTER PHASE-F WA", 92716>>,
    <<"BAMUM LETTER PHASE-F LI", 92717>>, <<"BAMUM LETTER PHASE-F LOQ", 92718>>,
    <<"BAMUM LETTER PHASE-F KO", 92719>>, <<"BAMUM LETTER PHASE-F MBEN", 92720>>,
    <<"BAMUM LETTER PHASE-F REN", 92721>>, <<"BAMUM LETTER PHASE-F MA", 92722>>,
    <<"BAMUM LETTER PHASE-F MO", 92723>>, <<"BAMUM LETTER PHASE-F MBAA", 92724>>,
    <<"BAMUM LETTER PHASE-F TET", 92725>>, <<"BAMUM LETTER PHASE-F KPA", 92726>>,
    <<"BAMUM LETTER PHASE-F SAMBA", 92727>>, <<"BAMUM LETTER PHASE-F VUEQ", 92728>>,
    <<"MRO LETTER TA", 92736>>, <<"MRO LETTER NGI", 92737>>, <<"MRO LETTER YO", 92738>>,
    <<"MRO LETTER MIM", 92739>>, <<"MRO LETTER BA", 92740>>, <<"MRO LETTER DA", 92741>>,
    <<"MRO LETTER A", 92742>>, <<"MRO LETTER PHI", 92743>>, <<"MRO LETTER KHAI", 92744>>,
    <<"MRO LETTER HAO", 92745>>, <<"MRO LETTER DAI", 92746>>, <<"MRO LETTER CHU", 92747>>,
    <<"MRO LETTER KEAAE", 92748>>, <<"MRO LETTER OL", 92749>>, <<"MRO LETTER MAEM", 92750>>,
    <<"MRO LETTER NIN", 92751>>, <<"MRO LETTER PA", 92752>>, <<"MRO LETTER OO", 92753>>,
    <<"MRO LETTER O", 92754>>, <<"MRO LETTER RO", 92755>>, <<"MRO LETTER SHI", 92756>>,
    <<"MRO LETTER THEA", 92757>>, <<"MRO LETTER EA", 92758>>, <<"MRO LETTER WA", 92759>>,
    <<"MRO LETTER E", 92760>>, <<"MRO LETTER KO", 92761>>, <<"MRO LETTER LAN", 92762>>,
    <<"MRO LETTER LA", 92763>>, <<"MRO LETTER HAI", 92764>>, <<"MRO LETTER RI", 92765>>,
    <<"MRO LETTER TEK", 92766>>, <<"MRO DIGIT ZERO", 92768>>, <<"MRO DIGIT ONE", 92769>>,
    <<"MRO DIGIT TWO", 92770>>, <<"MRO DIGIT THREE", 92771>>, <<"MRO DIGIT FOUR", 92772>>,
    <<"MRO DIGIT FIVE", 92773>>, <<"MRO DIGIT SIX", 92774>>, <<"MRO DIGIT SEVEN", 92775>>,
    <<"MRO DIGIT EIGHT", 92776>>, <<"MRO DIGIT NINE", 92777>>, <<"MRO DANDA", 92782>>,
    <<"MRO DOUBLE DANDA", 92783>>, <<"TANGSA LETTER OZ", 92784>>, <<"TANGSA LETTER OC", 92785>>,
    <<"TANGSA LETTER OQ", 92786>>, <<"TANGSA LETTER OX", 92787>>, <<"TANGSA LETTER AZ", 92788>>,
    <<"TANGSA LETTER AC", 92789>>, <<"TANGSA LETTER AQ", 92790>>, <<"TANGSA LETTER AX", 92791>>,
    <<"TANGSA LETTER VZ", 92792>>, <<"TANGSA LETTER VC", 92793>>, <<"TANGSA LETTER VQ", 92794>>,
    <<"TANGSA LETTER VX", 92795>>, <<"TANGSA LETTER EZ", 92796>>, <<"TANGSA LETTER EC", 92797>>,
    <<"TANGSA LETTER EQ", 92798>>, <<"TANGSA LETTER EX", 92799>>, <<"TANGSA LETTER IZ", 92800>>,
    <<"TANGSA LETTER IC", 92801>>, <<"TANGSA LETTER IQ", 92802>>, <<"TANGSA LETTER IX", 92803>>,
    <<"TANGSA LETTER UZ", 92804>>, <<"TANGSA LETTER UC", 92805>>, <<"TANGSA LETTER UQ", 92806>>,
    <<"TANGSA LETTER UX", 92807>>, <<"TANGSA LETTER AWZ", 92808>>, <<"TANGSA LETTER AWC", 92809>>,
    <<"TANGSA LETTER AWQ", 92810>>, <<"TANGSA LETTER AWX", 92811>>, <<"TANGSA LETTER UIZ", 92812>>,
    <<"TANGSA LETTER UIC", 92813>>, <<"TANGSA LETTER UIQ", 92814>>, <<"TANGSA LETTER UIX", 92815>>,
    <<"TANGSA LETTER FINAL NG", 92816>>, <<"TANGSA LETTER LONG UEX", 92817>>,
    <<"TANGSA LETTER SHORT UEZ", 92818>>, <<"TANGSA LETTER SHORT AWX", 92819>>,
    <<"TANGSA LETTER UEC", 92820>>, <<"TANGSA LETTER UEZ", 92821>>, <<"TANGSA LETTER UEQ", 92822>>,
    <<"TANGSA LETTER UEX", 92823>>, <<"TANGSA LETTER UIUZ", 92824>>, <<"TANGSA LETTER UIUC", 92825>>,
    <<"TANGSA LETTER UIUQ", 92826>>, <<"TANGSA LETTER UIUX", 92827>>, <<"TANGSA LETTER MZ", 92828>>,
    <<"TANGSA LETTER MC", 92829>>, <<"TANGSA LETTER MQ", 92830>>, <<"TANGSA LETTER MX", 92831>>,
    <<"TANGSA LETTER KA", 92832>>, <<"TANGSA LETTER KHA", 92833>>, <<"TANGSA LETTER GA", 92834>>,
    <<"TANGSA LETTER NGA", 92835>>, <<"TANGSA LETTER SA", 92836>>, <<"TANGSA LETTER YA", 92837>>,
    <<"TANGSA LETTER WA", 92838>>, <<"TANGSA LETTER PA", 92839>>, <<"TANGSA LETTER NYA", 92840>>,
    <<"TANGSA LETTER PHA", 92841>>, <<"TANGSA LETTER BA", 92842>>, <<"TANGSA LETTER MA", 92843>>,
    <<"TANGSA LETTER NA", 92844>>, <<"TANGSA LETTER HA", 92845>>, <<"TANGSA LETTER LA", 92846>>,
    <<"TANGSA LETTER HTA", 92847>>, <<"TANGSA LETTER TA", 92848>>, <<"TANGSA LETTER DA", 92849>>,
    <<"TANGSA LETTER RA", 92850>>, <<"TANGSA LETTER NHA", 92851>>, <<"TANGSA LETTER SHA", 92852>>,
    <<"TANGSA LETTER CA", 92853>>, <<"TANGSA LETTER TSA", 92854>>, <<"TANGSA LETTER GHA", 92855>>,
    <<"TANGSA LETTER HTTA", 92856>>, <<"TANGSA LETTER THA", 92857>>, <<"TANGSA LETTER XA", 92858>>,
    <<"TANGSA LETTER FA", 92859>>, <<"TANGSA LETTER DHA", 92860>>, <<"TANGSA LETTER CHA", 92861>>,
    <<"TANGSA LETTER ZA", 92862>>, <<"TANGSA DIGIT ZERO", 92864>>, <<"TANGSA DIGIT ONE", 92865>>,
    <<"TANGSA DIGIT TWO", 92866>>, <<"TANGSA DIGIT THREE", 92867>>, <<"TANGSA DIGIT FOUR", 92868>>,
    <<"TANGSA DIGIT FIVE", 92869>>, <<"TANGSA DIGIT SIX", 92870>>, <<"TANGSA DIGIT SEVEN", 92871>>,
    <<"TANGSA DIGIT EIGHT", 92872>>, <<"TANGSA DIGIT NINE", 92873>>,
    <<"BASSA VAH LETTER ENNI", 92880>>, <<"BASSA VAH LETTER KA", 92881>>,
    <<"BASSA VAH LETTER SE", 92882>>, <<"BASSA VAH LETTER FA", 92883>>,
    <<"BASSA VAH LETTER MBE", 92884>>, <<"BASSA VAH LETTER YIE", 92885>>,
    <<"BASSA VAH LETTER GAH", 92886>>, <<"BASSA VAH LETTER DHII", 92887>>,
    <<"BASSA VAH LETTER KPAH", 92888>>, <<"BASSA VAH LETTER JO", 92889>>,
    <<"BASSA VAH LETTER HWAH", 92890>>, <<"BASSA VAH LETTER WA", 92891>>,
    <<"BASSA VAH LETTER ZO", 92892>>, <<"BASSA VAH LETTER GBU", 92893>>,
    <<"BASSA VAH LETTER DO", 92894>>, <<"BASSA VAH LETTER CE", 92895>>,
    <<"BASSA VAH LETTER UWU", 92896>>, <<"BASSA VAH LETTER TO", 92897>>,
    <<"BASSA VAH LETTER BA", 92898>>, <<"BASSA VAH LETTER VU", 92899>>,
    <<"BASSA VAH LETTER YEIN", 92900>>, <<"BASSA VAH LETTER PA", 92901>>,
    <<"BASSA VAH LETTER WADDA", 92902>>, <<"BASSA VAH LETTER A", 92903>>,
    <<"BASSA VAH LETTER O", 92904>>, <<"BASSA VAH LETTER OO", 92905>>, <<"BASSA VAH LETTER U", 92906>>,
    <<"BASSA VAH LETTER EE", 92907>>, <<"BASSA VAH LETTER E", 92908>>, <<"BASSA VAH LETTER I", 92909>>,
    <<"BASSA VAH COMBINING HIGH TONE", 92912>>, <<"BASSA VAH COMBINING LOW TONE", 92913>>,
    <<"BASSA VAH COMBINING MID TONE", 92914>>, <<"BASSA VAH COMBINING LOW-MID TONE", 92915>>,
    <<"BASSA VAH COMBINING HIGH-LOW TONE", 92916>>, <<"BASSA VAH FULL STOP", 92917>>,
    <<"PAHAWH HMONG VOWEL KEEB", 92928>>, <<"PAHAWH HMONG VOWEL KEEV", 92929>>,
    <<"PAHAWH HMONG VOWEL KIB", 92930>>, <<"PAHAWH HMONG VOWEL KIV", 92931>>,
    <<"PAHAWH HMONG VOWEL KAUB", 92932>>, <<"PAHAWH HMONG VOWEL KAUV", 92933>>,
    <<"PAHAWH HMONG VOWEL KUB", 92934>>, <<"PAHAWH HMONG VOWEL KUV", 92935>>,
    <<"PAHAWH HMONG VOWEL KEB", 92936>>, <<"PAHAWH HMONG VOWEL KEV", 92937>>,
    <<"PAHAWH HMONG VOWEL KAIB", 92938>>, <<"PAHAWH HMONG VOWEL KAIV", 92939>>,
    <<"PAHAWH HMONG VOWEL KOOB", 92940>>, <<"PAHAWH HMONG VOWEL KOOV", 92941>>,
    <<"PAHAWH HMONG VOWEL KAWB", 92942>>, <<"PAHAWH HMONG VOWEL KAWV", 92943>>,
    <<"PAHAWH HMONG VOWEL KUAB", 92944>>, <<"PAHAWH HMONG VOWEL KUAV", 92945>>,
    <<"PAHAWH HMONG VOWEL KOB", 92946>>, <<"PAHAWH HMONG VOWEL KOV", 92947>>,
    <<"PAHAWH HMONG VOWEL KIAB", 92948>>, <<"PAHAWH HMONG VOWEL KIAV", 92949>>,
    <<"PAHAWH HMONG VOWEL KAB", 92950>>, <<"PAHAWH HMONG VOWEL KAV", 92951>>,
    <<"PAHAWH HMONG VOWEL KWB", 92952>>, <<"PAHAWH HMONG VOWEL KWV", 92953>>,
    <<"PAHAWH HMONG VOWEL KAAB", 92954>>, <<"PAHAWH HMONG VOWEL KAAV", 92955>>,
    <<"PAHAWH HMONG CONSONANT VAU", 92956>>, <<"PAHAWH HMONG CONSONANT NTSAU", 92957>>,
    <<"PAHAWH HMONG CONSONANT LAU", 92958>>, <<"PAHAWH HMONG CONSONANT HAU", 92959>>,
    <<"PAHAWH HMONG CONSONANT NLAU", 92960>>, <<"PAHAWH HMONG CONSONANT RAU", 92961>>,
    <<"PAHAWH HMONG CONSONANT NKAU", 92962>>, <<"PAHAWH HMONG CONSONANT QHAU", 92963>>,
    <<"PAHAWH HMONG CONSONANT YAU", 92964>>, <<"PAHAWH HMONG CONSONANT HLAU", 92965>>,
    <<"PAHAWH HMONG CONSONANT MAU", 92966>>, <<"PAHAWH HMONG CONSONANT CHAU", 92967>>,
    <<"PAHAWH HMONG CONSONANT NCHAU", 92968>>, <<"PAHAWH HMONG CONSONANT HNAU", 92969>>,
    <<"PAHAWH HMONG CONSONANT PLHAU", 92970>>, <<"PAHAWH HMONG CONSONANT NTHAU", 92971>>,
    <<"PAHAWH HMONG CONSONANT NAU", 92972>>, <<"PAHAWH HMONG CONSONANT AU", 92973>>,
    <<"PAHAWH HMONG CONSONANT XAU", 92974>>, <<"PAHAWH HMONG CONSONANT CAU", 92975>>,
    <<"PAHAWH HMONG MARK CIM TUB", 92976>>, <<"PAHAWH HMONG MARK CIM SO", 92977>>,
    <<"PAHAWH HMONG MARK CIM KES", 92978>>, <<"PAHAWH HMONG MARK CIM KHAV", 92979>>,
    <<"PAHAWH HMONG MARK CIM SUAM", 92980>>, <<"PAHAWH HMONG MARK CIM HOM", 92981>>,
    <<"PAHAWH HMONG MARK CIM TAUM", 92982>>, <<"PAHAWH HMONG SIGN VOS THOM", 92983>>,
    <<"PAHAWH HMONG SIGN VOS TSHAB CEEB", 92984>>, <<"PAHAWH HMONG SIGN CIM CHEEM", 92985>>,
    <<"PAHAWH HMONG SIGN VOS THIAB", 92986>>, <<"PAHAWH HMONG SIGN VOS FEEM", 92987>>,
    <<"PAHAWH HMONG SIGN XYEEM NTXIV", 92988>>, <<"PAHAWH HMONG SIGN XYEEM RHO", 92989>>,
    <<"PAHAWH HMONG SIGN XYEEM TOV", 92990>>, <<"PAHAWH HMONG SIGN XYEEM FAIB", 92991>>,
    <<"PAHAWH HMONG SIGN VOS SEEV", 92992>>, <<"PAHAWH HMONG SIGN MEEJ SUAB", 92993>>,
    <<"PAHAWH HMONG SIGN VOS NRUA", 92994>>, <<"PAHAWH HMONG SIGN IB YAM", 92995>>,
    <<"PAHAWH HMONG SIGN XAUS", 92996>>, <<"PAHAWH HMONG SIGN CIM TSOV ROG", 92997>>,
    <<"PAHAWH HMONG DIGIT ZERO", 93008>>, <<"PAHAWH HMONG DIGIT ONE", 93009>>,
    <<"PAHAWH HMONG DIGIT TWO", 93010>>, <<"PAHAWH HMONG DIGIT THREE", 93011>>,
    <<"PAHAWH HMONG DIGIT FOUR", 93012>>, <<"PAHAWH HMONG DIGIT FIVE", 93013>>,
    <<"PAHAWH HMONG DIGIT SIX", 93014>>, <<"PAHAWH HMONG DIGIT SEVEN", 93015>>,
    <<"PAHAWH HMONG DIGIT EIGHT", 93016>>, <<"PAHAWH HMONG DIGIT NINE", 93017>>,
    <<"PAHAWH HMONG NUMBER TENS", 93019>>, <<"PAHAWH HMONG NUMBER HUNDREDS", 93020>>,
    <<"PAHAWH HMONG NUMBER TEN THOUSANDS", 93021>>, <<"PAHAWH HMONG NUMBER MILLIONS", 93022>>,
    <<"PAHAWH HMONG NUMBER HUNDRED MILLIONS", 93023>>, <<"PAHAWH HMONG NUMBER TEN BILLIONS", 93024>>,
    <<"PAHAWH HMONG NUMBER TRILLIONS", 93025>>, <<"PAHAWH HMONG SIGN VOS LUB", 93027>>,
    <<"PAHAWH HMONG SIGN XYOO", 93028>>, <<"PAHAWH HMONG SIGN HLI", 93029>>,
    <<"PAHAWH HMONG SIGN THIRD-STAGE HLI", 93030>>, <<"PAHAWH HMONG SIGN ZWJ THAJ", 93031>>,
    <<"PAHAWH HMONG SIGN HNUB", 93032>>, <<"PAHAWH HMONG SIGN NQIG", 93033>>,
    <<"PAHAWH HMONG SIGN XIAB", 93034>>, <<"PAHAWH HMONG SIGN NTUJ", 93035>>,
    <<"PAHAWH HMONG SIGN AV", 93036>>, <<"PAHAWH HMONG SIGN TXHEEJ CEEV", 93037>>,
    <<"PAHAWH HMONG SIGN MEEJ TSEEB", 93038>>, <<"PAHAWH HMONG SIGN TAU", 93039>>,
    <<"PAHAWH HMONG SIGN LOS", 93040>>, <<"PAHAWH HMONG SIGN MUS", 93041>>,
    <<"PAHAWH HMONG SIGN CIM HAIS LUS NTOG NTOG", 93042>>,
    <<"PAHAWH HMONG SIGN CIM CUAM TSHOOJ", 93043>>, <<"PAHAWH HMONG SIGN CIM TXWV", 93044>>,
    <<"PAHAWH HMONG SIGN CIM TXWV CHWV", 93045>>, <<"PAHAWH HMONG SIGN CIM PUB DAWB", 93046>>,
    <<"PAHAWH HMONG SIGN CIM NRES TOS", 93047>>, <<"PAHAWH HMONG CLAN SIGN TSHEEJ", 93053>>,
    <<"PAHAWH HMONG CLAN SIGN YEEG", 93054>>, <<"PAHAWH HMONG CLAN SIGN LIS", 93055>>,
    <<"PAHAWH HMONG CLAN SIGN LAUJ", 93056>>, <<"PAHAWH HMONG CLAN SIGN XYOOJ", 93057>>,
    <<"PAHAWH HMONG CLAN SIGN KOO", 93058>>, <<"PAHAWH HMONG CLAN SIGN HAWJ", 93059>>,
    <<"PAHAWH HMONG CLAN SIGN MUAS", 93060>>, <<"PAHAWH HMONG CLAN SIGN THOJ", 93061>>,
    <<"PAHAWH HMONG CLAN SIGN TSAB", 93062>>, <<"PAHAWH HMONG CLAN SIGN PHAB", 93063>>,
    <<"PAHAWH HMONG CLAN SIGN KHAB", 93064>>, <<"PAHAWH HMONG CLAN SIGN HAM", 93065>>,
    <<"PAHAWH HMONG CLAN SIGN VAJ", 93066>>, <<"PAHAWH HMONG CLAN SIGN FAJ", 93067>>,
    <<"PAHAWH HMONG CLAN SIGN YAJ", 93068>>, <<"PAHAWH HMONG CLAN SIGN TSWB", 93069>>,
    <<"PAHAWH HMONG CLAN SIGN KWM", 93070>>, <<"PAHAWH HMONG CLAN SIGN VWJ", 93071>>,
    <<"MEDEFAIDRIN CAPITAL LETTER M", 93760>>, <<"MEDEFAIDRIN CAPITAL LETTER S", 93761>>,
    <<"MEDEFAIDRIN CAPITAL LETTER V", 93762>>, <<"MEDEFAIDRIN CAPITAL LETTER W", 93763>>,
    <<"MEDEFAIDRIN CAPITAL LETTER ATIU", 93764>>, <<"MEDEFAIDRIN CAPITAL LETTER Z", 93765>>,
    <<"MEDEFAIDRIN CAPITAL LETTER KP", 93766>>, <<"MEDEFAIDRIN CAPITAL LETTER P", 93767>>,
    <<"MEDEFAIDRIN CAPITAL LETTER T", 93768>>, <<"MEDEFAIDRIN CAPITAL LETTER G", 93769>>,
    <<"MEDEFAIDRIN CAPITAL LETTER F", 93770>>, <<"MEDEFAIDRIN CAPITAL LETTER I", 93771>>,
    <<"MEDEFAIDRIN CAPITAL LETTER K", 93772>>, <<"MEDEFAIDRIN CAPITAL LETTER A", 93773>>,
    <<"MEDEFAIDRIN CAPITAL LETTER J", 93774>>, <<"MEDEFAIDRIN CAPITAL LETTER E", 93775>>,
    <<"MEDEFAIDRIN CAPITAL LETTER B", 93776>>, <<"MEDEFAIDRIN CAPITAL LETTER C", 93777>>,
    <<"MEDEFAIDRIN CAPITAL LETTER U", 93778>>, <<"MEDEFAIDRIN CAPITAL LETTER YU", 93779>>,
    <<"MEDEFAIDRIN CAPITAL LETTER L", 93780>>, <<"MEDEFAIDRIN CAPITAL LETTER Q", 93781>>,
    <<"MEDEFAIDRIN CAPITAL LETTER H", 93782>>, <<"MEDEFAIDRIN CAPITAL LETTER HP", 93782>>,
    <<"MEDEFAIDRIN CAPITAL LETTER NG", 93783>>, <<"MEDEFAIDRIN CAPITAL LETTER NY", 93783>>,
    <<"MEDEFAIDRIN CAPITAL LETTER X", 93784>>, <<"MEDEFAIDRIN CAPITAL LETTER D", 93785>>,
    <<"MEDEFAIDRIN CAPITAL LETTER OE", 93786>>, <<"MEDEFAIDRIN CAPITAL LETTER N", 93787>>,
    <<"MEDEFAIDRIN CAPITAL LETTER R", 93788>>, <<"MEDEFAIDRIN CAPITAL LETTER O", 93789>>,
    <<"MEDEFAIDRIN CAPITAL LETTER AI", 93790>>, <<"MEDEFAIDRIN CAPITAL LETTER Y", 93791>>,
    <<"MEDEFAIDRIN SMALL LETTER M", 93792>>, <<"MEDEFAIDRIN SMALL LETTER S", 93793>>,
    <<"MEDEFAIDRIN SMALL LETTER V", 93794>>, <<"MEDEFAIDRIN SMALL LETTER W", 93795>>,
    <<"MEDEFAIDRIN SMALL LETTER ATIU", 93796>>, <<"MEDEFAIDRIN SMALL LETTER Z", 93797>>,
    <<"MEDEFAIDRIN SMALL LETTER KP", 93798>>, <<"MEDEFAIDRIN SMALL LETTER P", 93799>>,
    <<"MEDEFAIDRIN SMALL LETTER T", 93800>>, <<"MEDEFAIDRIN SMALL LETTER G", 93801>>,
    <<"MEDEFAIDRIN SMALL LETTER F", 93802>>, <<"MEDEFAIDRIN SMALL LETTER I", 93803>>,
    <<"MEDEFAIDRIN SMALL LETTER K", 93804>>, <<"MEDEFAIDRIN SMALL LETTER A", 93805>>,
    <<"MEDEFAIDRIN SMALL LETTER J", 93806>>, <<"MEDEFAIDRIN SMALL LETTER E", 93807>>,
    <<"MEDEFAIDRIN SMALL LETTER B", 93808>>, <<"MEDEFAIDRIN SMALL LETTER C", 93809>>,
    <<"MEDEFAIDRIN SMALL LETTER U", 93810>>, <<"MEDEFAIDRIN SMALL LETTER YU", 93811>>,
    <<"MEDEFAIDRIN SMALL LETTER L", 93812>>, <<"MEDEFAIDRIN SMALL LETTER Q", 93813>>,
    <<"MEDEFAIDRIN SMALL LETTER H", 93814>>, <<"MEDEFAIDRIN SMALL LETTER HP", 93814>>,
    <<"MEDEFAIDRIN SMALL LETTER NG", 93815>>, <<"MEDEFAIDRIN SMALL LETTER NY", 93815>>,
    <<"MEDEFAIDRIN SMALL LETTER X", 93816>>, <<"MEDEFAIDRIN SMALL LETTER D", 93817>>,
    <<"MEDEFAIDRIN SMALL LETTER OE", 93818>>, <<"MEDEFAIDRIN SMALL LETTER N", 93819>>,
    <<"MEDEFAIDRIN SMALL LETTER R", 93820>>, <<"MEDEFAIDRIN SMALL LETTER O", 93821>>,
    <<"MEDEFAIDRIN SMALL LETTER AI", 93822>>, <<"MEDEFAIDRIN SMALL LETTER Y", 93823>>,
    <<"MEDEFAIDRIN DIGIT ZERO", 93824>>, <<"MEDEFAIDRIN DIGIT ONE", 93825>>,
    <<"MEDEFAIDRIN DIGIT TWO", 93826>>, <<"MEDEFAIDRIN DIGIT THREE", 93827>>,
    <<"MEDEFAIDRIN DIGIT FOUR", 93828>>, <<"MEDEFAIDRIN DIGIT FIVE", 93829>>,
    <<"MEDEFAIDRIN DIGIT SIX", 93830>>, <<"MEDEFAIDRIN DIGIT SEVEN", 93831>>,
    <<"MEDEFAIDRIN DIGIT EIGHT", 93832>>, <<"MEDEFAIDRIN DIGIT NINE", 93833>>,
    <<"MEDEFAIDRIN NUMBER TEN", 93834>>, <<"MEDEFAIDRIN NUMBER ELEVEN", 93835>>,
    <<"MEDEFAIDRIN NUMBER TWELVE", 93836>>, <<"MEDEFAIDRIN NUMBER THIRTEEN", 93837>>,
    <<"MEDEFAIDRIN NUMBER FOURTEEN", 93838>>, <<"MEDEFAIDRIN NUMBER FIFTEEN", 93839>>,
    <<"MEDEFAIDRIN NUMBER SIXTEEN", 93840>>, <<"MEDEFAIDRIN NUMBER SEVENTEEN", 93841>>,
    <<"MEDEFAIDRIN NUMBER EIGHTEEN", 93842>>, <<"MEDEFAIDRIN NUMBER NINETEEN", 93843>>,
    <<"MEDEFAIDRIN DIGIT ONE ALTERNATE FORM", 93844>>,
    <<"MEDEFAIDRIN DIGIT TWO ALTERNATE FORM", 93845>>,
    <<"MEDEFAIDRIN DIGIT THREE ALTERNATE FORM", 93846>>, <<"MEDEFAIDRIN COMMA", 93847>>,
    <<"MEDEFAIDRIN FULL STOP", 93848>>, <<"MEDEFAIDRIN SYMBOL AIVA", 93849>>,
    <<"MEDEFAIDRIN EXCLAMATION OH", 93850>>, <<"MIAO LETTER PA", 93952>>, <<"MIAO LETTER BA", 93953>>,
    <<"MIAO LETTER YI PA", 93954>>, <<"MIAO LETTER PLA", 93955>>, <<"MIAO LETTER MA", 93956>>,
    <<"MIAO LETTER MHA", 93957>>, <<"MIAO LETTER ARCHAIC MA", 93958>>, <<"MIAO LETTER FA", 93959>>,
    <<"MIAO LETTER VA", 93960>>, <<"MIAO LETTER VFA", 93961>>, <<"MIAO LETTER TA", 93962>>,
    <<"MIAO LETTER DA", 93963>>, <<"MIAO LETTER YI TTA", 93964>>, <<"MIAO LETTER YI TA", 93965>>,
    <<"MIAO LETTER TTA", 93966>>, <<"MIAO LETTER DDA", 93967>>, <<"MIAO LETTER NA", 93968>>,
    <<"MIAO LETTER NHA", 93969>>, <<"MIAO LETTER YI NNA", 93970>>, <<"MIAO LETTER ARCHAIC NA", 93971>>,
    <<"MIAO LETTER NNA", 93972>>, <<"MIAO LETTER NNHA", 93973>>, <<"MIAO LETTER LA", 93974>>,
    <<"MIAO LETTER LYA", 93975>>, <<"MIAO LETTER LHA", 93976>>, <<"MIAO LETTER LHYA", 93977>>,
    <<"MIAO LETTER TLHA", 93978>>, <<"MIAO LETTER DLHA", 93979>>, <<"MIAO LETTER TLHYA", 93980>>,
    <<"MIAO LETTER DLHYA", 93981>>, <<"MIAO LETTER KA", 93982>>, <<"MIAO LETTER GA", 93983>>,
    <<"MIAO LETTER YI KA", 93984>>, <<"MIAO LETTER QA", 93985>>, <<"MIAO LETTER QGA", 93986>>,
    <<"MIAO LETTER NGA", 93987>>, <<"MIAO LETTER NGHA", 93988>>, <<"MIAO LETTER ARCHAIC NGA", 93989>>,
    <<"MIAO LETTER HA", 93990>>, <<"MIAO LETTER XA", 93991>>, <<"MIAO LETTER GHA", 93992>>,
    <<"MIAO LETTER GHHA", 93993>>, <<"MIAO LETTER TSSA", 93994>>, <<"MIAO LETTER DZZA", 93995>>,
    <<"MIAO LETTER NYA", 93996>>, <<"MIAO LETTER NYHA", 93997>>, <<"MIAO LETTER TSHA", 93998>>,
    <<"MIAO LETTER DZHA", 93999>>, <<"MIAO LETTER YI TSHA", 94000>>, <<"MIAO LETTER YI DZHA", 94001>>,
    <<"MIAO LETTER REFORMED TSHA", 94002>>, <<"MIAO LETTER SHA", 94003>>, <<"MIAO LETTER SSA", 94004>>,
    <<"MIAO LETTER ZHA", 94005>>, <<"MIAO LETTER ZSHA", 94006>>, <<"MIAO LETTER TSA", 94007>>,
    <<"MIAO LETTER DZA", 94008>>, <<"MIAO LETTER YI TSA", 94009>>, <<"MIAO LETTER SA", 94010>>,
    <<"MIAO LETTER ZA", 94011>>, <<"MIAO LETTER ZSA", 94012>>, <<"MIAO LETTER ZZA", 94013>>,
    <<"MIAO LETTER ZZSA", 94014>>, <<"MIAO LETTER ARCHAIC ZZA", 94015>>, <<"MIAO LETTER ZZYA", 94016>>,
    <<"MIAO LETTER ZZSYA", 94017>>, <<"MIAO LETTER WA", 94018>>, <<"MIAO LETTER AH", 94019>>,
    <<"MIAO LETTER HHA", 94020>>, <<"MIAO LETTER BRI", 94021>>, <<"MIAO LETTER SYI", 94022>>,
    <<"MIAO LETTER DZYI", 94023>>, <<"MIAO LETTER TE", 94024>>, <<"MIAO LETTER TSE", 94025>>,
    <<"MIAO LETTER RTE", 94026>>, <<"MIAO SIGN CONSONANT MODIFIER BAR", 94031>>,
    <<"MIAO LETTER NASALIZATION", 94032>>, <<"MIAO SIGN ASPIRATION", 94033>>,
    <<"MIAO SIGN REFORMED VOICING", 94034>>, <<"MIAO SIGN REFORMED ASPIRATION", 94035>>,
    <<"MIAO VOWEL SIGN A", 94036>>, <<"MIAO VOWEL SIGN AA", 94037>>, <<"MIAO VOWEL SIGN AHH", 94038>>,
    <<"MIAO VOWEL SIGN AN", 94039>>, <<"MIAO VOWEL SIGN ANG", 94040>>, <<"MIAO VOWEL SIGN O", 94041>>,
    <<"MIAO VOWEL SIGN OO", 94042>>, <<"MIAO VOWEL SIGN WO", 94043>>, <<"MIAO VOWEL SIGN W", 94044>>,
    <<"MIAO VOWEL SIGN E", 94045>>, <<"MIAO VOWEL SIGN EN", 94046>>, <<"MIAO VOWEL SIGN ENG", 94047>>,
    <<"MIAO VOWEL SIGN OEY", 94048>>, <<"MIAO VOWEL SIGN I", 94049>>, <<"MIAO VOWEL SIGN IA", 94050>>,
    <<"MIAO VOWEL SIGN IAN", 94051>>, <<"MIAO VOWEL SIGN IANG", 94052>>,
    <<"MIAO VOWEL SIGN IO", 94053>>, <<"MIAO VOWEL SIGN IE", 94054>>, <<"MIAO VOWEL SIGN II", 94055>>,
    <<"MIAO VOWEL SIGN IU", 94056>>, <<"MIAO VOWEL SIGN ING", 94057>>, <<"MIAO VOWEL SIGN U", 94058>>,
    <<"MIAO VOWEL SIGN UA", 94059>>, <<"MIAO VOWEL SIGN UAN", 94060>>,
    <<"MIAO VOWEL SIGN UANG", 94061>>, <<"MIAO VOWEL SIGN UU", 94062>>,
    <<"MIAO VOWEL SIGN UEI", 94063>>, <<"MIAO VOWEL SIGN UNG", 94064>>, <<"MIAO VOWEL SIGN Y", 94065>>,
    <<"MIAO VOWEL SIGN YI", 94066>>, <<"MIAO VOWEL SIGN AE", 94067>>, <<"MIAO VOWEL SIGN AEE", 94068>>,
    <<"MIAO VOWEL SIGN ERR", 94069>>, <<"MIAO VOWEL SIGN ROUNDED ERR", 94070>>,
    <<"MIAO VOWEL SIGN ER", 94071>>, <<"MIAO VOWEL SIGN ROUNDED ER", 94072>>,
    <<"MIAO VOWEL SIGN AI", 94073>>, <<"MIAO VOWEL SIGN EI", 94074>>, <<"MIAO VOWEL SIGN AU", 94075>>,
    <<"MIAO VOWEL SIGN OU", 94076>>, <<"MIAO VOWEL SIGN N", 94077>>, <<"MIAO VOWEL SIGN NG", 94078>>,
    <<"MIAO VOWEL SIGN UOG", 94079>>, <<"MIAO VOWEL SIGN YUI", 94080>>,
    <<"MIAO VOWEL SIGN OG", 94081>>, <<"MIAO VOWEL SIGN OER", 94082>>, <<"MIAO VOWEL SIGN VW", 94083>>,
    <<"MIAO VOWEL SIGN IG", 94084>>, <<"MIAO VOWEL SIGN EA", 94085>>,
    <<"MIAO VOWEL SIGN IONG", 94086>>, <<"MIAO VOWEL SIGN UI", 94087>>, <<"MIAO TONE RIGHT", 94095>>,
    <<"MIAO TONE TOP RIGHT", 94096>>, <<"MIAO TONE ABOVE", 94097>>, <<"MIAO TONE BELOW", 94098>>,
    <<"MIAO LETTER TONE-2", 94099>>, <<"MIAO LETTER TONE-3", 94100>>, <<"MIAO LETTER TONE-4", 94101>>,
    <<"MIAO LETTER TONE-5", 94102>>, <<"MIAO LETTER TONE-6", 94103>>, <<"MIAO LETTER TONE-7", 94104>>,
    <<"MIAO LETTER TONE-8", 94105>>, <<"MIAO LETTER REFORMED TONE-1", 94106>>,
    <<"MIAO LETTER REFORMED TONE-2", 94107>>, <<"MIAO LETTER REFORMED TONE-4", 94108>>,
    <<"MIAO LETTER REFORMED TONE-5", 94109>>, <<"MIAO LETTER REFORMED TONE-6", 94110>>,
    <<"MIAO LETTER REFORMED TONE-8", 94111>>, <<"TANGUT ITERATION MARK", 94176>>,
    <<"NUSHU ITERATION MARK", 94177>>, <<"OLD CHINESE HOOK MARK", 94178>>,
    <<"OLD CHINESE ITERATION MARK", 94179>>, <<"KHITAN SMALL SCRIPT FILLER", 94180>>,
    <<"VIETNAMESE ALTERNATE READING MARK CA", 94192>>,
    <<"VIETNAMESE ALTERNATE READING MARK NHAY", 94193>>, <<"TANGUT COMPONENT-001", 100352>>,
    <<"TANGUT COMPONENT-002", 100353>>, <<"TANGUT COMPONENT-003", 100354>>,
    <<"TANGUT COMPONENT-004", 100355>>, <<"TANGUT COMPONENT-005", 100356>>,
    <<"TANGUT COMPONENT-006", 100357>>, <<"TANGUT COMPONENT-007", 100358>>,
    <<"TANGUT COMPONENT-008", 100359>>, <<"TANGUT COMPONENT-009", 100360>>,
    <<"TANGUT COMPONENT-010", 100361>>, <<"TANGUT COMPONENT-011", 100362>>,
    <<"TANGUT COMPONENT-012", 100363>>, <<"TANGUT COMPONENT-013", 100364>>,
    <<"TANGUT COMPONENT-014", 100365>>, <<"TANGUT COMPONENT-015", 100366>>,
    <<"TANGUT COMPONENT-016", 100367>>, <<"TANGUT COMPONENT-017", 100368>>,
    <<"TANGUT COMPONENT-018", 100369>>, <<"TANGUT COMPONENT-019", 100370>>,
    <<"TANGUT COMPONENT-020", 100371>>, <<"TANGUT COMPONENT-021", 100372>>,
    <<"TANGUT COMPONENT-022", 100373>>, <<"TANGUT COMPONENT-023", 100374>>,
    <<"TANGUT COMPONENT-024", 100375>>, <<"TANGUT COMPONENT-025", 100376>>,
    <<"TANGUT COMPONENT-026", 100377>>, <<"TANGUT COMPONENT-027", 100378>>,
    <<"TANGUT COMPONENT-028", 100379>>, <<"TANGUT COMPONENT-029", 100380>>,
    <<"TANGUT COMPONENT-030", 100381>>, <<"TANGUT COMPONENT-031", 100382>>,
    <<"TANGUT COMPONENT-032", 100383>>, <<"TANGUT COMPONENT-033", 100384>>,
    <<"TANGUT COMPONENT-034", 100385>>, <<"TANGUT COMPONENT-035", 100386>>,
    <<"TANGUT COMPONENT-036", 100387>>, <<"TANGUT COMPONENT-037", 100388>>,
    <<"TANGUT COMPONENT-038", 100389>>, <<"TANGUT COMPONENT-039", 100390>>,
    <<"TANGUT COMPONENT-040", 100391>>, <<"TANGUT COMPONENT-041", 100392>>,
    <<"TANGUT COMPONENT-042", 100393>>, <<"TANGUT COMPONENT-043", 100394>>,
    <<"TANGUT COMPONENT-044", 100395>>, <<"TANGUT COMPONENT-045", 100396>>,
    <<"TANGUT COMPONENT-046", 100397>>, <<"TANGUT COMPONENT-047", 100398>>,
    <<"TANGUT COMPONENT-048", 100399>>, <<"TANGUT COMPONENT-049", 100400>>,
    <<"TANGUT COMPONENT-050", 100401>>, <<"TANGUT COMPONENT-051", 100402>>,
    <<"TANGUT COMPONENT-052", 100403>>, <<"TANGUT COMPONENT-053", 100404>>,
    <<"TANGUT COMPONENT-054", 100405>>, <<"TANGUT COMPONENT-055", 100406>>,
    <<"TANGUT COMPONENT-056", 100407>>, <<"TANGUT COMPONENT-057", 100408>>,
    <<"TANGUT COMPONENT-058", 100409>>, <<"TANGUT COMPONENT-059", 100410>>,
    <<"TANGUT COMPONENT-060", 100411>>, <<"TANGUT COMPONENT-061", 100412>>,
    <<"TANGUT COMPONENT-062", 100413>>, <<"TANGUT COMPONENT-063", 100414>>,
    <<"TANGUT COMPONENT-064", 100415>>, <<"TANGUT COMPONENT-065", 100416>>,
    <<"TANGUT COMPONENT-066", 100417>>, <<"TANGUT COMPONENT-067", 100418>>,
    <<"TANGUT COMPONENT-068", 100419>>, <<"TANGUT COMPONENT-069", 100420>>,
    <<"TANGUT COMPONENT-070", 100421>>, <<"TANGUT COMPONENT-071", 100422>>,
    <<"TANGUT COMPONENT-072", 100423>>, <<"TANGUT COMPONENT-073", 100424>>,
    <<"TANGUT COMPONENT-074", 100425>>, <<"TANGUT COMPONENT-075", 100426>>,
    <<"TANGUT COMPONENT-076", 100427>>, <<"TANGUT COMPONENT-077", 100428>>,
    <<"TANGUT COMPONENT-078", 100429>>, <<"TANGUT COMPONENT-079", 100430>>,
    <<"TANGUT COMPONENT-080", 100431>>, <<"TANGUT COMPONENT-081", 100432>>,
    <<"TANGUT COMPONENT-082", 100433>>, <<"TANGUT COMPONENT-083", 100434>>,
    <<"TANGUT COMPONENT-084", 100435>>, <<"TANGUT COMPONENT-085", 100436>>,
    <<"TANGUT COMPONENT-086", 100437>>, <<"TANGUT COMPONENT-087", 100438>>,
    <<"TANGUT COMPONENT-088", 100439>>, <<"TANGUT COMPONENT-089", 100440>>,
    <<"TANGUT COMPONENT-090", 100441>>, <<"TANGUT COMPONENT-091", 100442>>,
    <<"TANGUT COMPONENT-092", 100443>>, <<"TANGUT COMPONENT-093", 100444>>,
    <<"TANGUT COMPONENT-094", 100445>>, <<"TANGUT COMPONENT-095", 100446>>,
    <<"TANGUT COMPONENT-096", 100447>>, <<"TANGUT COMPONENT-097", 100448>>,
    <<"TANGUT COMPONENT-098", 100449>>, <<"TANGUT COMPONENT-099", 100450>>,
    <<"TANGUT COMPONENT-100", 100451>>, <<"TANGUT COMPONENT-101", 100452>>,
    <<"TANGUT COMPONENT-102", 100453>>, <<"TANGUT COMPONENT-103", 100454>>,
    <<"TANGUT COMPONENT-104", 100455>>, <<"TANGUT COMPONENT-105", 100456>>,
    <<"TANGUT COMPONENT-106", 100457>>, <<"TANGUT COMPONENT-107", 100458>>,
    <<"TANGUT COMPONENT-108", 100459>>, <<"TANGUT COMPONENT-109", 100460>>,
    <<"TANGUT COMPONENT-110", 100461>>, <<"TANGUT COMPONENT-111", 100462>>,
    <<"TANGUT COMPONENT-112", 100463>>, <<"TANGUT COMPONENT-113", 100464>>,
    <<"TANGUT COMPONENT-114", 100465>>, <<"TANGUT COMPONENT-115", 100466>>,
    <<"TANGUT COMPONENT-116", 100467>>, <<"TANGUT COMPONENT-117", 100468>>,
    <<"TANGUT COMPONENT-118", 100469>>, <<"TANGUT COMPONENT-119", 100470>>,
    <<"TANGUT COMPONENT-120", 100471>>, <<"TANGUT COMPONENT-121", 100472>>,
    <<"TANGUT COMPONENT-122", 100473>>, <<"TANGUT COMPONENT-123", 100474>>,
    <<"TANGUT COMPONENT-124", 100475>>, <<"TANGUT COMPONENT-125", 100476>>,
    <<"TANGUT COMPONENT-126", 100477>>, <<"TANGUT COMPONENT-127", 100478>>,
    <<"TANGUT COMPONENT-128", 100479>>, <<"TANGUT COMPONENT-129", 100480>>,
    <<"TANGUT COMPONENT-130", 100481>>, <<"TANGUT COMPONENT-131", 100482>>,
    <<"TANGUT COMPONENT-132", 100483>>, <<"TANGUT COMPONENT-133", 100484>>,
    <<"TANGUT COMPONENT-134", 100485>>, <<"TANGUT COMPONENT-135", 100486>>,
    <<"TANGUT COMPONENT-136", 100487>>, <<"TANGUT COMPONENT-137", 100488>>,
    <<"TANGUT COMPONENT-138", 100489>>, <<"TANGUT COMPONENT-139", 100490>>,
    <<"TANGUT COMPONENT-140", 100491>>, <<"TANGUT COMPONENT-141", 100492>>,
    <<"TANGUT COMPONENT-142", 100493>>, <<"TANGUT COMPONENT-143", 100494>>,
    <<"TANGUT COMPONENT-144", 100495>>, <<"TANGUT COMPONENT-145", 100496>>,
    <<"TANGUT COMPONENT-146", 100497>>, <<"TANGUT COMPONENT-147", 100498>>,
    <<"TANGUT COMPONENT-148", 100499>>, <<"TANGUT COMPONENT-149", 100500>>,
    <<"TANGUT COMPONENT-150", 100501>>, <<"TANGUT COMPONENT-151", 100502>>,
    <<"TANGUT COMPONENT-152", 100503>>, <<"TANGUT COMPONENT-153", 100504>>,
    <<"TANGUT COMPONENT-154", 100505>>, <<"TANGUT COMPONENT-155", 100506>>,
    <<"TANGUT COMPONENT-156", 100507>>, <<"TANGUT COMPONENT-157", 100508>>,
    <<"TANGUT COMPONENT-158", 100509>>, <<"TANGUT COMPONENT-159", 100510>>,
    <<"TANGUT COMPONENT-160", 100511>>, <<"TANGUT COMPONENT-161", 100512>>,
    <<"TANGUT COMPONENT-162", 100513>>, <<"TANGUT COMPONENT-163", 100514>>,
    <<"TANGUT COMPONENT-164", 100515>>, <<"TANGUT COMPONENT-165", 100516>>,
    <<"TANGUT COMPONENT-166", 100517>>, <<"TANGUT COMPONENT-167", 100518>>,
    <<"TANGUT COMPONENT-168", 100519>>, <<"TANGUT COMPONENT-169", 100520>>,
    <<"TANGUT COMPONENT-170", 100521>>, <<"TANGUT COMPONENT-171", 100522>>,
    <<"TANGUT COMPONENT-172", 100523>>, <<"TANGUT COMPONENT-173", 100524>>,
    <<"TANGUT COMPONENT-174", 100525>>, <<"TANGUT COMPONENT-175", 100526>>,
    <<"TANGUT COMPONENT-176", 100527>>, <<"TANGUT COMPONENT-177", 100528>>,
    <<"TANGUT COMPONENT-178", 100529>>, <<"TANGUT COMPONENT-179", 100530>>,
    <<"TANGUT COMPONENT-180", 100531>>, <<"TANGUT COMPONENT-181", 100532>>,
    <<"TANGUT COMPONENT-182", 100533>>, <<"TANGUT COMPONENT-183", 100534>>,
    <<"TANGUT COMPONENT-184", 100535>>, <<"TANGUT COMPONENT-185", 100536>>,
    <<"TANGUT COMPONENT-186", 100537>>, <<"TANGUT COMPONENT-187", 100538>>,
    <<"TANGUT COMPONENT-188", 100539>>, <<"TANGUT COMPONENT-189", 100540>>,
    <<"TANGUT COMPONENT-190", 100541>>, <<"TANGUT COMPONENT-191", 100542>>,
    <<"TANGUT COMPONENT-192", 100543>>, <<"TANGUT COMPONENT-193", 100544>>,
    <<"TANGUT COMPONENT-194", 100545>>, <<"TANGUT COMPONENT-195", 100546>>,
    <<"TANGUT COMPONENT-196", 100547>>, <<"TANGUT COMPONENT-197", 100548>>,
    <<"TANGUT COMPONENT-198", 100549>>, <<"TANGUT COMPONENT-199", 100550>>,
    <<"TANGUT COMPONENT-200", 100551>>, <<"TANGUT COMPONENT-201", 100552>>,
    <<"TANGUT COMPONENT-202", 100553>>, <<"TANGUT COMPONENT-203", 100554>>,
    <<"TANGUT COMPONENT-204", 100555>>, <<"TANGUT COMPONENT-205", 100556>>,
    <<"TANGUT COMPONENT-206", 100557>>, <<"TANGUT COMPONENT-207", 100558>>,
    <<"TANGUT COMPONENT-208", 100559>>, <<"TANGUT COMPONENT-209", 100560>>,
    <<"TANGUT COMPONENT-210", 100561>>, <<"TANGUT COMPONENT-211", 100562>>,
    <<"TANGUT COMPONENT-212", 100563>>, <<"TANGUT COMPONENT-213", 100564>>,
    <<"TANGUT COMPONENT-214", 100565>>, <<"TANGUT COMPONENT-215", 100566>>,
    <<"TANGUT COMPONENT-216", 100567>>, <<"TANGUT COMPONENT-217", 100568>>,
    <<"TANGUT COMPONENT-218", 100569>>, <<"TANGUT COMPONENT-219", 100570>>,
    <<"TANGUT COMPONENT-220", 100571>>, <<"TANGUT COMPONENT-221", 100572>>,
    <<"TANGUT COMPONENT-222", 100573>>, <<"TANGUT COMPONENT-223", 100574>>,
    <<"TANGUT COMPONENT-224", 100575>>, <<"TANGUT COMPONENT-225", 100576>>,
    <<"TANGUT COMPONENT-226", 100577>>, <<"TANGUT COMPONENT-227", 100578>>,
    <<"TANGUT COMPONENT-228", 100579>>, <<"TANGUT COMPONENT-229", 100580>>,
    <<"TANGUT COMPONENT-230", 100581>>, <<"TANGUT COMPONENT-231", 100582>>,
    <<"TANGUT COMPONENT-232", 100583>>, <<"TANGUT COMPONENT-233", 100584>>,
    <<"TANGUT COMPONENT-234", 100585>>, <<"TANGUT COMPONENT-235", 100586>>,
    <<"TANGUT COMPONENT-236", 100587>>, <<"TANGUT COMPONENT-237", 100588>>,
    <<"TANGUT COMPONENT-238", 100589>>, <<"TANGUT COMPONENT-239", 100590>>,
    <<"TANGUT COMPONENT-240", 100591>>, <<"TANGUT COMPONENT-241", 100592>>,
    <<"TANGUT COMPONENT-242", 100593>>, <<"TANGUT COMPONENT-243", 100594>>,
    <<"TANGUT COMPONENT-244", 100595>>, <<"TANGUT COMPONENT-245", 100596>>,
    <<"TANGUT COMPONENT-246", 100597>>, <<"TANGUT COMPONENT-247", 100598>>,
    <<"TANGUT COMPONENT-248", 100599>>, <<"TANGUT COMPONENT-249", 100600>>,
    <<"TANGUT COMPONENT-250", 100601>>, <<"TANGUT COMPONENT-251", 100602>>,
    <<"TANGUT COMPONENT-252", 100603>>, <<"TANGUT COMPONENT-253", 100604>>,
    <<"TANGUT COMPONENT-254", 100605>>, <<"TANGUT COMPONENT-255", 100606>>,
    <<"TANGUT COMPONENT-256", 100607>>, <<"TANGUT COMPONENT-257", 100608>>,
    <<"TANGUT COMPONENT-258", 100609>>, <<"TANGUT COMPONENT-259", 100610>>,
    <<"TANGUT COMPONENT-260", 100611>>, <<"TANGUT COMPONENT-261", 100612>>,
    <<"TANGUT COMPONENT-262", 100613>>, <<"TANGUT COMPONENT-263", 100614>>,
    <<"TANGUT COMPONENT-264", 100615>>, <<"TANGUT COMPONENT-265", 100616>>,
    <<"TANGUT COMPONENT-266", 100617>>, <<"TANGUT COMPONENT-267", 100618>>,
    <<"TANGUT COMPONENT-268", 100619>>, <<"TANGUT COMPONENT-269", 100620>>,
    <<"TANGUT COMPONENT-270", 100621>>, <<"TANGUT COMPONENT-271", 100622>>,
    <<"TANGUT COMPONENT-272", 100623>>, <<"TANGUT COMPONENT-273", 100624>>,
    <<"TANGUT COMPONENT-274", 100625>>, <<"TANGUT COMPONENT-275", 100626>>,
    <<"TANGUT COMPONENT-276", 100627>>, <<"TANGUT COMPONENT-277", 100628>>,
    <<"TANGUT COMPONENT-278", 100629>>, <<"TANGUT COMPONENT-279", 100630>>,
    <<"TANGUT COMPONENT-280", 100631>>, <<"TANGUT COMPONENT-281", 100632>>,
    <<"TANGUT COMPONENT-282", 100633>>, <<"TANGUT COMPONENT-283", 100634>>,
    <<"TANGUT COMPONENT-284", 100635>>, <<"TANGUT COMPONENT-285", 100636>>,
    <<"TANGUT COMPONENT-286", 100637>>, <<"TANGUT COMPONENT-287", 100638>>,
    <<"TANGUT COMPONENT-288", 100639>>, <<"TANGUT COMPONENT-289", 100640>>,
    <<"TANGUT COMPONENT-290", 100641>>, <<"TANGUT COMPONENT-291", 100642>>,
    <<"TANGUT COMPONENT-292", 100643>>, <<"TANGUT COMPONENT-293", 100644>>,
    <<"TANGUT COMPONENT-294", 100645>>, <<"TANGUT COMPONENT-295", 100646>>,
    <<"TANGUT COMPONENT-296", 100647>>, <<"TANGUT COMPONENT-297", 100648>>,
    <<"TANGUT COMPONENT-298", 100649>>, <<"TANGUT COMPONENT-299", 100650>>,
    <<"TANGUT COMPONENT-300", 100651>>, <<"TANGUT COMPONENT-301", 100652>>,
    <<"TANGUT COMPONENT-302", 100653>>, <<"TANGUT COMPONENT-303", 100654>>,
    <<"TANGUT COMPONENT-304", 100655>>, <<"TANGUT COMPONENT-305", 100656>>,
    <<"TANGUT COMPONENT-306", 100657>>, <<"TANGUT COMPONENT-307", 100658>>,
    <<"TANGUT COMPONENT-308", 100659>>, <<"TANGUT COMPONENT-309", 100660>>,
    <<"TANGUT COMPONENT-310", 100661>>, <<"TANGUT COMPONENT-311", 100662>>,
    <<"TANGUT COMPONENT-312", 100663>>, <<"TANGUT COMPONENT-313", 100664>>,
    <<"TANGUT COMPONENT-314", 100665>>, <<"TANGUT COMPONENT-315", 100666>>,
    <<"TANGUT COMPONENT-316", 100667>>, <<"TANGUT COMPONENT-317", 100668>>,
    <<"TANGUT COMPONENT-318", 100669>>, <<"TANGUT COMPONENT-319", 100670>>,
    <<"TANGUT COMPONENT-320", 100671>>, <<"TANGUT COMPONENT-321", 100672>>,
    <<"TANGUT COMPONENT-322", 100673>>, <<"TANGUT COMPONENT-323", 100674>>,
    <<"TANGUT COMPONENT-324", 100675>>, <<"TANGUT COMPONENT-325", 100676>>,
    <<"TANGUT COMPONENT-326", 100677>>, <<"TANGUT COMPONENT-327", 100678>>,
    <<"TANGUT COMPONENT-328", 100679>>, <<"TANGUT COMPONENT-329", 100680>>,
    <<"TANGUT COMPONENT-330", 100681>>, <<"TANGUT COMPONENT-331", 100682>>,
    <<"TANGUT COMPONENT-332", 100683>>, <<"TANGUT COMPONENT-333", 100684>>,
    <<"TANGUT COMPONENT-334", 100685>>, <<"TANGUT COMPONENT-335", 100686>>,
    <<"TANGUT COMPONENT-336", 100687>>, <<"TANGUT COMPONENT-337", 100688>>,
    <<"TANGUT COMPONENT-338", 100689>>, <<"TANGUT COMPONENT-339", 100690>>,
    <<"TANGUT COMPONENT-340", 100691>>, <<"TANGUT COMPONENT-341", 100692>>,
    <<"TANGUT COMPONENT-342", 100693>>, <<"TANGUT COMPONENT-343", 100694>>,
    <<"TANGUT COMPONENT-344", 100695>>, <<"TANGUT COMPONENT-345", 100696>>,
    <<"TANGUT COMPONENT-346", 100697>>, <<"TANGUT COMPONENT-347", 100698>>,
    <<"TANGUT COMPONENT-348", 100699>>, <<"TANGUT COMPONENT-349", 100700>>,
    <<"TANGUT COMPONENT-350", 100701>>, <<"TANGUT COMPONENT-351", 100702>>,
    <<"TANGUT COMPONENT-352", 100703>>, <<"TANGUT COMPONENT-353", 100704>>,
    <<"TANGUT COMPONENT-354", 100705>>, <<"TANGUT COMPONENT-355", 100706>>,
    <<"TANGUT COMPONENT-356", 100707>>, <<"TANGUT COMPONENT-357", 100708>>,
    <<"TANGUT COMPONENT-358", 100709>>, <<"TANGUT COMPONENT-359", 100710>>,
    <<"TANGUT COMPONENT-360", 100711>>, <<"TANGUT COMPONENT-361", 100712>>,
    <<"TANGUT COMPONENT-362", 100713>>, <<"TANGUT COMPONENT-363", 100714>>,
    <<"TANGUT COMPONENT-364", 100715>>, <<"TANGUT COMPONENT-365", 100716>>,
    <<"TANGUT COMPONENT-366", 100717>>, <<"TANGUT COMPONENT-367", 100718>>,
    <<"TANGUT COMPONENT-368", 100719>>, <<"TANGUT COMPONENT-369", 100720>>,
    <<"TANGUT COMPONENT-370", 100721>>, <<"TANGUT COMPONENT-371", 100722>>,
    <<"TANGUT COMPONENT-372", 100723>>, <<"TANGUT COMPONENT-373", 100724>>,
    <<"TANGUT COMPONENT-374", 100725>>, <<"TANGUT COMPONENT-375", 100726>>,
    <<"TANGUT COMPONENT-376", 100727>>, <<"TANGUT COMPONENT-377", 100728>>,
    <<"TANGUT COMPONENT-378", 100729>>, <<"TANGUT COMPONENT-379", 100730>>,
    <<"TANGUT COMPONENT-380", 100731>>, <<"TANGUT COMPONENT-381", 100732>>,
    <<"TANGUT COMPONENT-382", 100733>>, <<"TANGUT COMPONENT-383", 100734>>,
    <<"TANGUT COMPONENT-384", 100735>>, <<"TANGUT COMPONENT-385", 100736>>,
    <<"TANGUT COMPONENT-386", 100737>>, <<"TANGUT COMPONENT-387", 100738>>,
    <<"TANGUT COMPONENT-388", 100739>>, <<"TANGUT COMPONENT-389", 100740>>,
    <<"TANGUT COMPONENT-390", 100741>>, <<"TANGUT COMPONENT-391", 100742>>,
    <<"TANGUT COMPONENT-392", 100743>>, <<"TANGUT COMPONENT-393", 100744>>,
    <<"TANGUT COMPONENT-394", 100745>>, <<"TANGUT COMPONENT-395", 100746>>,
    <<"TANGUT COMPONENT-396", 100747>>, <<"TANGUT COMPONENT-397", 100748>>,
    <<"TANGUT COMPONENT-398", 100749>>, <<"TANGUT COMPONENT-399", 100750>>,
    <<"TANGUT COMPONENT-400", 100751>>, <<"TANGUT COMPONENT-401", 100752>>,
    <<"TANGUT COMPONENT-402", 100753>>, <<"TANGUT COMPONENT-403", 100754>>,
    <<"TANGUT COMPONENT-404", 100755>>, <<"TANGUT COMPONENT-405", 100756>>,
    <<"TANGUT COMPONENT-406", 100757>>, <<"TANGUT COMPONENT-407", 100758>>,
    <<"TANGUT COMPONENT-408", 100759>>, <<"TANGUT COMPONENT-409", 100760>>,
    <<"TANGUT COMPONENT-410", 100761>>, <<"TANGUT COMPONENT-411", 100762>>,
    <<"TANGUT COMPONENT-412", 100763>>, <<"TANGUT COMPONENT-413", 100764>>,
    <<"TANGUT COMPONENT-414", 100765>>, <<"TANGUT COMPONENT-415", 100766>>,
    <<"TANGUT COMPONENT-416", 100767>>, <<"TANGUT COMPONENT-417", 100768>>,
    <<"TANGUT COMPONENT-418", 100769>>, <<"TANGUT COMPONENT-419", 100770>>,
    <<"TANGUT COMPONENT-420", 100771>>, <<"TANGUT COMPONENT-421", 100772>>,
    <<"TANGUT COMPONENT-422", 100773>>, <<"TANGUT COMPONENT-423", 100774>>,
    <<"TANGUT COMPONENT-424", 100775>>, <<"TANGUT COMPONENT-425", 100776>>,
    <<"TANGUT COMPONENT-426", 100777>>, <<"TANGUT COMPONENT-427", 100778>>,
    <<"TANGUT COMPONENT-428", 100779>>, <<"TANGUT COMPONENT-429", 100780>>,
    <<"TANGUT COMPONENT-430", 100781>>, <<"TANGUT COMPONENT-431", 100782>>,
    <<"TANGUT COMPONENT-432", 100783>>, <<"TANGUT COMPONENT-433", 100784>>,
    <<"TANGUT COMPONENT-434", 100785>>, <<"TANGUT COMPONENT-435", 100786>>,
    <<"TANGUT COMPONENT-436", 100787>>, <<"TANGUT COMPONENT-437", 100788>>,
    <<"TANGUT COMPONENT-438", 100789>>, <<"TANGUT COMPONENT-439", 100790>>,
    <<"TANGUT COMPONENT-440", 100791>>, <<"TANGUT COMPONENT-441", 100792>>,
    <<"TANGUT COMPONENT-442", 100793>>, <<"TANGUT COMPONENT-443", 100794>>,
    <<"TANGUT COMPONENT-444", 100795>>, <<"TANGUT COMPONENT-445", 100796>>,
    <<"TANGUT COMPONENT-446", 100797>>, <<"TANGUT COMPONENT-447", 100798>>,
    <<"TANGUT COMPONENT-448", 100799>>, <<"TANGUT COMPONENT-449", 100800>>,
    <<"TANGUT COMPONENT-450", 100801>>, <<"TANGUT COMPONENT-451", 100802>>,
    <<"TANGUT COMPONENT-452", 100803>>, <<"TANGUT COMPONENT-453", 100804>>,
    <<"TANGUT COMPONENT-454", 100805>>, <<"TANGUT COMPONENT-455", 100806>>,
    <<"TANGUT COMPONENT-456", 100807>>, <<"TANGUT COMPONENT-457", 100808>>,
    <<"TANGUT COMPONENT-458", 100809>>, <<"TANGUT COMPONENT-459", 100810>>,
    <<"TANGUT COMPONENT-460", 100811>>, <<"TANGUT COMPONENT-461", 100812>>,
    <<"TANGUT COMPONENT-462", 100813>>, <<"TANGUT COMPONENT-463", 100814>>,
    <<"TANGUT COMPONENT-464", 100815>>, <<"TANGUT COMPONENT-465", 100816>>,
    <<"TANGUT COMPONENT-466", 100817>>, <<"TANGUT COMPONENT-467", 100818>>,
    <<"TANGUT COMPONENT-468", 100819>>, <<"TANGUT COMPONENT-469", 100820>>,
    <<"TANGUT COMPONENT-470", 100821>>, <<"TANGUT COMPONENT-471", 100822>>,
    <<"TANGUT COMPONENT-472", 100823>>, <<"TANGUT COMPONENT-473", 100824>>,
    <<"TANGUT COMPONENT-474", 100825>>, <<"TANGUT COMPONENT-475", 100826>>,
    <<"TANGUT COMPONENT-476", 100827>>, <<"TANGUT COMPONENT-477", 100828>>,
    <<"TANGUT COMPONENT-478", 100829>>, <<"TANGUT COMPONENT-479", 100830>>,
    <<"TANGUT COMPONENT-480", 100831>>, <<"TANGUT COMPONENT-481", 100832>>,
    <<"TANGUT COMPONENT-482", 100833>>, <<"TANGUT COMPONENT-483", 100834>>,
    <<"TANGUT COMPONENT-484", 100835>>, <<"TANGUT COMPONENT-485", 100836>>,
    <<"TANGUT COMPONENT-486", 100837>>, <<"TANGUT COMPONENT-487", 100838>>,
    <<"TANGUT COMPONENT-488", 100839>>, <<"TANGUT COMPONENT-489", 100840>>,
    <<"TANGUT COMPONENT-490", 100841>>, <<"TANGUT COMPONENT-491", 100842>>,
    <<"TANGUT COMPONENT-492", 100843>>, <<"TANGUT COMPONENT-493", 100844>>,
    <<"TANGUT COMPONENT-494", 100845>>, <<"TANGUT COMPONENT-495", 100846>>,
    <<"TANGUT COMPONENT-496", 100847>>, <<"TANGUT COMPONENT-497", 100848>>,
    <<"TANGUT COMPONENT-498", 100849>>, <<"TANGUT COMPONENT-499", 100850>>,
    <<"TANGUT COMPONENT-500", 100851>>, <<"TANGUT COMPONENT-501", 100852>>,
    <<"TANGUT COMPONENT-502", 100853>>, <<"TANGUT COMPONENT-503", 100854>>,
    <<"TANGUT COMPONENT-504", 100855>>, <<"TANGUT COMPONENT-505", 100856>>,
    <<"TANGUT COMPONENT-506", 100857>>, <<"TANGUT COMPONENT-507", 100858>>,
    <<"TANGUT COMPONENT-508", 100859>>, <<"TANGUT COMPONENT-509", 100860>>,
    <<"TANGUT COMPONENT-510", 100861>>, <<"TANGUT COMPONENT-511", 100862>>,
    <<"TANGUT COMPONENT-512", 100863>>, <<"TANGUT COMPONENT-513", 100864>>,
    <<"TANGUT COMPONENT-514", 100865>>, <<"TANGUT COMPONENT-515", 100866>>,
    <<"TANGUT COMPONENT-516", 100867>>, <<"TANGUT COMPONENT-517", 100868>>,
    <<"TANGUT COMPONENT-518", 100869>>, <<"TANGUT COMPONENT-519", 100870>>,
    <<"TANGUT COMPONENT-520", 100871>>, <<"TANGUT COMPONENT-521", 100872>>,
    <<"TANGUT COMPONENT-522", 100873>>, <<"TANGUT COMPONENT-523", 100874>>,
    <<"TANGUT COMPONENT-524", 100875>>, <<"TANGUT COMPONENT-525", 100876>>,
    <<"TANGUT COMPONENT-526", 100877>>, <<"TANGUT COMPONENT-527", 100878>>,
    <<"TANGUT COMPONENT-528", 100879>>, <<"TANGUT COMPONENT-529", 100880>>,
    <<"TANGUT COMPONENT-530", 100881>>, <<"TANGUT COMPONENT-531", 100882>>,
    <<"TANGUT COMPONENT-532", 100883>>, <<"TANGUT COMPONENT-533", 100884>>,
    <<"TANGUT COMPONENT-534", 100885>>, <<"TANGUT COMPONENT-535", 100886>>,
    <<"TANGUT COMPONENT-536", 100887>>, <<"TANGUT COMPONENT-537", 100888>>,
    <<"TANGUT COMPONENT-538", 100889>>, <<"TANGUT COMPONENT-539", 100890>>,
    <<"TANGUT COMPONENT-540", 100891>>, <<"TANGUT COMPONENT-541", 100892>>,
    <<"TANGUT COMPONENT-542", 100893>>, <<"TANGUT COMPONENT-543", 100894>>,
    <<"TANGUT COMPONENT-544", 100895>>, <<"TANGUT COMPONENT-545", 100896>>,
    <<"TANGUT COMPONENT-546", 100897>>, <<"TANGUT COMPONENT-547", 100898>>,
    <<"TANGUT COMPONENT-548", 100899>>, <<"TANGUT COMPONENT-549", 100900>>,
    <<"TANGUT COMPONENT-550", 100901>>, <<"TANGUT COMPONENT-551", 100902>>,
    <<"TANGUT COMPONENT-552", 100903>>, <<"TANGUT COMPONENT-553", 100904>>,
    <<"TANGUT COMPONENT-554", 100905>>, <<"TANGUT COMPONENT-555", 100906>>,
    <<"TANGUT COMPONENT-556", 100907>>, <<"TANGUT COMPONENT-557", 100908>>,
    <<"TANGUT COMPONENT-558", 100909>>, <<"TANGUT COMPONENT-559", 100910>>,
    <<"TANGUT COMPONENT-560", 100911>>, <<"TANGUT COMPONENT-561", 100912>>,
    <<"TANGUT COMPONENT-562", 100913>>, <<"TANGUT COMPONENT-563", 100914>>,
    <<"TANGUT COMPONENT-564", 100915>>, <<"TANGUT COMPONENT-565", 100916>>,
    <<"TANGUT COMPONENT-566", 100917>>, <<"TANGUT COMPONENT-567", 100918>>,
    <<"TANGUT COMPONENT-568", 100919>>, <<"TANGUT COMPONENT-569", 100920>>,
    <<"TANGUT COMPONENT-570", 100921>>, <<"TANGUT COMPONENT-571", 100922>>,
    <<"TANGUT COMPONENT-572", 100923>>, <<"TANGUT COMPONENT-573", 100924>>,
    <<"TANGUT COMPONENT-574", 100925>>, <<"TANGUT COMPONENT-575", 100926>>,
    <<"TANGUT COMPONENT-576", 100927>>, <<"TANGUT COMPONENT-577", 100928>>,
    <<"TANGUT COMPONENT-578", 100929>>, <<"TANGUT COMPONENT-579", 100930>>,
    <<"TANGUT COMPONENT-580", 100931>>, <<"TANGUT COMPONENT-581", 100932>>,
    <<"TANGUT COMPONENT-582", 100933>>, <<"TANGUT COMPONENT-583", 100934>>,
    <<"TANGUT COMPONENT-584", 100935>>, <<"TANGUT COMPONENT-585", 100936>>,
    <<"TANGUT COMPONENT-586", 100937>>, <<"TANGUT COMPONENT-587", 100938>>,
    <<"TANGUT COMPONENT-588", 100939>>, <<"TANGUT COMPONENT-589", 100940>>,
    <<"TANGUT COMPONENT-590", 100941>>, <<"TANGUT COMPONENT-591", 100942>>,
    <<"TANGUT COMPONENT-592", 100943>>, <<"TANGUT COMPONENT-593", 100944>>,
    <<"TANGUT COMPONENT-594", 100945>>, <<"TANGUT COMPONENT-595", 100946>>,
    <<"TANGUT COMPONENT-596", 100947>>, <<"TANGUT COMPONENT-597", 100948>>,
    <<"TANGUT COMPONENT-598", 100949>>, <<"TANGUT COMPONENT-599", 100950>>,
    <<"TANGUT COMPONENT-600", 100951>>, <<"TANGUT COMPONENT-601", 100952>>,
    <<"TANGUT COMPONENT-602", 100953>>, <<"TANGUT COMPONENT-603", 100954>>,
    <<"TANGUT COMPONENT-604", 100955>>, <<"TANGUT COMPONENT-605", 100956>>,
    <<"TANGUT COMPONENT-606", 100957>>, <<"TANGUT COMPONENT-607", 100958>>,
    <<"TANGUT COMPONENT-608", 100959>>, <<"TANGUT COMPONENT-609", 100960>>,
    <<"TANGUT COMPONENT-610", 100961>>, <<"TANGUT COMPONENT-611", 100962>>,
    <<"TANGUT COMPONENT-612", 100963>>, <<"TANGUT COMPONENT-613", 100964>>,
    <<"TANGUT COMPONENT-614", 100965>>, <<"TANGUT COMPONENT-615", 100966>>,
    <<"TANGUT COMPONENT-616", 100967>>, <<"TANGUT COMPONENT-617", 100968>>,
    <<"TANGUT COMPONENT-618", 100969>>, <<"TANGUT COMPONENT-619", 100970>>,
    <<"TANGUT COMPONENT-620", 100971>>, <<"TANGUT COMPONENT-621", 100972>>,
    <<"TANGUT COMPONENT-622", 100973>>, <<"TANGUT COMPONENT-623", 100974>>,
    <<"TANGUT COMPONENT-624", 100975>>, <<"TANGUT COMPONENT-625", 100976>>,
    <<"TANGUT COMPONENT-626", 100977>>, <<"TANGUT COMPONENT-627", 100978>>,
    <<"TANGUT COMPONENT-628", 100979>>, <<"TANGUT COMPONENT-629", 100980>>,
    <<"TANGUT COMPONENT-630", 100981>>, <<"TANGUT COMPONENT-631", 100982>>,
    <<"TANGUT COMPONENT-632", 100983>>, <<"TANGUT COMPONENT-633", 100984>>,
    <<"TANGUT COMPONENT-634", 100985>>, <<"TANGUT COMPONENT-635", 100986>>,
    <<"TANGUT COMPONENT-636", 100987>>, <<"TANGUT COMPONENT-637", 100988>>,
    <<"TANGUT COMPONENT-638", 100989>>, <<"TANGUT COMPONENT-639", 100990>>,
    <<"TANGUT COMPONENT-640", 100991>>, <<"TANGUT COMPONENT-641", 100992>>,
    <<"TANGUT COMPONENT-642", 100993>>, <<"TANGUT COMPONENT-643", 100994>>,
    <<"TANGUT COMPONENT-644", 100995>>, <<"TANGUT COMPONENT-645", 100996>>,
    <<"TANGUT COMPONENT-646", 100997>>, <<"TANGUT COMPONENT-647", 100998>>,
    <<"TANGUT COMPONENT-648", 100999>>, <<"TANGUT COMPONENT-649", 101000>>,
    <<"TANGUT COMPONENT-650", 101001>>, <<"TANGUT COMPONENT-651", 101002>>,
    <<"TANGUT COMPONENT-652", 101003>>, <<"TANGUT COMPONENT-653", 101004>>,
    <<"TANGUT COMPONENT-654", 101005>>, <<"TANGUT COMPONENT-655", 101006>>,
    <<"TANGUT COMPONENT-656", 101007>>, <<"TANGUT COMPONENT-657", 101008>>,
    <<"TANGUT COMPONENT-658", 101009>>, <<"TANGUT COMPONENT-659", 101010>>,
    <<"TANGUT COMPONENT-660", 101011>>, <<"TANGUT COMPONENT-661", 101012>>,
    <<"TANGUT COMPONENT-662", 101013>>, <<"TANGUT COMPONENT-663", 101014>>,
    <<"TANGUT COMPONENT-664", 101015>>, <<"TANGUT COMPONENT-665", 101016>>,
    <<"TANGUT COMPONENT-666", 101017>>, <<"TANGUT COMPONENT-667", 101018>>,
    <<"TANGUT COMPONENT-668", 101019>>, <<"TANGUT COMPONENT-669", 101020>>,
    <<"TANGUT COMPONENT-670", 101021>>, <<"TANGUT COMPONENT-671", 101022>>,
    <<"TANGUT COMPONENT-672", 101023>>, <<"TANGUT COMPONENT-673", 101024>>,
    <<"TANGUT COMPONENT-674", 101025>>, <<"TANGUT COMPONENT-675", 101026>>,
    <<"TANGUT COMPONENT-676", 101027>>, <<"TANGUT COMPONENT-677", 101028>>,
    <<"TANGUT COMPONENT-678", 101029>>, <<"TANGUT COMPONENT-679", 101030>>,
    <<"TANGUT COMPONENT-680", 101031>>, <<"TANGUT COMPONENT-681", 101032>>,
    <<"TANGUT COMPONENT-682", 101033>>, <<"TANGUT COMPONENT-683", 101034>>,
    <<"TANGUT COMPONENT-684", 101035>>, <<"TANGUT COMPONENT-685", 101036>>,
    <<"TANGUT COMPONENT-686", 101037>>, <<"TANGUT COMPONENT-687", 101038>>,
    <<"TANGUT COMPONENT-688", 101039>>, <<"TANGUT COMPONENT-689", 101040>>,
    <<"TANGUT COMPONENT-690", 101041>>, <<"TANGUT COMPONENT-691", 101042>>,
    <<"TANGUT COMPONENT-692", 101043>>, <<"TANGUT COMPONENT-693", 101044>>,
    <<"TANGUT COMPONENT-694", 101045>>, <<"TANGUT COMPONENT-695", 101046>>,
    <<"TANGUT COMPONENT-696", 101047>>, <<"TANGUT COMPONENT-697", 101048>>,
    <<"TANGUT COMPONENT-698", 101049>>, <<"TANGUT COMPONENT-699", 101050>>,
    <<"TANGUT COMPONENT-700", 101051>>, <<"TANGUT COMPONENT-701", 101052>>,
    <<"TANGUT COMPONENT-702", 101053>>, <<"TANGUT COMPONENT-703", 101054>>,
    <<"TANGUT COMPONENT-704", 101055>>, <<"TANGUT COMPONENT-705", 101056>>,
    <<"TANGUT COMPONENT-706", 101057>>, <<"TANGUT COMPONENT-707", 101058>>,
    <<"TANGUT COMPONENT-708", 101059>>, <<"TANGUT COMPONENT-709", 101060>>,
    <<"TANGUT COMPONENT-710", 101061>>, <<"TANGUT COMPONENT-711", 101062>>,
    <<"TANGUT COMPONENT-712", 101063>>, <<"TANGUT COMPONENT-713", 101064>>,
    <<"TANGUT COMPONENT-714", 101065>>, <<"TANGUT COMPONENT-715", 101066>>,
    <<"TANGUT COMPONENT-716", 101067>>, <<"TANGUT COMPONENT-717", 101068>>,
    <<"TANGUT COMPONENT-718", 101069>>, <<"TANGUT COMPONENT-719", 101070>>,
    <<"TANGUT COMPONENT-720", 101071>>, <<"TANGUT COMPONENT-721", 101072>>,
    <<"TANGUT COMPONENT-722", 101073>>, <<"TANGUT COMPONENT-723", 101074>>,
    <<"TANGUT COMPONENT-724", 101075>>, <<"TANGUT COMPONENT-725", 101076>>,
    <<"TANGUT COMPONENT-726", 101077>>, <<"TANGUT COMPONENT-727", 101078>>,
    <<"TANGUT COMPONENT-728", 101079>>, <<"TANGUT COMPONENT-729", 101080>>,
    <<"TANGUT COMPONENT-730", 101081>>, <<"TANGUT COMPONENT-731", 101082>>,
    <<"TANGUT COMPONENT-732", 101083>>, <<"TANGUT COMPONENT-733", 101084>>,
    <<"TANGUT COMPONENT-734", 101085>>, <<"TANGUT COMPONENT-735", 101086>>,
    <<"TANGUT COMPONENT-736", 101087>>, <<"TANGUT COMPONENT-737", 101088>>,
    <<"TANGUT COMPONENT-738", 101089>>, <<"TANGUT COMPONENT-739", 101090>>,
    <<"TANGUT COMPONENT-740", 101091>>, <<"TANGUT COMPONENT-741", 101092>>,
    <<"TANGUT COMPONENT-742", 101093>>, <<"TANGUT COMPONENT-743", 101094>>,
    <<"TANGUT COMPONENT-744", 101095>>, <<"TANGUT COMPONENT-745", 101096>>,
    <<"TANGUT COMPONENT-746", 101097>>, <<"TANGUT COMPONENT-747", 101098>>,
    <<"TANGUT COMPONENT-748", 101099>>, <<"TANGUT COMPONENT-749", 101100>>,
    <<"TANGUT COMPONENT-750", 101101>>, <<"TANGUT COMPONENT-751", 101102>>,
    <<"TANGUT COMPONENT-752", 101103>>, <<"TANGUT COMPONENT-753", 101104>>,
    <<"TANGUT COMPONENT-754", 101105>>, <<"TANGUT COMPONENT-755", 101106>>,
    <<"TANGUT COMPONENT-756", 101107>>, <<"TANGUT COMPONENT-757", 101108>>,
    <<"TANGUT COMPONENT-758", 101109>>, <<"TANGUT COMPONENT-759", 101110>>,
    <<"TANGUT COMPONENT-760", 101111>>, <<"TANGUT COMPONENT-761", 101112>>,
    <<"TANGUT COMPONENT-762", 101113>>, <<"TANGUT COMPONENT-763", 101114>>,
    <<"TANGUT COMPONENT-764", 101115>>, <<"TANGUT COMPONENT-765", 101116>>,
    <<"TANGUT COMPONENT-766", 101117>>, <<"TANGUT COMPONENT-767", 101118>>,
    <<"TANGUT COMPONENT-768", 101119>>, <<"KHITAN SMALL SCRIPT CHARACTER-18B00", 101120>>,
    <<"KHITAN SMALL SCRIPT CHARACTER-18B01", 101121>>,
    <<"KHITAN SMALL SCRIPT CHARACTER-18B02", 101122>>,
    <<"KHITAN SMALL SCRIPT CHARACTER-18B03", 101123>>,
    <<"KHITAN SMALL SCRIPT CHARACTER-18B04", 101124>>,
    <<"KHITAN SMALL SCRIPT CHARACTER-18B05", 101125>>,
    <<"KHITAN SMALL SCRIPT CHARACTER-18B06", 101126>>,
    <<"KHITAN SMALL SCRIPT CHARACTER-18B07", 101127>>,
    <<"KHITAN SMALL SCRIPT CHARACTER-18B08", 101128>>,
    <<"KHITAN SMALL SCRIPT CHARACTER-18B09", 101129>>,
    <<"KHITAN SMALL SCRIPT CHARACTER-18B0A", 101130>>,
    <<"KHITAN SMALL SCRIPT CHARACTER-18B0B", 101131>>,
    <<"KHITAN SMALL SCRIPT CHARACTER-18B0C", 101132>>,
    <<"KHITAN SMALL SCRIPT CHARACTER-18B0D", 101133>>,
    <<"KHITAN SMALL SCRIPT CHARACTER-18B0E", 101134>>,
    <<"KHITAN SMALL SCRIPT CHARACTER-18B0F", 101135>>,
    <<"KHITAN SMALL SCRIPT CHARACTER-18B10", 101136>>,
    <<"KHITAN SMALL SCRIPT CHARACTER-18B11", 101137>>,
    <<"KHITAN SMALL SCRIPT CHARACTER-18B12", 101138>>,
    <<"KHITAN SMALL SCRIPT CHARACTER-18B13", 101139>>,
    <<"KHITAN SMALL SCRIPT CHARACTER-18B14", 101140>>,
    <<"KHITAN SMALL SCRIPT CHARACTER-18B15", 101141>>,
    <<"KHITAN SMALL SCRIPT CHARACTER-18B16", 101142>>,
    <<"KHITAN SMALL SCRIPT CHARACTER-18B17", 101143>>,
    <<"KHITAN SMALL SCRIPT CHARACTER-18B18", 101144>>,
    <<"KHITAN SMALL SCRIPT CHARACTER-18B19", 101145>>,
    <<"KHITAN SMALL SCRIPT CHARACTER-18B1A", 101146>>,
    <<"KHITAN SMALL SCRIPT CHARACTER-18B1B", 101147>>,
    <<"KHITAN SMALL SCRIPT CHARACTER-18B1C", 101148>>,
    <<"KHITAN SMALL SCRIPT CHARACTER-18B1D", 101149>>,
    <<"KHITAN SMALL SCRIPT CHARACTER-18B1E", 101150>>,
    <<"KHITAN SMALL SCRIPT CHARACTER-18B1F", 101151>>,
    <<"KHITAN SMALL SCRIPT CHARACTER-18B20", 101152>>,
    <<"KHITAN SMALL SCRIPT CHARACTER-18B21", 101153>>,
    <<"KHITAN SMALL SCRIPT CHARACTER-18B22", 101154>>,
    <<"KHITAN SMALL SCRIPT CHARACTER-18B23", 101155>>,
    <<"KHITAN SMALL SCRIPT CHARACTER-18B24", 101156>>,
    <<"KHITAN SMALL SCRIPT CHARACTER-18B25", 101157>>,
    <<"KHITAN SMALL SCRIPT CHARACTER-18B26", 101158>>,
    <<"KHITAN SMALL SCRIPT CHARACTER-18B27", 101159>>,
    <<"KHITAN SMALL SCRIPT CHARACTER-18B28", 101160>>,
    <<"KHITAN SMALL SCRIPT CHARACTER-18B29", 101161>>,
    <<"KHITAN SMALL SCRIPT CHARACTER-18B2A", 101162>>,
    <<"KHITAN SMALL SCRIPT CHARACTER-18B2B", 101163>>,
    <<"KHITAN SMALL SCRIPT CHARACTER-18B2C", 101164>>,
    <<"KHITAN SMALL SCRIPT CHARACTER-18B2D", 101165>>,
    <<"KHITAN SMALL SCRIPT CHARACTER-18B2E", 101166>>,
    <<"KHITAN SMALL SCRIPT CHARACTER-18B2F", 101167>>,
    <<"KHITAN SMALL SCRIPT CHARACTER-18B30", 101168>>,
    <<"KHITAN SMALL SCRIPT CHARACTER-18B31", 101169>>,
    <<"KHITAN SMALL SCRIPT CHARACTER-18B32", 101170>>,
    <<"KHITAN SMALL SCRIPT CHARACTER-18B33", 101171>>,
    <<"KHITAN SMALL SCRIPT CHARACTER-18B34", 101172>>,
    <<"KHITAN SMALL SCRIPT CHARACTER-18B35", 101173>>,
    <<"KHITAN SMALL SCRIPT CHARACTER-18B36", 101174>>,
    <<"KHITAN SMALL SCRIPT CHARACTER-18B37", 101175>>,
    <<"KHITAN SMALL SCRIPT CHARACTER-18B38", 101176>>,
    <<"KHITAN SMALL SCRIPT CHARACTER-18B39", 101177>>,
    <<"KHITAN SMALL SCRIPT CHARACTER-18B3A", 101178>>,
    <<"KHITAN SMALL SCRIPT CHARACTER-18B3B", 101179>>,
    <<"KHITAN SMALL SCRIPT CHARACTER-18B3C", 101180>>,
    <<"KHITAN SMALL SCRIPT CHARACTER-18B3D", 101181>>,
    <<"KHITAN SMALL SCRIPT CHARACTER-18B3E", 101182>>,
    <<"KHITAN SMALL SCRIPT CHARACTER-18B3F", 101183>>,
    <<"KHITAN SMALL SCRIPT CHARACTER-18B40", 101184>>,
    <<"KHITAN SMALL SCRIPT CHARACTER-18B41", 101185>>,
    <<"KHITAN SMALL SCRIPT CHARACTER-18B42", 101186>>,
    <<"KHITAN SMALL SCRIPT CHARACTER-18B43", 101187>>,
    <<"KHITAN SMALL SCRIPT CHARACTER-18B44", 101188>>,
    <<"KHITAN SMALL SCRIPT CHARACTER-18B45", 101189>>,
    <<"KHITAN SMALL SCRIPT CHARACTER-18B46", 101190>>,
    <<"KHITAN SMALL SCRIPT CHARACTER-18B47", 101191>>,
    <<"KHITAN SMALL SCRIPT CHARACTER-18B48", 101192>>,
    <<"KHITAN SMALL SCRIPT CHARACTER-18B49", 101193>>,
    <<"KHITAN SMALL SCRIPT CHARACTER-18B4A", 101194>>,
    <<"KHITAN SMALL SCRIPT CHARACTER-18B4B", 101195>>,
    <<"KHITAN SMALL SCRIPT CHARACTER-18B4C", 101196>>,
    <<"KHITAN SMALL SCRIPT CHARACTER-18B4D", 101197>>,
    <<"KHITAN SMALL SCRIPT CHARACTER-18B4E", 101198>>,
    <<"KHITAN SMALL SCRIPT CHARACTER-18B4F", 101199>>,
    <<"KHITAN SMALL SCRIPT CHARACTER-18B50", 101200>>,
    <<"KHITAN SMALL SCRIPT CHARACTER-18B51", 101201>>,
    <<"KHITAN SMALL SCRIPT CHARACTER-18B52", 101202>>,
    <<"KHITAN SMALL SCRIPT CHARACTER-18B53", 101203>>,
    <<"KHITAN SMALL SCRIPT CHARACTER-18B54", 101204>>,
    <<"KHITAN SMALL SCRIPT CHARACTER-18B55", 101205>>,
    <<"KHITAN SMALL SCRIPT CHARACTER-18B56", 101206>>,
    <<"KHITAN SMALL SCRIPT CHARACTER-18B57", 101207>>,
    <<"KHITAN SMALL SCRIPT CHARACTER-18B58", 101208>>,
    <<"KHITAN SMALL SCRIPT CHARACTER-18B59", 101209>>,
    <<"KHITAN SMALL SCRIPT CHARACTER-18B5A", 101210>>,
    <<"KHITAN SMALL SCRIPT CHARACTER-18B5B", 101211>>,
    <<"KHITAN SMALL SCRIPT CHARACTER-18B5C", 101212>>,
    <<"KHITAN SMALL SCRIPT CHARACTER-18B5D", 101213>>,
    <<"KHITAN SMALL SCRIPT CHARACTER-18B5E", 101214>>,
    <<"KHITAN SMALL SCRIPT CHARACTER-18B5F", 101215>>,
    <<"KHITAN SMALL SCRIPT CHARACTER-18B60", 101216>>,
    <<"KHITAN SMALL SCRIPT CHARACTER-18B61", 101217>>,
    <<"KHITAN SMALL SCRIPT CHARACTER-18B62", 101218>>,
    <<"KHITAN SMALL SCRIPT CHARACTER-18B63", 101219>>,
    <<"KHITAN SMALL SCRIPT CHARACTER-18B64", 101220>>,
    <<"KHITAN SMALL SCRIPT CHARACTER-18B65", 101221>>,
    <<"KHITAN SMALL SCRIPT CHARACTER-18B66", 101222>>,
    <<"KHITAN SMALL SCRIPT CHARACTER-18B67", 101223>>,
    <<"KHITAN SMALL SCRIPT CHARACTER-18B68", 101224>>,
    <<"KHITAN SMALL SCRIPT CHARACTER-18B69", 101225>>,
    <<"KHITAN SMALL SCRIPT CHARACTER-18B6A", 101226>>,
    <<"KHITAN SMALL SCRIPT CHARACTER-18B6B", 101227>>,
    <<"KHITAN SMALL SCRIPT CHARACTER-18B6C", 101228>>,
    <<"KHITAN SMALL SCRIPT CHARACTER-18B6D", 101229>>,
    <<"KHITAN SMALL SCRIPT CHARACTER-18B6E", 101230>>,
    <<"KHITAN SMALL SCRIPT CHARACTER-18B6F", 101231>>,
    <<"KHITAN SMALL SCRIPT CHARACTER-18B70", 101232>>,
    <<"KHITAN SMALL SCRIPT CHARACTER-18B71", 101233>>,
    <<"KHITAN SMALL SCRIPT CHARACTER-18B72", 101234>>,
    <<"KHITAN SMALL SCRIPT CHARACTER-18B73", 101235>>,
    <<"KHITAN SMALL SCRIPT CHARACTER-18B74", 101236>>,
    <<"KHITAN SMALL SCRIPT CHARACTER-18B75", 101237>>,
    <<"KHITAN SMALL SCRIPT CHARACTER-18B76", 101238>>,
    <<"KHITAN SMALL SCRIPT CHARACTER-18B77", 101239>>,
    <<"KHITAN SMALL SCRIPT CHARACTER-18B78", 101240>>,
    <<"KHITAN SMALL SCRIPT CHARACTER-18B79", 101241>>,
    <<"KHITAN SMALL SCRIPT CHARACTER-18B7A", 101242>>,
    <<"KHITAN SMALL SCRIPT CHARACTER-18B7B", 101243>>,
    <<"KHITAN SMALL SCRIPT CHARACTER-18B7C", 101244>>,
    <<"KHITAN SMALL SCRIPT CHARACTER-18B7D", 101245>>,
    <<"KHITAN SMALL SCRIPT CHARACTER-18B7E", 101246>>,
    <<"KHITAN SMALL SCRIPT CHARACTER-18B7F", 101247>>,
    <<"KHITAN SMALL SCRIPT CHARACTER-18B80", 101248>>,
    <<"KHITAN SMALL SCRIPT CHARACTER-18B81", 101249>>,
    <<"KHITAN SMALL SCRIPT CHARACTER-18B82", 101250>>,
    <<"KHITAN SMALL SCRIPT CHARACTER-18B83", 101251>>,
    <<"KHITAN SMALL SCRIPT CHARACTER-18B84", 101252>>,
    <<"KHITAN SMALL SCRIPT CHARACTER-18B85", 101253>>,
    <<"KHITAN SMALL SCRIPT CHARACTER-18B86", 101254>>,
    <<"KHITAN SMALL SCRIPT CHARACTER-18B87", 101255>>,
    <<"KHITAN SMALL SCRIPT CHARACTER-18B88", 101256>>,
    <<"KHITAN SMALL SCRIPT CHARACTER-18B89", 101257>>,
    <<"KHITAN SMALL SCRIPT CHARACTER-18B8A", 101258>>,
    <<"KHITAN SMALL SCRIPT CHARACTER-18B8B", 101259>>,
    <<"KHITAN SMALL SCRIPT CHARACTER-18B8C", 101260>>,
    <<"KHITAN SMALL SCRIPT CHARACTER-18B8D", 101261>>,
    <<"KHITAN SMALL SCRIPT CHARACTER-18B8E", 101262>>,
    <<"KHITAN SMALL SCRIPT CHARACTER-18B8F", 101263>>,
    <<"KHITAN SMALL SCRIPT CHARACTER-18B90", 101264>>,
    <<"KHITAN SMALL SCRIPT CHARACTER-18B91", 101265>>,
    <<"KHITAN SMALL SCRIPT CHARACTER-18B92", 101266>>,
    <<"KHITAN SMALL SCRIPT CHARACTER-18B93", 101267>>,
    <<"KHITAN SMALL SCRIPT CHARACTER-18B94", 101268>>,
    <<"KHITAN SMALL SCRIPT CHARACTER-18B95", 101269>>,
    <<"KHITAN SMALL SCRIPT CHARACTER-18B96", 101270>>,
    <<"KHITAN SMALL SCRIPT CHARACTER-18B97", 101271>>,
    <<"KHITAN SMALL SCRIPT CHARACTER-18B98", 101272>>,
    <<"KHITAN SMALL SCRIPT CHARACTER-18B99", 101273>>,
    <<"KHITAN SMALL SCRIPT CHARACTER-18B9A", 101274>>,
    <<"KHITAN SMALL SCRIPT CHARACTER-18B9B", 101275>>,
    <<"KHITAN SMALL SCRIPT CHARACTER-18B9C", 101276>>,
    <<"KHITAN SMALL SCRIPT CHARACTER-18B9D", 101277>>,
    <<"KHITAN SMALL SCRIPT CHARACTER-18B9E", 101278>>,
    <<"KHITAN SMALL SCRIPT CHARACTER-18B9F", 101279>>,
    <<"KHITAN SMALL SCRIPT CHARACTER-18BA0", 101280>>,
    <<"KHITAN SMALL SCRIPT CHARACTER-18BA1", 101281>>,
    <<"KHITAN SMALL SCRIPT CHARACTER-18BA2", 101282>>,
    <<"KHITAN SMALL SCRIPT CHARACTER-18BA3", 101283>>,
    <<"KHITAN SMALL SCRIPT CHARACTER-18BA4", 101284>>,
    <<"KHITAN SMALL SCRIPT CHARACTER-18BA5", 101285>>,
    <<"KHITAN SMALL SCRIPT CHARACTER-18BA6", 101286>>,
    <<"KHITAN SMALL SCRIPT CHARACTER-18BA7", 101287>>,
    <<"KHITAN SMALL SCRIPT CHARACTER-18BA8", 101288>>,
    <<"KHITAN SMALL SCRIPT CHARACTER-18BA9", 101289>>,
    <<"KHITAN SMALL SCRIPT CHARACTER-18BAA", 101290>>,
    <<"KHITAN SMALL SCRIPT CHARACTER-18BAB", 101291>>,
    <<"KHITAN SMALL SCRIPT CHARACTER-18BAC", 101292>>,
    <<"KHITAN SMALL SCRIPT CHARACTER-18BAD", 101293>>,
    <<"KHITAN SMALL SCRIPT CHARACTER-18BAE", 101294>>,
    <<"KHITAN SMALL SCRIPT CHARACTER-18BAF", 101295>>,
    <<"KHITAN SMALL SCRIPT CHARACTER-18BB0", 101296>>,
    <<"KHITAN SMALL SCRIPT CHARACTER-18BB1", 101297>>,
    <<"KHITAN SMALL SCRIPT CHARACTER-18BB2", 101298>>,
    <<"KHITAN SMALL SCRIPT CHARACTER-18BB3", 101299>>,
    <<"KHITAN SMALL SCRIPT CHARACTER-18BB4", 101300>>,
    <<"KHITAN SMALL SCRIPT CHARACTER-18BB5", 101301>>,
    <<"KHITAN SMALL SCRIPT CHARACTER-18BB6", 101302>>,
    <<"KHITAN SMALL SCRIPT CHARACTER-18BB7", 101303>>,
    <<"KHITAN SMALL SCRIPT CHARACTER-18BB8", 101304>>,
    <<"KHITAN SMALL SCRIPT CHARACTER-18BB9", 101305>>,
    <<"KHITAN SMALL SCRIPT CHARACTER-18BBA", 101306>>,
    <<"KHITAN SMALL SCRIPT CHARACTER-18BBB", 101307>>,
    <<"KHITAN SMALL SCRIPT CHARACTER-18BBC", 101308>>,
    <<"KHITAN SMALL SCRIPT CHARACTER-18BBD", 101309>>,
    <<"KHITAN SMALL SCRIPT CHARACTER-18BBE", 101310>>,
    <<"KHITAN SMALL SCRIPT CHARACTER-18BBF", 101311>>,
    <<"KHITAN SMALL SCRIPT CHARACTER-18BC0", 101312>>,
    <<"KHITAN SMALL SCRIPT CHARACTER-18BC1", 101313>>,
    <<"KHITAN SMALL SCRIPT CHARACTER-18BC2", 101314>>,
    <<"KHITAN SMALL SCRIPT CHARACTER-18BC3", 101315>>,
    <<"KHITAN SMALL SCRIPT CHARACTER-18BC4", 101316>>,
    <<"KHITAN SMALL SCRIPT CHARACTER-18BC5", 101317>>,
    <<"KHITAN SMALL SCRIPT CHARACTER-18BC6", 101318>>,
    <<"KHITAN SMALL SCRIPT CHARACTER-18BC7", 101319>>,
    <<"KHITAN SMALL SCRIPT CHARACTER-18BC8", 101320>>,
    <<"KHITAN SMALL SCRIPT CHARACTER-18BC9", 101321>>,
    <<"KHITAN SMALL SCRIPT CHARACTER-18BCA", 101322>>,
    <<"KHITAN SMALL SCRIPT CHARACTER-18BCB", 101323>>,
    <<"KHITAN SMALL SCRIPT CHARACTER-18BCC", 101324>>,
    <<"KHITAN SMALL SCRIPT CHARACTER-18BCD", 101325>>,
    <<"KHITAN SMALL SCRIPT CHARACTER-18BCE", 101326>>,
    <<"KHITAN SMALL SCRIPT CHARACTER-18BCF", 101327>>,
    <<"KHITAN SMALL SCRIPT CHARACTER-18BD0", 101328>>,
    <<"KHITAN SMALL SCRIPT CHARACTER-18BD1", 101329>>,
    <<"KHITAN SMALL SCRIPT CHARACTER-18BD2", 101330>>,
    <<"KHITAN SMALL SCRIPT CHARACTER-18BD3", 101331>>,
    <<"KHITAN SMALL SCRIPT CHARACTER-18BD4", 101332>>,
    <<"KHITAN SMALL SCRIPT CHARACTER-18BD5", 101333>>,
    <<"KHITAN SMALL SCRIPT CHARACTER-18BD6", 101334>>,
    <<"KHITAN SMALL SCRIPT CHARACTER-18BD7", 101335>>,
    <<"KHITAN SMALL SCRIPT CHARACTER-18BD8", 101336>>,
    <<"KHITAN SMALL SCRIPT CHARACTER-18BD9", 101337>>,
    <<"KHITAN SMALL SCRIPT CHARACTER-18BDA", 101338>>,
    <<"KHITAN SMALL SCRIPT CHARACTER-18BDB", 101339>>,
    <<"KHITAN SMALL SCRIPT CHARACTER-18BDC", 101340>>,
    <<"KHITAN SMALL SCRIPT CHARACTER-18BDD", 101341>>,
    <<"KHITAN SMALL SCRIPT CHARACTER-18BDE", 101342>>,
    <<"KHITAN SMALL SCRIPT CHARACTER-18BDF", 101343>>,
    <<"KHITAN SMALL SCRIPT CHARACTER-18BE0", 101344>>,
    <<"KHITAN SMALL SCRIPT CHARACTER-18BE1", 101345>>,
    <<"KHITAN SMALL SCRIPT CHARACTER-18BE2", 101346>>,
    <<"KHITAN SMALL SCRIPT CHARACTER-18BE3", 101347>>,
    <<"KHITAN SMALL SCRIPT CHARACTER-18BE4", 101348>>,
    <<"KHITAN SMALL SCRIPT CHARACTER-18BE5", 101349>>,
    <<"KHITAN SMALL SCRIPT CHARACTER-18BE6", 101350>>,
    <<"KHITAN SMALL SCRIPT CHARACTER-18BE7", 101351>>,
    <<"KHITAN SMALL SCRIPT CHARACTER-18BE8", 101352>>,
    <<"KHITAN SMALL SCRIPT CHARACTER-18BE9", 101353>>,
    <<"KHITAN SMALL SCRIPT CHARACTER-18BEA", 101354>>,
    <<"KHITAN SMALL SCRIPT CHARACTER-18BEB", 101355>>,
    <<"KHITAN SMALL SCRIPT CHARACTER-18BEC", 101356>>,
    <<"KHITAN SMALL SCRIPT CHARACTER-18BED", 101357>>,
    <<"KHITAN SMALL SCRIPT CHARACTER-18BEE", 101358>>,
    <<"KHITAN SMALL SCRIPT CHARACTER-18BEF", 101359>>,
    <<"KHITAN SMALL SCRIPT CHARACTER-18BF0", 101360>>,
    <<"KHITAN SMALL SCRIPT CHARACTER-18BF1", 101361>>,
    <<"KHITAN SMALL SCRIPT CHARACTER-18BF2", 101362>>,
    <<"KHITAN SMALL SCRIPT CHARACTER-18BF3", 101363>>,
    <<"KHITAN SMALL SCRIPT CHARACTER-18BF4", 101364>>,
    <<"KHITAN SMALL SCRIPT CHARACTER-18BF5", 101365>>,
    <<"KHITAN SMALL SCRIPT CHARACTER-18BF6", 101366>>,
    <<"KHITAN SMALL SCRIPT CHARACTER-18BF7", 101367>>,
    <<"KHITAN SMALL SCRIPT CHARACTER-18BF8", 101368>>,
    <<"KHITAN SMALL SCRIPT CHARACTER-18BF9", 101369>>,
    <<"KHITAN SMALL SCRIPT CHARACTER-18BFA", 101370>>,
    <<"KHITAN SMALL SCRIPT CHARACTER-18BFB", 101371>>,
    <<"KHITAN SMALL SCRIPT CHARACTER-18BFC", 101372>>,
    <<"KHITAN SMALL SCRIPT CHARACTER-18BFD", 101373>>,
    <<"KHITAN SMALL SCRIPT CHARACTER-18BFE", 101374>>,
    <<"KHITAN SMALL SCRIPT CHARACTER-18BFF", 101375>>,
    <<"KHITAN SMALL SCRIPT CHARACTER-18C00", 101376>>,
    <<"KHITAN SMALL SCRIPT CHARACTER-18C01", 101377>>,
    <<"KHITAN SMALL SCRIPT CHARACTER-18C02", 101378>>,
    <<"KHITAN SMALL SCRIPT CHARACTER-18C03", 101379>>,
    <<"KHITAN SMALL SCRIPT CHARACTER-18C04", 101380>>,
    <<"KHITAN SMALL SCRIPT CHARACTER-18C05", 101381>>,
    <<"KHITAN SMALL SCRIPT CHARACTER-18C06", 101382>>,
    <<"KHITAN SMALL SCRIPT CHARACTER-18C07", 101383>>,
    <<"KHITAN SMALL SCRIPT CHARACTER-18C08", 101384>>,
    <<"KHITAN SMALL SCRIPT CHARACTER-18C09", 101385>>,
    <<"KHITAN SMALL SCRIPT CHARACTER-18C0A", 101386>>,
    <<"KHITAN SMALL SCRIPT CHARACTER-18C0B", 101387>>,
    <<"KHITAN SMALL SCRIPT CHARACTER-18C0C", 101388>>,
    <<"KHITAN SMALL SCRIPT CHARACTER-18C0D", 101389>>,
    <<"KHITAN SMALL SCRIPT CHARACTER-18C0E", 101390>>,
    <<"KHITAN SMALL SCRIPT CHARACTER-18C0F", 101391>>,
    <<"KHITAN SMALL SCRIPT CHARACTER-18C10", 101392>>,
    <<"KHITAN SMALL SCRIPT CHARACTER-18C11", 101393>>,
    <<"KHITAN SMALL SCRIPT CHARACTER-18C12", 101394>>,
    <<"KHITAN SMALL SCRIPT CHARACTER-18C13", 101395>>,
    <<"KHITAN SMALL SCRIPT CHARACTER-18C14", 101396>>,
    <<"KHITAN SMALL SCRIPT CHARACTER-18C15", 101397>>,
    <<"KHITAN SMALL SCRIPT CHARACTER-18C16", 101398>>,
    <<"KHITAN SMALL SCRIPT CHARACTER-18C17", 101399>>,
    <<"KHITAN SMALL SCRIPT CHARACTER-18C18", 101400>>,
    <<"KHITAN SMALL SCRIPT CHARACTER-18C19", 101401>>,
    <<"KHITAN SMALL SCRIPT CHARACTER-18C1A", 101402>>,
    <<"KHITAN SMALL SCRIPT CHARACTER-18C1B", 101403>>,
    <<"KHITAN SMALL SCRIPT CHARACTER-18C1C", 101404>>,
    <<"KHITAN SMALL SCRIPT CHARACTER-18C1D", 101405>>,
    <<"KHITAN SMALL SCRIPT CHARACTER-18C1E", 101406>>,
    <<"KHITAN SMALL SCRIPT CHARACTER-18C1F", 101407>>,
    <<"KHITAN SMALL SCRIPT CHARACTER-18C20", 101408>>,
    <<"KHITAN SMALL SCRIPT CHARACTER-18C21", 101409>>,
    <<"KHITAN SMALL SCRIPT CHARACTER-18C22", 101410>>,
    <<"KHITAN SMALL SCRIPT CHARACTER-18C23", 101411>>,
    <<"KHITAN SMALL SCRIPT CHARACTER-18C24", 101412>>,
    <<"KHITAN SMALL SCRIPT CHARACTER-18C25", 101413>>,
    <<"KHITAN SMALL SCRIPT CHARACTER-18C26", 101414>>,
    <<"KHITAN SMALL SCRIPT CHARACTER-18C27", 101415>>,
    <<"KHITAN SMALL SCRIPT CHARACTER-18C28", 101416>>,
    <<"KHITAN SMALL SCRIPT CHARACTER-18C29", 101417>>,
    <<"KHITAN SMALL SCRIPT CHARACTER-18C2A", 101418>>,
    <<"KHITAN SMALL SCRIPT CHARACTER-18C2B", 101419>>,
    <<"KHITAN SMALL SCRIPT CHARACTER-18C2C", 101420>>,
    <<"KHITAN SMALL SCRIPT CHARACTER-18C2D", 101421>>,
    <<"KHITAN SMALL SCRIPT CHARACTER-18C2E", 101422>>,
    <<"KHITAN SMALL SCRIPT CHARACTER-18C2F", 101423>>,
    <<"KHITAN SMALL SCRIPT CHARACTER-18C30", 101424>>,
    <<"KHITAN SMALL SCRIPT CHARACTER-18C31", 101425>>,
    <<"KHITAN SMALL SCRIPT CHARACTER-18C32", 101426>>,
    <<"KHITAN SMALL SCRIPT CHARACTER-18C33", 101427>>,
    <<"KHITAN SMALL SCRIPT CHARACTER-18C34", 101428>>,
    <<"KHITAN SMALL SCRIPT CHARACTER-18C35", 101429>>,
    <<"KHITAN SMALL SCRIPT CHARACTER-18C36", 101430>>,
    <<"KHITAN SMALL SCRIPT CHARACTER-18C37", 101431>>,
    <<"KHITAN SMALL SCRIPT CHARACTER-18C38", 101432>>,
    <<"KHITAN SMALL SCRIPT CHARACTER-18C39", 101433>>,
    <<"KHITAN SMALL SCRIPT CHARACTER-18C3A", 101434>>,
    <<"KHITAN SMALL SCRIPT CHARACTER-18C3B", 101435>>,
    <<"KHITAN SMALL SCRIPT CHARACTER-18C3C", 101436>>,
    <<"KHITAN SMALL SCRIPT CHARACTER-18C3D", 101437>>,
    <<"KHITAN SMALL SCRIPT CHARACTER-18C3E", 101438>>,
    <<"KHITAN SMALL SCRIPT CHARACTER-18C3F", 101439>>,
    <<"KHITAN SMALL SCRIPT CHARACTER-18C40", 101440>>,
    <<"KHITAN SMALL SCRIPT CHARACTER-18C41", 101441>>,
    <<"KHITAN SMALL SCRIPT CHARACTER-18C42", 101442>>,
    <<"KHITAN SMALL SCRIPT CHARACTER-18C43", 101443>>,
    <<"KHITAN SMALL SCRIPT CHARACTER-18C44", 101444>>,
    <<"KHITAN SMALL SCRIPT CHARACTER-18C45", 101445>>,
    <<"KHITAN SMALL SCRIPT CHARACTER-18C46", 101446>>,
    <<"KHITAN SMALL SCRIPT CHARACTER-18C47", 101447>>,
    <<"KHITAN SMALL SCRIPT CHARACTER-18C48", 101448>>,
    <<"KHITAN SMALL SCRIPT CHARACTER-18C49", 101449>>,
    <<"KHITAN SMALL SCRIPT CHARACTER-18C4A", 101450>>,
    <<"KHITAN SMALL SCRIPT CHARACTER-18C4B", 101451>>,
    <<"KHITAN SMALL SCRIPT CHARACTER-18C4C", 101452>>,
    <<"KHITAN SMALL SCRIPT CHARACTER-18C4D", 101453>>,
    <<"KHITAN SMALL SCRIPT CHARACTER-18C4E", 101454>>,
    <<"KHITAN SMALL SCRIPT CHARACTER-18C4F", 101455>>,
    <<"KHITAN SMALL SCRIPT CHARACTER-18C50", 101456>>,
    <<"KHITAN SMALL SCRIPT CHARACTER-18C51", 101457>>,
    <<"KHITAN SMALL SCRIPT CHARACTER-18C52", 101458>>,
    <<"KHITAN SMALL SCRIPT CHARACTER-18C53", 101459>>,
    <<"KHITAN SMALL SCRIPT CHARACTER-18C54", 101460>>,
    <<"KHITAN SMALL SCRIPT CHARACTER-18C55", 101461>>,
    <<"KHITAN SMALL SCRIPT CHARACTER-18C56", 101462>>,
    <<"KHITAN SMALL SCRIPT CHARACTER-18C57", 101463>>,
    <<"KHITAN SMALL SCRIPT CHARACTER-18C58", 101464>>,
    <<"KHITAN SMALL SCRIPT CHARACTER-18C59", 101465>>,
    <<"KHITAN SMALL SCRIPT CHARACTER-18C5A", 101466>>,
    <<"KHITAN SMALL SCRIPT CHARACTER-18C5B", 101467>>,
    <<"KHITAN SMALL SCRIPT CHARACTER-18C5C", 101468>>,
    <<"KHITAN SMALL SCRIPT CHARACTER-18C5D", 101469>>,
    <<"KHITAN SMALL SCRIPT CHARACTER-18C5E", 101470>>,
    <<"KHITAN SMALL SCRIPT CHARACTER-18C5F", 101471>>,
    <<"KHITAN SMALL SCRIPT CHARACTER-18C60", 101472>>,
    <<"KHITAN SMALL SCRIPT CHARACTER-18C61", 101473>>,
    <<"KHITAN SMALL SCRIPT CHARACTER-18C62", 101474>>,
    <<"KHITAN SMALL SCRIPT CHARACTER-18C63", 101475>>,
    <<"KHITAN SMALL SCRIPT CHARACTER-18C64", 101476>>,
    <<"KHITAN SMALL SCRIPT CHARACTER-18C65", 101477>>,
    <<"KHITAN SMALL SCRIPT CHARACTER-18C66", 101478>>,
    <<"KHITAN SMALL SCRIPT CHARACTER-18C67", 101479>>,
    <<"KHITAN SMALL SCRIPT CHARACTER-18C68", 101480>>,
    <<"KHITAN SMALL SCRIPT CHARACTER-18C69", 101481>>,
    <<"KHITAN SMALL SCRIPT CHARACTER-18C6A", 101482>>,
    <<"KHITAN SMALL SCRIPT CHARACTER-18C6B", 101483>>,
    <<"KHITAN SMALL SCRIPT CHARACTER-18C6C", 101484>>,
    <<"KHITAN SMALL SCRIPT CHARACTER-18C6D", 101485>>,
    <<"KHITAN SMALL SCRIPT CHARACTER-18C6E", 101486>>,
    <<"KHITAN SMALL SCRIPT CHARACTER-18C6F", 101487>>,
    <<"KHITAN SMALL SCRIPT CHARACTER-18C70", 101488>>,
    <<"KHITAN SMALL SCRIPT CHARACTER-18C71", 101489>>,
    <<"KHITAN SMALL SCRIPT CHARACTER-18C72", 101490>>,
    <<"KHITAN SMALL SCRIPT CHARACTER-18C73", 101491>>,
    <<"KHITAN SMALL SCRIPT CHARACTER-18C74", 101492>>,
    <<"KHITAN SMALL SCRIPT CHARACTER-18C75", 101493>>,
    <<"KHITAN SMALL SCRIPT CHARACTER-18C76", 101494>>,
    <<"KHITAN SMALL SCRIPT CHARACTER-18C77", 101495>>,
    <<"KHITAN SMALL SCRIPT CHARACTER-18C78", 101496>>,
    <<"KHITAN SMALL SCRIPT CHARACTER-18C79", 101497>>,
    <<"KHITAN SMALL SCRIPT CHARACTER-18C7A", 101498>>,
    <<"KHITAN SMALL SCRIPT CHARACTER-18C7B", 101499>>,
    <<"KHITAN SMALL SCRIPT CHARACTER-18C7C", 101500>>,
    <<"KHITAN SMALL SCRIPT CHARACTER-18C7D", 101501>>,
    <<"KHITAN SMALL SCRIPT CHARACTER-18C7E", 101502>>,
    <<"KHITAN SMALL SCRIPT CHARACTER-18C7F", 101503>>,
    <<"KHITAN SMALL SCRIPT CHARACTER-18C80", 101504>>,
    <<"KHITAN SMALL SCRIPT CHARACTER-18C81", 101505>>,
    <<"KHITAN SMALL SCRIPT CHARACTER-18C82", 101506>>,
    <<"KHITAN SMALL SCRIPT CHARACTER-18C83", 101507>>,
    <<"KHITAN SMALL SCRIPT CHARACTER-18C84", 101508>>,
    <<"KHITAN SMALL SCRIPT CHARACTER-18C85", 101509>>,
    <<"KHITAN SMALL SCRIPT CHARACTER-18C86", 101510>>,
    <<"KHITAN SMALL SCRIPT CHARACTER-18C87", 101511>>,
    <<"KHITAN SMALL SCRIPT CHARACTER-18C88", 101512>>,
    <<"KHITAN SMALL SCRIPT CHARACTER-18C89", 101513>>,
    <<"KHITAN SMALL SCRIPT CHARACTER-18C8A", 101514>>,
    <<"KHITAN SMALL SCRIPT CHARACTER-18C8B", 101515>>,
    <<"KHITAN SMALL SCRIPT CHARACTER-18C8C", 101516>>,
    <<"KHITAN SMALL SCRIPT CHARACTER-18C8D", 101517>>,
    <<"KHITAN SMALL SCRIPT CHARACTER-18C8E", 101518>>,
    <<"KHITAN SMALL SCRIPT CHARACTER-18C8F", 101519>>,
    <<"KHITAN SMALL SCRIPT CHARACTER-18C90", 101520>>,
    <<"KHITAN SMALL SCRIPT CHARACTER-18C91", 101521>>,
    <<"KHITAN SMALL SCRIPT CHARACTER-18C92", 101522>>,
    <<"KHITAN SMALL SCRIPT CHARACTER-18C93", 101523>>,
    <<"KHITAN SMALL SCRIPT CHARACTER-18C94", 101524>>,
    <<"KHITAN SMALL SCRIPT CHARACTER-18C95", 101525>>,
    <<"KHITAN SMALL SCRIPT CHARACTER-18C96", 101526>>,
    <<"KHITAN SMALL SCRIPT CHARACTER-18C97", 101527>>,
    <<"KHITAN SMALL SCRIPT CHARACTER-18C98", 101528>>,
    <<"KHITAN SMALL SCRIPT CHARACTER-18C99", 101529>>,
    <<"KHITAN SMALL SCRIPT CHARACTER-18C9A", 101530>>,
    <<"KHITAN SMALL SCRIPT CHARACTER-18C9B", 101531>>,
    <<"KHITAN SMALL SCRIPT CHARACTER-18C9C", 101532>>,
    <<"KHITAN SMALL SCRIPT CHARACTER-18C9D", 101533>>,
    <<"KHITAN SMALL SCRIPT CHARACTER-18C9E", 101534>>,
    <<"KHITAN SMALL SCRIPT CHARACTER-18C9F", 101535>>,
    <<"KHITAN SMALL SCRIPT CHARACTER-18CA0", 101536>>,
    <<"KHITAN SMALL SCRIPT CHARACTER-18CA1", 101537>>,
    <<"KHITAN SMALL SCRIPT CHARACTER-18CA2", 101538>>,
    <<"KHITAN SMALL SCRIPT CHARACTER-18CA3", 101539>>,
    <<"KHITAN SMALL SCRIPT CHARACTER-18CA4", 101540>>,
    <<"KHITAN SMALL SCRIPT CHARACTER-18CA5", 101541>>,
    <<"KHITAN SMALL SCRIPT CHARACTER-18CA6", 101542>>,
    <<"KHITAN SMALL SCRIPT CHARACTER-18CA7", 101543>>,
    <<"KHITAN SMALL SCRIPT CHARACTER-18CA8", 101544>>,
    <<"KHITAN SMALL SCRIPT CHARACTER-18CA9", 101545>>,
    <<"KHITAN SMALL SCRIPT CHARACTER-18CAA", 101546>>,
    <<"KHITAN SMALL SCRIPT CHARACTER-18CAB", 101547>>,
    <<"KHITAN SMALL SCRIPT CHARACTER-18CAC", 101548>>,
    <<"KHITAN SMALL SCRIPT CHARACTER-18CAD", 101549>>,
    <<"KHITAN SMALL SCRIPT CHARACTER-18CAE", 101550>>,
    <<"KHITAN SMALL SCRIPT CHARACTER-18CAF", 101551>>,
    <<"KHITAN SMALL SCRIPT CHARACTER-18CB0", 101552>>,
    <<"KHITAN SMALL SCRIPT CHARACTER-18CB1", 101553>>,
    <<"KHITAN SMALL SCRIPT CHARACTER-18CB2", 101554>>,
    <<"KHITAN SMALL SCRIPT CHARACTER-18CB3", 101555>>,
    <<"KHITAN SMALL SCRIPT CHARACTER-18CB4", 101556>>,
    <<"KHITAN SMALL SCRIPT CHARACTER-18CB5", 101557>>,
    <<"KHITAN SMALL SCRIPT CHARACTER-18CB6", 101558>>,
    <<"KHITAN SMALL SCRIPT CHARACTER-18CB7", 101559>>,
    <<"KHITAN SMALL SCRIPT CHARACTER-18CB8", 101560>>,
    <<"KHITAN SMALL SCRIPT CHARACTER-18CB9", 101561>>,
    <<"KHITAN SMALL SCRIPT CHARACTER-18CBA", 101562>>,
    <<"KHITAN SMALL SCRIPT CHARACTER-18CBB", 101563>>,
    <<"KHITAN SMALL SCRIPT CHARACTER-18CBC", 101564>>,
    <<"KHITAN SMALL SCRIPT CHARACTER-18CBD", 101565>>,
    <<"KHITAN SMALL SCRIPT CHARACTER-18CBE", 101566>>,
    <<"KHITAN SMALL SCRIPT CHARACTER-18CBF", 101567>>,
    <<"KHITAN SMALL SCRIPT CHARACTER-18CC0", 101568>>,
    <<"KHITAN SMALL SCRIPT CHARACTER-18CC1", 101569>>,
    <<"KHITAN SMALL SCRIPT CHARACTER-18CC2", 101570>>,
    <<"KHITAN SMALL SCRIPT CHARACTER-18CC3", 101571>>,
    <<"KHITAN SMALL SCRIPT CHARACTER-18CC4", 101572>>,
    <<"KHITAN SMALL SCRIPT CHARACTER-18CC5", 101573>>,
    <<"KHITAN SMALL SCRIPT CHARACTER-18CC6", 101574>>,
    <<"KHITAN SMALL SCRIPT CHARACTER-18CC7", 101575>>,
    <<"KHITAN SMALL SCRIPT CHARACTER-18CC8", 101576>>,
    <<"KHITAN SMALL SCRIPT CHARACTER-18CC9", 101577>>,
    <<"KHITAN SMALL SCRIPT CHARACTER-18CCA", 101578>>,
    <<"KHITAN SMALL SCRIPT CHARACTER-18CCB", 101579>>,
    <<"KHITAN SMALL SCRIPT CHARACTER-18CCC", 101580>>,
    <<"KHITAN SMALL SCRIPT CHARACTER-18CCD", 101581>>,
    <<"KHITAN SMALL SCRIPT CHARACTER-18CCE", 101582>>,
    <<"KHITAN SMALL SCRIPT CHARACTER-18CCF", 101583>>,
    <<"KHITAN SMALL SCRIPT CHARACTER-18CD0", 101584>>,
    <<"KHITAN SMALL SCRIPT CHARACTER-18CD1", 101585>>,
    <<"KHITAN SMALL SCRIPT CHARACTER-18CD2", 101586>>,
    <<"KHITAN SMALL SCRIPT CHARACTER-18CD3", 101587>>,
    <<"KHITAN SMALL SCRIPT CHARACTER-18CD4", 101588>>,
    <<"KHITAN SMALL SCRIPT CHARACTER-18CD5", 101589>>, <<"KATAKANA LETTER MINNAN TONE-2", 110576>>,
    <<"KATAKANA LETTER MINNAN TONE-3", 110577>>, <<"KATAKANA LETTER MINNAN TONE-4", 110578>>,
    <<"KATAKANA LETTER MINNAN TONE-5", 110579>>, <<"KATAKANA LETTER MINNAN TONE-7", 110581>>,
    <<"KATAKANA LETTER MINNAN TONE-8", 110582>>, <<"KATAKANA LETTER MINNAN NASALIZED TONE-1", 110583>>,
    <<"KATAKANA LETTER MINNAN NASALIZED TONE-2", 110584>>,
    <<"KATAKANA LETTER MINNAN NASALIZED TONE-3", 110585>>,
    <<"KATAKANA LETTER MINNAN NASALIZED TONE-4", 110586>>,
    <<"KATAKANA LETTER MINNAN NASALIZED TONE-5", 110587>>,
    <<"KATAKANA LETTER MINNAN NASALIZED TONE-7", 110589>>,
    <<"KATAKANA LETTER MINNAN NASALIZED TONE-8", 110590>>, <<"KATAKANA LETTER ARCHAIC E", 110592>>,
    <<"HENTAIGANA LETTER E-1", 110593>>, <<"HIRAGANA LETTER ARCHAIC YE", 110593>>,
    <<"HENTAIGANA LETTER A-1", 110594>>, <<"HENTAIGANA LETTER A-2", 110595>>,
    <<"HENTAIGANA LETTER A-3", 110596>>, <<"HENTAIGANA LETTER A-WO", 110597>>,
    <<"HENTAIGANA LETTER I-1", 110598>>, <<"HENTAIGANA LETTER I-2", 110599>>,
    <<"HENTAIGANA LETTER I-3", 110600>>, <<"HENTAIGANA LETTER I-4", 110601>>,
    <<"HENTAIGANA LETTER U-1", 110602>>, <<"HENTAIGANA LETTER U-2", 110603>>,
    <<"HENTAIGANA LETTER U-3", 110604>>, <<"HENTAIGANA LETTER U-4", 110605>>,
    <<"HENTAIGANA LETTER U-5", 110606>>, <<"HENTAIGANA LETTER E-2", 110607>>,
    <<"HENTAIGANA LETTER E-3", 110608>>, <<"HENTAIGANA LETTER E-4", 110609>>,
    <<"HENTAIGANA LETTER E-5", 110610>>, <<"HENTAIGANA LETTER E-6", 110611>>,
    <<"HENTAIGANA LETTER O-1", 110612>>, <<"HENTAIGANA LETTER O-2", 110613>>,
    <<"HENTAIGANA LETTER O-3", 110614>>, <<"HENTAIGANA LETTER KA-1", 110615>>,
    <<"HENTAIGANA LETTER KA-2", 110616>>, <<"HENTAIGANA LETTER KA-3", 110617>>,
    <<"HENTAIGANA LETTER KA-4", 110618>>, <<"HENTAIGANA LETTER KA-5", 110619>>,
    <<"HENTAIGANA LETTER KA-6", 110620>>, <<"HENTAIGANA LETTER KA-7", 110621>>,
    <<"HENTAIGANA LETTER KA-8", 110622>>, <<"HENTAIGANA LETTER KA-9", 110623>>,
    <<"HENTAIGANA LETTER KA-10", 110624>>, <<"HENTAIGANA LETTER KA-11", 110625>>,
    <<"HENTAIGANA LETTER KA-KE", 110626>>, <<"HENTAIGANA LETTER KI-1", 110627>>,
    <<"HENTAIGANA LETTER KI-2", 110628>>, <<"HENTAIGANA LETTER KI-3", 110629>>,
    <<"HENTAIGANA LETTER KI-4", 110630>>, <<"HENTAIGANA LETTER KI-5", 110631>>,
    <<"HENTAIGANA LETTER KI-6", 110632>>, <<"HENTAIGANA LETTER KI-7", 110633>>,
    <<"HENTAIGANA LETTER KI-8", 110634>>, <<"HENTAIGANA LETTER KU-1", 110635>>,
    <<"HENTAIGANA LETTER KU-2", 110636>>, <<"HENTAIGANA LETTER KU-3", 110637>>,
    <<"HENTAIGANA LETTER KU-4", 110638>>, <<"HENTAIGANA LETTER KU-5", 110639>>,
    <<"HENTAIGANA LETTER KU-6", 110640>>, <<"HENTAIGANA LETTER KU-7", 110641>>,
    <<"HENTAIGANA LETTER KE-1", 110642>>, <<"HENTAIGANA LETTER KE-2", 110643>>,
    <<"HENTAIGANA LETTER KE-3", 110644>>, <<"HENTAIGANA LETTER KE-4", 110645>>,
    <<"HENTAIGANA LETTER KE-5", 110646>>, <<"HENTAIGANA LETTER KE-6", 110647>>,
    <<"HENTAIGANA LETTER KO-1", 110648>>, <<"HENTAIGANA LETTER KO-2", 110649>>,
    <<"HENTAIGANA LETTER KO-3", 110650>>, <<"HENTAIGANA LETTER KO-KI", 110651>>,
    <<"HENTAIGANA LETTER SA-1", 110652>>, <<"HENTAIGANA LETTER SA-2", 110653>>,
    <<"HENTAIGANA LETTER SA-3", 110654>>, <<"HENTAIGANA LETTER SA-4", 110655>>,
    <<"HENTAIGANA LETTER SA-5", 110656>>, <<"HENTAIGANA LETTER SA-6", 110657>>,
    <<"HENTAIGANA LETTER SA-7", 110658>>, <<"HENTAIGANA LETTER SA-8", 110659>>,
    <<"HENTAIGANA LETTER SI-1", 110660>>, <<"HENTAIGANA LETTER SI-2", 110661>>,
    <<"HENTAIGANA LETTER SI-3", 110662>>, <<"HENTAIGANA LETTER SI-4", 110663>>,
    <<"HENTAIGANA LETTER SI-5", 110664>>, <<"HENTAIGANA LETTER SI-6", 110665>>,
    <<"HENTAIGANA LETTER SU-1", 110666>>, <<"HENTAIGANA LETTER SU-2", 110667>>,
    <<"HENTAIGANA LETTER SU-3", 110668>>, <<"HENTAIGANA LETTER SU-4", 110669>>,
    <<"HENTAIGANA LETTER SU-5", 110670>>, <<"HENTAIGANA LETTER SU-6", 110671>>,
    <<"HENTAIGANA LETTER SU-7", 110672>>, <<"HENTAIGANA LETTER SU-8", 110673>>,
    <<"HENTAIGANA LETTER SE-1", 110674>>, <<"HENTAIGANA LETTER SE-2", 110675>>,
    <<"HENTAIGANA LETTER SE-3", 110676>>, <<"HENTAIGANA LETTER SE-4", 110677>>,
    <<"HENTAIGANA LETTER SE-5", 110678>>, <<"HENTAIGANA LETTER SO-1", 110679>>,
    <<"HENTAIGANA LETTER SO-2", 110680>>, <<"HENTAIGANA LETTER SO-3", 110681>>,
    <<"HENTAIGANA LETTER SO-4", 110682>>, <<"HENTAIGANA LETTER SO-5", 110683>>,
    <<"HENTAIGANA LETTER SO-6", 110684>>, <<"HENTAIGANA LETTER SO-7", 110685>>,
    <<"HENTAIGANA LETTER TA-1", 110686>>, <<"HENTAIGANA LETTER TA-2", 110687>>,
    <<"HENTAIGANA LETTER TA-3", 110688>>, <<"HENTAIGANA LETTER TA-4", 110689>>,
    <<"HENTAIGANA LETTER TI-1", 110690>>, <<"HENTAIGANA LETTER TI-2", 110691>>,
    <<"HENTAIGANA LETTER TI-3", 110692>>, <<"HENTAIGANA LETTER TI-4", 110693>>,
    <<"HENTAIGANA LETTER TI-5", 110694>>, <<"HENTAIGANA LETTER TI-6", 110695>>,
    <<"HENTAIGANA LETTER TI-7", 110696>>, <<"HENTAIGANA LETTER TU-1", 110697>>,
    <<"HENTAIGANA LETTER TU-2", 110698>>, <<"HENTAIGANA LETTER TU-3", 110699>>,
    <<"HENTAIGANA LETTER TU-4", 110700>>, <<"HENTAIGANA LETTER TU-TO", 110701>>,
    <<"HENTAIGANA LETTER TE-1", 110702>>, <<"HENTAIGANA LETTER TE-2", 110703>>,
    <<"HENTAIGANA LETTER TE-3", 110704>>, <<"HENTAIGANA LETTER TE-4", 110705>>,
    <<"HENTAIGANA LETTER TE-5", 110706>>, <<"HENTAIGANA LETTER TE-6", 110707>>,
    <<"HENTAIGANA LETTER TE-7", 110708>>, <<"HENTAIGANA LETTER TE-8", 110709>>,
    <<"HENTAIGANA LETTER TE-9", 110710>>, <<"HENTAIGANA LETTER TO-1", 110711>>,
    <<"HENTAIGANA LETTER TO-2", 110712>>, <<"HENTAIGANA LETTER TO-3", 110713>>,
    <<"HENTAIGANA LETTER TO-4", 110714>>, <<"HENTAIGANA LETTER TO-5", 110715>>,
    <<"HENTAIGANA LETTER TO-6", 110716>>, <<"HENTAIGANA LETTER TO-RA", 110717>>,
    <<"HENTAIGANA LETTER NA-1", 110718>>, <<"HENTAIGANA LETTER NA-2", 110719>>,
    <<"HENTAIGANA LETTER NA-3", 110720>>, <<"HENTAIGANA LETTER NA-4", 110721>>,
    <<"HENTAIGANA LETTER NA-5", 110722>>, <<"HENTAIGANA LETTER NA-6", 110723>>,
    <<"HENTAIGANA LETTER NA-7", 110724>>, <<"HENTAIGANA LETTER NA-8", 110725>>,
    <<"HENTAIGANA LETTER NA-9", 110726>>, <<"HENTAIGANA LETTER NI-1", 110727>>,
    <<"HENTAIGANA LETTER NI-2", 110728>>, <<"HENTAIGANA LETTER NI-3", 110729>>,
    <<"HENTAIGANA LETTER NI-4", 110730>>, <<"HENTAIGANA LETTER NI-5", 110731>>,
    <<"HENTAIGANA LETTER NI-6", 110732>>, <<"HENTAIGANA LETTER NI-7", 110733>>,
    <<"HENTAIGANA LETTER NI-TE", 110734>>, <<"HENTAIGANA LETTER NU-1", 110735>>,
    <<"HENTAIGANA LETTER NU-2", 110736>>, <<"HENTAIGANA LETTER NU-3", 110737>>,
    <<"HENTAIGANA LETTER NE-1", 110738>>, <<"HENTAIGANA LETTER NE-2", 110739>>,
    <<"HENTAIGANA LETTER NE-3", 110740>>, <<"HENTAIGANA LETTER NE-4", 110741>>,
    <<"HENTAIGANA LETTER NE-5", 110742>>, <<"HENTAIGANA LETTER NE-6", 110743>>,
    <<"HENTAIGANA LETTER NE-KO", 110744>>, <<"HENTAIGANA LETTER NO-1", 110745>>,
    <<"HENTAIGANA LETTER NO-2", 110746>>, <<"HENTAIGANA LETTER NO-3", 110747>>,
    <<"HENTAIGANA LETTER NO-4", 110748>>, <<"HENTAIGANA LETTER NO-5", 110749>>,
    <<"HENTAIGANA LETTER HA-1", 110750>>, <<"HENTAIGANA LETTER HA-2", 110751>>,
    <<"HENTAIGANA LETTER HA-3", 110752>>, <<"HENTAIGANA LETTER HA-4", 110753>>,
    <<"HENTAIGANA LETTER HA-5", 110754>>, <<"HENTAIGANA LETTER HA-6", 110755>>,
    <<"HENTAIGANA LETTER HA-7", 110756>>, <<"HENTAIGANA LETTER HA-8", 110757>>,
    <<"HENTAIGANA LETTER HA-9", 110758>>, <<"HENTAIGANA LETTER HA-10", 110759>>,
    <<"HENTAIGANA LETTER HA-11", 110760>>, <<"HENTAIGANA LETTER HI-1", 110761>>,
    <<"HENTAIGANA LETTER HI-2", 110762>>, <<"HENTAIGANA LETTER HI-3", 110763>>,
    <<"HENTAIGANA LETTER HI-4", 110764>>, <<"HENTAIGANA LETTER HI-5", 110765>>,
    <<"HENTAIGANA LETTER HI-6", 110766>>, <<"HENTAIGANA LETTER HI-7", 110767>>,
    <<"HENTAIGANA LETTER HU-1", 110768>>, <<"HENTAIGANA LETTER HU-2", 110769>>,
    <<"HENTAIGANA LETTER HU-3", 110770>>, <<"HENTAIGANA LETTER HE-1", 110771>>,
    <<"HENTAIGANA LETTER HE-2", 110772>>, <<"HENTAIGANA LETTER HE-3", 110773>>,
    <<"HENTAIGANA LETTER HE-4", 110774>>, <<"HENTAIGANA LETTER HE-5", 110775>>,
    <<"HENTAIGANA LETTER HE-6", 110776>>, <<"HENTAIGANA LETTER HE-7", 110777>>,
    <<"HENTAIGANA LETTER HO-1", 110778>>, <<"HENTAIGANA LETTER HO-2", 110779>>,
    <<"HENTAIGANA LETTER HO-3", 110780>>, <<"HENTAIGANA LETTER HO-4", 110781>>,
    <<"HENTAIGANA LETTER HO-5", 110782>>, <<"HENTAIGANA LETTER HO-6", 110783>>,
    <<"HENTAIGANA LETTER HO-7", 110784>>, <<"HENTAIGANA LETTER HO-8", 110785>>,
    <<"HENTAIGANA LETTER MA-1", 110786>>, <<"HENTAIGANA LETTER MA-2", 110787>>,
    <<"HENTAIGANA LETTER MA-3", 110788>>, <<"HENTAIGANA LETTER MA-4", 110789>>,
    <<"HENTAIGANA LETTER MA-5", 110790>>, <<"HENTAIGANA LETTER MA-6", 110791>>,
    <<"HENTAIGANA LETTER MA-7", 110792>>, <<"HENTAIGANA LETTER MI-1", 110793>>,
    <<"HENTAIGANA LETTER MI-2", 110794>>, <<"HENTAIGANA LETTER MI-3", 110795>>,
    <<"HENTAIGANA LETTER MI-4", 110796>>, <<"HENTAIGANA LETTER MI-5", 110797>>,
    <<"HENTAIGANA LETTER MI-6", 110798>>, <<"HENTAIGANA LETTER MI-7", 110799>>,
    <<"HENTAIGANA LETTER MU-1", 110800>>, <<"HENTAIGANA LETTER MU-2", 110801>>,
    <<"HENTAIGANA LETTER MU-3", 110802>>, <<"HENTAIGANA LETTER MU-4", 110803>>,
    <<"HENTAIGANA LETTER ME-1", 110804>>, <<"HENTAIGANA LETTER ME-2", 110805>>,
    <<"HENTAIGANA LETTER ME-MA", 110806>>, <<"HENTAIGANA LETTER MO-1", 110807>>,
    <<"HENTAIGANA LETTER MO-2", 110808>>, <<"HENTAIGANA LETTER MO-3", 110809>>,
    <<"HENTAIGANA LETTER MO-4", 110810>>, <<"HENTAIGANA LETTER MO-5", 110811>>,
    <<"HENTAIGANA LETTER MO-6", 110812>>, <<"HENTAIGANA LETTER YA-1", 110813>>,
    <<"HENTAIGANA LETTER YA-2", 110814>>, <<"HENTAIGANA LETTER YA-3", 110815>>,
    <<"HENTAIGANA LETTER YA-4", 110816>>, <<"HENTAIGANA LETTER YA-5", 110817>>,
    <<"HENTAIGANA LETTER YA-YO", 110818>>, <<"HENTAIGANA LETTER YU-1", 110819>>,
    <<"HENTAIGANA LETTER YU-2", 110820>>, <<"HENTAIGANA LETTER YU-3", 110821>>,
    <<"HENTAIGANA LETTER YU-4", 110822>>, <<"HENTAIGANA LETTER YO-1", 110823>>,
    <<"HENTAIGANA LETTER YO-2", 110824>>, <<"HENTAIGANA LETTER YO-3", 110825>>,
    <<"HENTAIGANA LETTER YO-4", 110826>>, <<"HENTAIGANA LETTER YO-5", 110827>>,
    <<"HENTAIGANA LETTER YO-6", 110828>>, <<"HENTAIGANA LETTER RA-1", 110829>>,
    <<"HENTAIGANA LETTER RA-2", 110830>>, <<"HENTAIGANA LETTER RA-3", 110831>>,
    <<"HENTAIGANA LETTER RA-4", 110832>>, <<"HENTAIGANA LETTER RI-1", 110833>>,
    <<"HENTAIGANA LETTER RI-2", 110834>>, <<"HENTAIGANA LETTER RI-3", 110835>>,
    <<"HENTAIGANA LETTER RI-4", 110836>>, <<"HENTAIGANA LETTER RI-5", 110837>>,
    <<"HENTAIGANA LETTER RI-6", 110838>>, <<"HENTAIGANA LETTER RI-7", 110839>>,
    <<"HENTAIGANA LETTER RU-1", 110840>>, <<"HENTAIGANA LETTER RU-2", 110841>>,
    <<"HENTAIGANA LETTER RU-3", 110842>>, <<"HENTAIGANA LETTER RU-4", 110843>>,
    <<"HENTAIGANA LETTER RU-5", 110844>>, <<"HENTAIGANA LETTER RU-6", 110845>>,
    <<"HENTAIGANA LETTER RE-1", 110846>>, <<"HENTAIGANA LETTER RE-2", 110847>>,
    <<"HENTAIGANA LETTER RE-3", 110848>>, <<"HENTAIGANA LETTER RE-4", 110849>>,
    <<"HENTAIGANA LETTER RO-1", 110850>>, <<"HENTAIGANA LETTER RO-2", 110851>>,
    <<"HENTAIGANA LETTER RO-3", 110852>>, <<"HENTAIGANA LETTER RO-4", 110853>>,
    <<"HENTAIGANA LETTER RO-5", 110854>>, <<"HENTAIGANA LETTER RO-6", 110855>>,
    <<"HENTAIGANA LETTER WA-1", 110856>>, <<"HENTAIGANA LETTER WA-2", 110857>>,
    <<"HENTAIGANA LETTER WA-3", 110858>>, <<"HENTAIGANA LETTER WA-4", 110859>>,
    <<"HENTAIGANA LETTER WA-5", 110860>>, <<"HENTAIGANA LETTER WI-1", 110861>>,
    <<"HENTAIGANA LETTER WI-2", 110862>>, <<"HENTAIGANA LETTER WI-3", 110863>>,
    <<"HENTAIGANA LETTER WI-4", 110864>>, <<"HENTAIGANA LETTER WI-5", 110865>>,
    <<"HENTAIGANA LETTER WE-1", 110866>>, <<"HENTAIGANA LETTER WE-2", 110867>>,
    <<"HENTAIGANA LETTER WE-3", 110868>>, <<"HENTAIGANA LETTER WE-4", 110869>>,
    <<"HENTAIGANA LETTER WO-1", 110870>>, <<"HENTAIGANA LETTER WO-2", 110871>>,
    <<"HENTAIGANA LETTER WO-3", 110872>>, <<"HENTAIGANA LETTER WO-4", 110873>>,
    <<"HENTAIGANA LETTER WO-5", 110874>>, <<"HENTAIGANA LETTER WO-6", 110875>>,
    <<"HENTAIGANA LETTER WO-7", 110876>>, <<"HENTAIGANA LETTER N-MU-MO-1", 110877>>,
    <<"HENTAIGANA LETTER N-MU-MO-2", 110878>>, <<"HIRAGANA LETTER ARCHAIC WU", 110879>>,
    <<"KATAKANA LETTER ARCHAIC YI", 110880>>, <<"KATAKANA LETTER ARCHAIC YE", 110881>>,
    <<"KATAKANA LETTER ARCHAIC WU", 110882>>, <<"HIRAGANA LETTER SMALL WI", 110928>>,
    <<"HIRAGANA LETTER SMALL WE", 110929>>, <<"HIRAGANA LETTER SMALL WO", 110930>>,
    <<"KATAKANA LETTER SMALL WI", 110948>>, <<"KATAKANA LETTER SMALL WE", 110949>>,
    <<"KATAKANA LETTER SMALL WO", 110950>>, <<"KATAKANA LETTER SMALL N", 110951>>,
    <<"NUSHU CHARACTER-1B170", 110960>>, <<"NUSHU CHARACTER-1B171", 110961>>,
    <<"NUSHU CHARACTER-1B172", 110962>>, <<"NUSHU CHARACTER-1B173", 110963>>,
    <<"NUSHU CHARACTER-1B174", 110964>>, <<"NUSHU CHARACTER-1B175", 110965>>,
    <<"NUSHU CHARACTER-1B176", 110966>>, <<"NUSHU CHARACTER-1B177", 110967>>,
    <<"NUSHU CHARACTER-1B178", 110968>>, <<"NUSHU CHARACTER-1B179", 110969>>,
    <<"NUSHU CHARACTER-1B17A", 110970>>, <<"NUSHU CHARACTER-1B17B", 110971>>,
    <<"NUSHU CHARACTER-1B17C", 110972>>, <<"NUSHU CHARACTER-1B17D", 110973>>,
    <<"NUSHU CHARACTER-1B17E", 110974>>, <<"NUSHU CHARACTER-1B17F", 110975>>,
    <<"NUSHU CHARACTER-1B180", 110976>>, <<"NUSHU CHARACTER-1B181", 110977>>,
    <<"NUSHU CHARACTER-1B182", 110978>>, <<"NUSHU CHARACTER-1B183", 110979>>,
    <<"NUSHU CHARACTER-1B184", 110980>>, <<"NUSHU CHARACTER-1B185", 110981>>,
    <<"NUSHU CHARACTER-1B186", 110982>>, <<"NUSHU CHARACTER-1B187", 110983>>,
    <<"NUSHU CHARACTER-1B188", 110984>>, <<"NUSHU CHARACTER-1B189", 110985>>,
    <<"NUSHU CHARACTER-1B18A", 110986>>, <<"NUSHU CHARACTER-1B18B", 110987>>,
    <<"NUSHU CHARACTER-1B18C", 110988>>, <<"NUSHU CHARACTER-1B18D", 110989>>,
    <<"NUSHU CHARACTER-1B18E", 110990>>, <<"NUSHU CHARACTER-1B18F", 110991>>,
    <<"NUSHU CHARACTER-1B190", 110992>>, <<"NUSHU CHARACTER-1B191", 110993>>,
    <<"NUSHU CHARACTER-1B192", 110994>>, <<"NUSHU CHARACTER-1B193", 110995>>,
    <<"NUSHU CHARACTER-1B194", 110996>>, <<"NUSHU CHARACTER-1B195", 110997>>,
    <<"NUSHU CHARACTER-1B196", 110998>>, <<"NUSHU CHARACTER-1B197", 110999>>,
    <<"NUSHU CHARACTER-1B198", 111000>>, <<"NUSHU CHARACTER-1B199", 111001>>,
    <<"NUSHU CHARACTER-1B19A", 111002>>, <<"NUSHU CHARACTER-1B19B", 111003>>,
    <<"NUSHU CHARACTER-1B19C", 111004>>, <<"NUSHU CHARACTER-1B19D", 111005>>,
    <<"NUSHU CHARACTER-1B19E", 111006>>, <<"NUSHU CHARACTER-1B19F", 111007>>,
    <<"NUSHU CHARACTER-1B1A0", 111008>>, <<"NUSHU CHARACTER-1B1A1", 111009>>,
    <<"NUSHU CHARACTER-1B1A2", 111010>>, <<"NUSHU CHARACTER-1B1A3", 111011>>,
    <<"NUSHU CHARACTER-1B1A4", 111012>>, <<"NUSHU CHARACTER-1B1A5", 111013>>,
    <<"NUSHU CHARACTER-1B1A6", 111014>>, <<"NUSHU CHARACTER-1B1A7", 111015>>,
    <<"NUSHU CHARACTER-1B1A8", 111016>>, <<"NUSHU CHARACTER-1B1A9", 111017>>,
    <<"NUSHU CHARACTER-1B1AA", 111018>>, <<"NUSHU CHARACTER-1B1AB", 111019>>,
    <<"NUSHU CHARACTER-1B1AC", 111020>>, <<"NUSHU CHARACTER-1B1AD", 111021>>,
    <<"NUSHU CHARACTER-1B1AE", 111022>>, <<"NUSHU CHARACTER-1B1AF", 111023>>,
    <<"NUSHU CHARACTER-1B1B0", 111024>>, <<"NUSHU CHARACTER-1B1B1", 111025>>,
    <<"NUSHU CHARACTER-1B1B2", 111026>>, <<"NUSHU CHARACTER-1B1B3", 111027>>,
    <<"NUSHU CHARACTER-1B1B4", 111028>>, <<"NUSHU CHARACTER-1B1B5", 111029>>,
    <<"NUSHU CHARACTER-1B1B6", 111030>>, <<"NUSHU CHARACTER-1B1B7", 111031>>,
    <<"NUSHU CHARACTER-1B1B8", 111032>>, <<"NUSHU CHARACTER-1B1B9", 111033>>,
    <<"NUSHU CHARACTER-1B1BA", 111034>>, <<"NUSHU CHARACTER-1B1BB", 111035>>,
    <<"NUSHU CHARACTER-1B1BC", 111036>>, <<"NUSHU CHARACTER-1B1BD", 111037>>,
    <<"NUSHU CHARACTER-1B1BE", 111038>>, <<"NUSHU CHARACTER-1B1BF", 111039>>,
    <<"NUSHU CHARACTER-1B1C0", 111040>>, <<"NUSHU CHARACTER-1B1C1", 111041>>,
    <<"NUSHU CHARACTER-1B1C2", 111042>>, <<"NUSHU CHARACTER-1B1C3", 111043>>,
    <<"NUSHU CHARACTER-1B1C4", 111044>>, <<"NUSHU CHARACTER-1B1C5", 111045>>,
    <<"NUSHU CHARACTER-1B1C6", 111046>>, <<"NUSHU CHARACTER-1B1C7", 111047>>,
    <<"NUSHU CHARACTER-1B1C8", 111048>>, <<"NUSHU CHARACTER-1B1C9", 111049>>,
    <<"NUSHU CHARACTER-1B1CA", 111050>>, <<"NUSHU CHARACTER-1B1CB", 111051>>,
    <<"NUSHU CHARACTER-1B1CC", 111052>>, <<"NUSHU CHARACTER-1B1CD", 111053>>,
    <<"NUSHU CHARACTER-1B1CE", 111054>>, <<"NUSHU CHARACTER-1B1CF", 111055>>,
    <<"NUSHU CHARACTER-1B1D0", 111056>>, <<"NUSHU CHARACTER-1B1D1", 111057>>,
    <<"NUSHU CHARACTER-1B1D2", 111058>>, <<"NUSHU CHARACTER-1B1D3", 111059>>,
    <<"NUSHU CHARACTER-1B1D4", 111060>>, <<"NUSHU CHARACTER-1B1D5", 111061>>,
    <<"NUSHU CHARACTER-1B1D6", 111062>>, <<"NUSHU CHARACTER-1B1D7", 111063>>,
    <<"NUSHU CHARACTER-1B1D8", 111064>>, <<"NUSHU CHARACTER-1B1D9", 111065>>,
    <<"NUSHU CHARACTER-1B1DA", 111066>>, <<"NUSHU CHARACTER-1B1DB", 111067>>,
    <<"NUSHU CHARACTER-1B1DC", 111068>>, <<"NUSHU CHARACTER-1B1DD", 111069>>,
    <<"NUSHU CHARACTER-1B1DE", 111070>>, <<"NUSHU CHARACTER-1B1DF", 111071>>,
    <<"NUSHU CHARACTER-1B1E0", 111072>>, <<"NUSHU CHARACTER-1B1E1", 111073>>,
    <<"NUSHU CHARACTER-1B1E2", 111074>>, <<"NUSHU CHARACTER-1B1E3", 111075>>,
    <<"NUSHU CHARACTER-1B1E4", 111076>>, <<"NUSHU CHARACTER-1B1E5", 111077>>,
    <<"NUSHU CHARACTER-1B1E6", 111078>>, <<"NUSHU CHARACTER-1B1E7", 111079>>,
    <<"NUSHU CHARACTER-1B1E8", 111080>>, <<"NUSHU CHARACTER-1B1E9", 111081>>,
    <<"NUSHU CHARACTER-1B1EA", 111082>>, <<"NUSHU CHARACTER-1B1EB", 111083>>,
    <<"NUSHU CHARACTER-1B1EC", 111084>>, <<"NUSHU CHARACTER-1B1ED", 111085>>,
    <<"NUSHU CHARACTER-1B1EE", 111086>>, <<"NUSHU CHARACTER-1B1EF", 111087>>,
    <<"NUSHU CHARACTER-1B1F0", 111088>>, <<"NUSHU CHARACTER-1B1F1", 111089>>,
    <<"NUSHU CHARACTER-1B1F2", 111090>>, <<"NUSHU CHARACTER-1B1F3", 111091>>,
    <<"NUSHU CHARACTER-1B1F4", 111092>>, <<"NUSHU CHARACTER-1B1F5", 111093>>,
    <<"NUSHU CHARACTER-1B1F6", 111094>>, <<"NUSHU CHARACTER-1B1F7", 111095>>,
    <<"NUSHU CHARACTER-1B1F8", 111096>>, <<"NUSHU CHARACTER-1B1F9", 111097>>,
    <<"NUSHU CHARACTER-1B1FA", 111098>>, <<"NUSHU CHARACTER-1B1FB", 111099>>,
    <<"NUSHU CHARACTER-1B1FC", 111100>>, <<"NUSHU CHARACTER-1B1FD", 111101>>,
    <<"NUSHU CHARACTER-1B1FE", 111102>>, <<"NUSHU CHARACTER-1B1FF", 111103>>,
    <<"NUSHU CHARACTER-1B200", 111104>>, <<"NUSHU CHARACTER-1B201", 111105>>,
    <<"NUSHU CHARACTER-1B202", 111106>>, <<"NUSHU CHARACTER-1B203", 111107>>,
    <<"NUSHU CHARACTER-1B204", 111108>>, <<"NUSHU CHARACTER-1B205", 111109>>,
    <<"NUSHU CHARACTER-1B206", 111110>>, <<"NUSHU CHARACTER-1B207", 111111>>,
    <<"NUSHU CHARACTER-1B208", 111112>>, <<"NUSHU CHARACTER-1B209", 111113>>,
    <<"NUSHU CHARACTER-1B20A", 111114>>, <<"NUSHU CHARACTER-1B20B", 111115>>,
    <<"NUSHU CHARACTER-1B20C", 111116>>, <<"NUSHU CHARACTER-1B20D", 111117>>,
    <<"NUSHU CHARACTER-1B20E", 111118>>, <<"NUSHU CHARACTER-1B20F", 111119>>,
    <<"NUSHU CHARACTER-1B210", 111120>>, <<"NUSHU CHARACTER-1B211", 111121>>,
    <<"NUSHU CHARACTER-1B212", 111122>>, <<"NUSHU CHARACTER-1B213", 111123>>,
    <<"NUSHU CHARACTER-1B214", 111124>>, <<"NUSHU CHARACTER-1B215", 111125>>,
    <<"NUSHU CHARACTER-1B216", 111126>>, <<"NUSHU CHARACTER-1B217", 111127>>,
    <<"NUSHU CHARACTER-1B218", 111128>>, <<"NUSHU CHARACTER-1B219", 111129>>,
    <<"NUSHU CHARACTER-1B21A", 111130>>, <<"NUSHU CHARACTER-1B21B", 111131>>,
    <<"NUSHU CHARACTER-1B21C", 111132>>, <<"NUSHU CHARACTER-1B21D", 111133>>,
    <<"NUSHU CHARACTER-1B21E", 111134>>, <<"NUSHU CHARACTER-1B21F", 111135>>,
    <<"NUSHU CHARACTER-1B220", 111136>>, <<"NUSHU CHARACTER-1B221", 111137>>,
    <<"NUSHU CHARACTER-1B222", 111138>>, <<"NUSHU CHARACTER-1B223", 111139>>,
    <<"NUSHU CHARACTER-1B224", 111140>>, <<"NUSHU CHARACTER-1B225", 111141>>,
    <<"NUSHU CHARACTER-1B226", 111142>>, <<"NUSHU CHARACTER-1B227", 111143>>,
    <<"NUSHU CHARACTER-1B228", 111144>>, <<"NUSHU CHARACTER-1B229", 111145>>,
    <<"NUSHU CHARACTER-1B22A", 111146>>, <<"NUSHU CHARACTER-1B22B", 111147>>,
    <<"NUSHU CHARACTER-1B22C", 111148>>, <<"NUSHU CHARACTER-1B22D", 111149>>,
    <<"NUSHU CHARACTER-1B22E", 111150>>, <<"NUSHU CHARACTER-1B22F", 111151>>,
    <<"NUSHU CHARACTER-1B230", 111152>>, <<"NUSHU CHARACTER-1B231", 111153>>,
    <<"NUSHU CHARACTER-1B232", 111154>>, <<"NUSHU CHARACTER-1B233", 111155>>,
    <<"NUSHU CHARACTER-1B234", 111156>>, <<"NUSHU CHARACTER-1B235", 111157>>,
    <<"NUSHU CHARACTER-1B236", 111158>>, <<"NUSHU CHARACTER-1B237", 111159>>,
    <<"NUSHU CHARACTER-1B238", 111160>>, <<"NUSHU CHARACTER-1B239", 111161>>,
    <<"NUSHU CHARACTER-1B23A", 111162>>, <<"NUSHU CHARACTER-1B23B", 111163>>,
    <<"NUSHU CHARACTER-1B23C", 111164>>, <<"NUSHU CHARACTER-1B23D", 111165>>,
    <<"NUSHU CHARACTER-1B23E", 111166>>, <<"NUSHU CHARACTER-1B23F", 111167>>,
    <<"NUSHU CHARACTER-1B240", 111168>>, <<"NUSHU CHARACTER-1B241", 111169>>,
    <<"NUSHU CHARACTER-1B242", 111170>>, <<"NUSHU CHARACTER-1B243", 111171>>,
    <<"NUSHU CHARACTER-1B244", 111172>>, <<"NUSHU CHARACTER-1B245", 111173>>,
    <<"NUSHU CHARACTER-1B246", 111174>>, <<"NUSHU CHARACTER-1B247", 111175>>,
    <<"NUSHU CHARACTER-1B248", 111176>>, <<"NUSHU CHARACTER-1B249", 111177>>,
    <<"NUSHU CHARACTER-1B24A", 111178>>, <<"NUSHU CHARACTER-1B24B", 111179>>,
    <<"NUSHU CHARACTER-1B24C", 111180>>, <<"NUSHU CHARACTER-1B24D", 111181>>,
    <<"NUSHU CHARACTER-1B24E", 111182>>, <<"NUSHU CHARACTER-1B24F", 111183>>,
    <<"NUSHU CHARACTER-1B250", 111184>>, <<"NUSHU CHARACTER-1B251", 111185>>,
    <<"NUSHU CHARACTER-1B252", 111186>>, <<"NUSHU CHARACTER-1B253", 111187>>,
    <<"NUSHU CHARACTER-1B254", 111188>>, <<"NUSHU CHARACTER-1B255", 111189>>,
    <<"NUSHU CHARACTER-1B256", 111190>>, <<"NUSHU CHARACTER-1B257", 111191>>,
    <<"NUSHU CHARACTER-1B258", 111192>>, <<"NUSHU CHARACTER-1B259", 111193>>,
    <<"NUSHU CHARACTER-1B25A", 111194>>, <<"NUSHU CHARACTER-1B25B", 111195>>,
    <<"NUSHU CHARACTER-1B25C", 111196>>, <<"NUSHU CHARACTER-1B25D", 111197>>,
    <<"NUSHU CHARACTER-1B25E", 111198>>, <<"NUSHU CHARACTER-1B25F", 111199>>,
    <<"NUSHU CHARACTER-1B260", 111200>>, <<"NUSHU CHARACTER-1B261", 111201>>,
    <<"NUSHU CHARACTER-1B262", 111202>>, <<"NUSHU CHARACTER-1B263", 111203>>,
    <<"NUSHU CHARACTER-1B264", 111204>>, <<"NUSHU CHARACTER-1B265", 111205>>,
    <<"NUSHU CHARACTER-1B266", 111206>>, <<"NUSHU CHARACTER-1B267", 111207>>,
    <<"NUSHU CHARACTER-1B268", 111208>>, <<"NUSHU CHARACTER-1B269", 111209>>,
    <<"NUSHU CHARACTER-1B26A", 111210>>, <<"NUSHU CHARACTER-1B26B", 111211>>,
    <<"NUSHU CHARACTER-1B26C", 111212>>, <<"NUSHU CHARACTER-1B26D", 111213>>,
    <<"NUSHU CHARACTER-1B26E", 111214>>, <<"NUSHU CHARACTER-1B26F", 111215>>,
    <<"NUSHU CHARACTER-1B270", 111216>>, <<"NUSHU CHARACTER-1B271", 111217>>,
    <<"NUSHU CHARACTER-1B272", 111218>>, <<"NUSHU CHARACTER-1B273", 111219>>,
    <<"NUSHU CHARACTER-1B274", 111220>>, <<"NUSHU CHARACTER-1B275", 111221>>,
    <<"NUSHU CHARACTER-1B276", 111222>>, <<"NUSHU CHARACTER-1B277", 111223>>,
    <<"NUSHU CHARACTER-1B278", 111224>>, <<"NUSHU CHARACTER-1B279", 111225>>,
    <<"NUSHU CHARACTER-1B27A", 111226>>, <<"NUSHU CHARACTER-1B27B", 111227>>,
    <<"NUSHU CHARACTER-1B27C", 111228>>, <<"NUSHU CHARACTER-1B27D", 111229>>,
    <<"NUSHU CHARACTER-1B27E", 111230>>, <<"NUSHU CHARACTER-1B27F", 111231>>,
    <<"NUSHU CHARACTER-1B280", 111232>>, <<"NUSHU CHARACTER-1B281", 111233>>,
    <<"NUSHU CHARACTER-1B282", 111234>>, <<"NUSHU CHARACTER-1B283", 111235>>,
    <<"NUSHU CHARACTER-1B284", 111236>>, <<"NUSHU CHARACTER-1B285", 111237>>,
    <<"NUSHU CHARACTER-1B286", 111238>>, <<"NUSHU CHARACTER-1B287", 111239>>,
    <<"NUSHU CHARACTER-1B288", 111240>>, <<"NUSHU CHARACTER-1B289", 111241>>,
    <<"NUSHU CHARACTER-1B28A", 111242>>, <<"NUSHU CHARACTER-1B28B", 111243>>,
    <<"NUSHU CHARACTER-1B28C", 111244>>, <<"NUSHU CHARACTER-1B28D", 111245>>,
    <<"NUSHU CHARACTER-1B28E", 111246>>, <<"NUSHU CHARACTER-1B28F", 111247>>,
    <<"NUSHU CHARACTER-1B290", 111248>>, <<"NUSHU CHARACTER-1B291", 111249>>,
    <<"NUSHU CHARACTER-1B292", 111250>>, <<"NUSHU CHARACTER-1B293", 111251>>,
    <<"NUSHU CHARACTER-1B294", 111252>>, <<"NUSHU CHARACTER-1B295", 111253>>,
    <<"NUSHU CHARACTER-1B296", 111254>>, <<"NUSHU CHARACTER-1B297", 111255>>,
    <<"NUSHU CHARACTER-1B298", 111256>>, <<"NUSHU CHARACTER-1B299", 111257>>,
    <<"NUSHU CHARACTER-1B29A", 111258>>, <<"NUSHU CHARACTER-1B29B", 111259>>,
    <<"NUSHU CHARACTER-1B29C", 111260>>, <<"NUSHU CHARACTER-1B29D", 111261>>,
    <<"NUSHU CHARACTER-1B29E", 111262>>, <<"NUSHU CHARACTER-1B29F", 111263>>,
    <<"NUSHU CHARACTER-1B2A0", 111264>>, <<"NUSHU CHARACTER-1B2A1", 111265>>,
    <<"NUSHU CHARACTER-1B2A2", 111266>>, <<"NUSHU CHARACTER-1B2A3", 111267>>,
    <<"NUSHU CHARACTER-1B2A4", 111268>>, <<"NUSHU CHARACTER-1B2A5", 111269>>,
    <<"NUSHU CHARACTER-1B2A6", 111270>>, <<"NUSHU CHARACTER-1B2A7", 111271>>,
    <<"NUSHU CHARACTER-1B2A8", 111272>>, <<"NUSHU CHARACTER-1B2A9", 111273>>,
    <<"NUSHU CHARACTER-1B2AA", 111274>>, <<"NUSHU CHARACTER-1B2AB", 111275>>,
    <<"NUSHU CHARACTER-1B2AC", 111276>>, <<"NUSHU CHARACTER-1B2AD", 111277>>,
    <<"NUSHU CHARACTER-1B2AE", 111278>>, <<"NUSHU CHARACTER-1B2AF", 111279>>,
    <<"NUSHU CHARACTER-1B2B0", 111280>>, <<"NUSHU CHARACTER-1B2B1", 111281>>,
    <<"NUSHU CHARACTER-1B2B2", 111282>>, <<"NUSHU CHARACTER-1B2B3", 111283>>,
    <<"NUSHU CHARACTER-1B2B4", 111284>>, <<"NUSHU CHARACTER-1B2B5", 111285>>,
    <<"NUSHU CHARACTER-1B2B6", 111286>>, <<"NUSHU CHARACTER-1B2B7", 111287>>,
    <<"NUSHU CHARACTER-1B2B8", 111288>>, <<"NUSHU CHARACTER-1B2B9", 111289>>,
    <<"NUSHU CHARACTER-1B2BA", 111290>>, <<"NUSHU CHARACTER-1B2BB", 111291>>,
    <<"NUSHU CHARACTER-1B2BC", 111292>>, <<"NUSHU CHARACTER-1B2BD", 111293>>,
    <<"NUSHU CHARACTER-1B2BE", 111294>>, <<"NUSHU CHARACTER-1B2BF", 111295>>,
    <<"NUSHU CHARACTER-1B2C0", 111296>>, <<"NUSHU CHARACTER-1B2C1", 111297>>,
    <<"NUSHU CHARACTER-1B2C2", 111298>>, <<"NUSHU CHARACTER-1B2C3", 111299>>,
    <<"NUSHU CHARACTER-1B2C4", 111300>>, <<"NUSHU CHARACTER-1B2C5", 111301>>,
    <<"NUSHU CHARACTER-1B2C6", 111302>>, <<"NUSHU CHARACTER-1B2C7", 111303>>,
    <<"NUSHU CHARACTER-1B2C8", 111304>>, <<"NUSHU CHARACTER-1B2C9", 111305>>,
    <<"NUSHU CHARACTER-1B2CA", 111306>>, <<"NUSHU CHARACTER-1B2CB", 111307>>,
    <<"NUSHU CHARACTER-1B2CC", 111308>>, <<"NUSHU CHARACTER-1B2CD", 111309>>,
    <<"NUSHU CHARACTER-1B2CE", 111310>>, <<"NUSHU CHARACTER-1B2CF", 111311>>,
    <<"NUSHU CHARACTER-1B2D0", 111312>>, <<"NUSHU CHARACTER-1B2D1", 111313>>,
    <<"NUSHU CHARACTER-1B2D2", 111314>>, <<"NUSHU CHARACTER-1B2D3", 111315>>,
    <<"NUSHU CHARACTER-1B2D4", 111316>>, <<"NUSHU CHARACTER-1B2D5", 111317>>,
    <<"NUSHU CHARACTER-1B2D6", 111318>>, <<"NUSHU CHARACTER-1B2D7", 111319>>,
    <<"NUSHU CHARACTER-1B2D8", 111320>>, <<"NUSHU CHARACTER-1B2D9", 111321>>,
    <<"NUSHU CHARACTER-1B2DA", 111322>>, <<"NUSHU CHARACTER-1B2DB", 111323>>,
    <<"NUSHU CHARACTER-1B2DC", 111324>>, <<"NUSHU CHARACTER-1B2DD", 111325>>,
    <<"NUSHU CHARACTER-1B2DE", 111326>>, <<"NUSHU CHARACTER-1B2DF", 111327>>,
    <<"NUSHU CHARACTER-1B2E0", 111328>>, <<"NUSHU CHARACTER-1B2E1", 111329>>,
    <<"NUSHU CHARACTER-1B2E2", 111330>>, <<"NUSHU CHARACTER-1B2E3", 111331>>,
    <<"NUSHU CHARACTER-1B2E4", 111332>>, <<"NUSHU CHARACTER-1B2E5", 111333>>,
    <<"NUSHU CHARACTER-1B2E6", 111334>>, <<"NUSHU CHARACTER-1B2E7", 111335>>,
    <<"NUSHU CHARACTER-1B2E8", 111336>>, <<"NUSHU CHARACTER-1B2E9", 111337>>,
    <<"NUSHU CHARACTER-1B2EA", 111338>>, <<"NUSHU CHARACTER-1B2EB", 111339>>,
    <<"NUSHU CHARACTER-1B2EC", 111340>>, <<"NUSHU CHARACTER-1B2ED", 111341>>,
    <<"NUSHU CHARACTER-1B2EE", 111342>>, <<"NUSHU CHARACTER-1B2EF", 111343>>,
    <<"NUSHU CHARACTER-1B2F0", 111344>>, <<"NUSHU CHARACTER-1B2F1", 111345>>,
    <<"NUSHU CHARACTER-1B2F2", 111346>>, <<"NUSHU CHARACTER-1B2F3", 111347>>,
    <<"NUSHU CHARACTER-1B2F4", 111348>>, <<"NUSHU CHARACTER-1B2F5", 111349>>,
    <<"NUSHU CHARACTER-1B2F6", 111350>>, <<"NUSHU CHARACTER-1B2F7", 111351>>,
    <<"NUSHU CHARACTER-1B2F8", 111352>>, <<"NUSHU CHARACTER-1B2F9", 111353>>,
    <<"NUSHU CHARACTER-1B2FA", 111354>>, <<"NUSHU CHARACTER-1B2FB", 111355>>,
    <<"DUPLOYAN LETTER H", 113664>>, <<"DUPLOYAN LETTER X", 113665>>, <<"DUPLOYAN LETTER P", 113666>>,
    <<"DUPLOYAN LETTER T", 113667>>, <<"DUPLOYAN LETTER F", 113668>>, <<"DUPLOYAN LETTER K", 113669>>,
    <<"DUPLOYAN LETTER L", 113670>>, <<"DUPLOYAN LETTER B", 113671>>, <<"DUPLOYAN LETTER D", 113672>>,
    <<"DUPLOYAN LETTER V", 113673>>, <<"DUPLOYAN LETTER G", 113674>>, <<"DUPLOYAN LETTER R", 113675>>,
    <<"DUPLOYAN LETTER P N", 113676>>, <<"DUPLOYAN LETTER D S", 113677>>,
    <<"DUPLOYAN LETTER F N", 113678>>, <<"DUPLOYAN LETTER K M", 113679>>,
    <<"DUPLOYAN LETTER R S", 113680>>, <<"DUPLOYAN LETTER TH", 113681>>,
    <<"DUPLOYAN LETTER SLOAN DH", 113682>>, <<"DUPLOYAN LETTER DH", 113683>>,
    <<"DUPLOYAN LETTER KK", 113684>>, <<"DUPLOYAN LETTER SLOAN J", 113685>>,
    <<"DUPLOYAN LETTER HL", 113686>>, <<"DUPLOYAN LETTER LH", 113687>>,
    <<"DUPLOYAN LETTER RH", 113688>>, <<"DUPLOYAN LETTER M", 113689>>, <<"DUPLOYAN LETTER N", 113690>>,
    <<"DUPLOYAN LETTER J", 113691>>, <<"DUPLOYAN LETTER S", 113692>>,
    <<"DUPLOYAN LETTER M N", 113693>>, <<"DUPLOYAN LETTER N M", 113694>>,
    <<"DUPLOYAN LETTER J M", 113695>>, <<"DUPLOYAN LETTER S J", 113696>>,
    <<"DUPLOYAN LETTER M WITH DOT", 113697>>, <<"DUPLOYAN LETTER N WITH DOT", 113698>>,
    <<"DUPLOYAN LETTER J WITH DOT", 113699>>,
    <<"DUPLOYAN LETTER J WITH DOTS INSIDE AND ABOVE", 113700>>,
    <<"DUPLOYAN LETTER S WITH DOT", 113701>>, <<"DUPLOYAN LETTER S WITH DOT BELOW", 113702>>,
    <<"DUPLOYAN LETTER M S", 113703>>, <<"DUPLOYAN LETTER N S", 113704>>,
    <<"DUPLOYAN LETTER J S", 113705>>, <<"DUPLOYAN LETTER S S", 113706>>,
    <<"DUPLOYAN LETTER M N S", 113707>>, <<"DUPLOYAN LETTER N M S", 113708>>,
    <<"DUPLOYAN LETTER J M S", 113709>>, <<"DUPLOYAN LETTER S J S", 113710>>,
    <<"DUPLOYAN LETTER J S WITH DOT", 113711>>, <<"DUPLOYAN LETTER J N", 113712>>,
    <<"DUPLOYAN LETTER J N S", 113713>>, <<"DUPLOYAN LETTER S T", 113714>>,
    <<"DUPLOYAN LETTER S T R", 113715>>, <<"DUPLOYAN LETTER S P", 113716>>,
    <<"DUPLOYAN LETTER S P R", 113717>>, <<"DUPLOYAN LETTER T S", 113718>>,
    <<"DUPLOYAN LETTER T R S", 113719>>, <<"DUPLOYAN LETTER W", 113720>>,
    <<"DUPLOYAN LETTER WH", 113721>>, <<"DUPLOYAN LETTER W R", 113722>>,
    <<"DUPLOYAN LETTER S N", 113723>>, <<"DUPLOYAN LETTER S M", 113724>>,
    <<"DUPLOYAN LETTER K R S", 113725>>, <<"DUPLOYAN LETTER G R S", 113726>>,
    <<"DUPLOYAN LETTER S K", 113727>>, <<"DUPLOYAN LETTER S K R", 113728>>,
    <<"DUPLOYAN LETTER A", 113729>>, <<"DUPLOYAN LETTER SLOAN OW", 113730>>,
    <<"DUPLOYAN LETTER OA", 113731>>, <<"DUPLOYAN LETTER O", 113732>>,
    <<"DUPLOYAN LETTER AOU", 113733>>, <<"DUPLOYAN LETTER I", 113734>>,
    <<"DUPLOYAN LETTER E", 113735>>, <<"DUPLOYAN LETTER IE", 113736>>,
    <<"DUPLOYAN LETTER SHORT I", 113737>>, <<"DUPLOYAN LETTER UI", 113738>>,
    <<"DUPLOYAN LETTER EE", 113739>>, <<"DUPLOYAN LETTER SLOAN EH", 113740>>,
    <<"DUPLOYAN LETTER ROMANIAN I", 113741>>, <<"DUPLOYAN LETTER SLOAN EE", 113742>>,
    <<"DUPLOYAN LETTER LONG I", 113743>>, <<"DUPLOYAN LETTER YE", 113744>>,
    <<"DUPLOYAN LETTER U", 113745>>, <<"DUPLOYAN LETTER EU", 113746>>,
    <<"DUPLOYAN LETTER XW", 113747>>, <<"DUPLOYAN LETTER U N", 113748>>,
    <<"DUPLOYAN LETTER LONG U", 113749>>, <<"DUPLOYAN LETTER ROMANIAN U", 113750>>,
    <<"DUPLOYAN LETTER UH", 113751>>, <<"DUPLOYAN LETTER SLOAN U", 113752>>,
    <<"DUPLOYAN LETTER OOH", 113753>>, <<"DUPLOYAN LETTER OW", 113754>>,
    <<"DUPLOYAN LETTER OU", 113755>>, <<"DUPLOYAN LETTER WA", 113756>>,
    <<"DUPLOYAN LETTER WO", 113757>>, <<"DUPLOYAN LETTER WI", 113758>>,
    <<"DUPLOYAN LETTER WEI", 113759>>, <<"DUPLOYAN LETTER WOW", 113760>>,
    <<"DUPLOYAN LETTER NASAL U", 113761>>, <<"DUPLOYAN LETTER NASAL O", 113762>>,
    <<"DUPLOYAN LETTER NASAL I", 113763>>, <<"DUPLOYAN LETTER NASAL A", 113764>>,
    <<"DUPLOYAN LETTER PERNIN AN", 113765>>, <<"DUPLOYAN LETTER PERNIN AM", 113766>>,
    <<"DUPLOYAN LETTER SLOAN EN", 113767>>, <<"DUPLOYAN LETTER SLOAN AN", 113768>>,
    <<"DUPLOYAN LETTER SLOAN ON", 113769>>, <<"DUPLOYAN LETTER VOCALIC M", 113770>>,
    <<"DUPLOYAN AFFIX LEFT HORIZONTAL SECANT", 113776>>,
    <<"DUPLOYAN AFFIX MID HORIZONTAL SECANT", 113777>>,
    <<"DUPLOYAN AFFIX RIGHT HORIZONTAL SECANT", 113778>>,
    <<"DUPLOYAN AFFIX LOW VERTICAL SECANT", 113779>>, <<"DUPLOYAN AFFIX MID VERTICAL SECANT", 113780>>,
    <<"DUPLOYAN AFFIX HIGH VERTICAL SECANT", 113781>>, <<"DUPLOYAN AFFIX ATTACHED SECANT", 113782>>,
    <<"DUPLOYAN AFFIX ATTACHED LEFT-TO-RIGHT SECANT", 113783>>,
    <<"DUPLOYAN AFFIX ATTACHED TANGENT", 113784>>, <<"DUPLOYAN AFFIX ATTACHED TAIL", 113785>>,
    <<"DUPLOYAN AFFIX ATTACHED E HOOK", 113786>>, <<"DUPLOYAN AFFIX ATTACHED I HOOK", 113787>>,
    <<"DUPLOYAN AFFIX ATTACHED TANGENT HOOK", 113788>>, <<"DUPLOYAN AFFIX HIGH ACUTE", 113792>>,
    <<"DUPLOYAN AFFIX HIGH TIGHT ACUTE", 113793>>, <<"DUPLOYAN AFFIX HIGH GRAVE", 113794>>,
    <<"DUPLOYAN AFFIX HIGH LONG GRAVE", 113795>>, <<"DUPLOYAN AFFIX HIGH DOT", 113796>>,
    <<"DUPLOYAN AFFIX HIGH CIRCLE", 113797>>, <<"DUPLOYAN AFFIX HIGH LINE", 113798>>,
    <<"DUPLOYAN AFFIX HIGH WAVE", 113799>>, <<"DUPLOYAN AFFIX HIGH VERTICAL", 113800>>,
    <<"DUPLOYAN AFFIX LOW ACUTE", 113808>>, <<"DUPLOYAN AFFIX LOW TIGHT ACUTE", 113809>>,
    <<"DUPLOYAN AFFIX LOW GRAVE", 113810>>, <<"DUPLOYAN AFFIX LOW LONG GRAVE", 113811>>,
    <<"DUPLOYAN AFFIX LOW DOT", 113812>>, <<"DUPLOYAN AFFIX LOW CIRCLE", 113813>>,
    <<"DUPLOYAN AFFIX LOW LINE", 113814>>, <<"DUPLOYAN AFFIX LOW WAVE", 113815>>,
    <<"DUPLOYAN AFFIX LOW VERTICAL", 113816>>, <<"DUPLOYAN AFFIX LOW ARROW", 113817>>,
    <<"DUPLOYAN SIGN O WITH CROSS", 113820>>, <<"DUPLOYAN THICK LETTER SELECTOR", 113821>>,
    <<"DUPLOYAN DOUBLE MARK", 113822>>, <<"DUPLOYAN PUNCTUATION CHINOOK FULL STOP", 113823>>,
    <<"SHORTHAND FORMAT LETTER OVERLAP", 113824>>, <<"SHORTHAND FORMAT CONTINUING OVERLAP", 113825>>,
    <<"SHORTHAND FORMAT DOWN STEP", 113826>>, <<"SHORTHAND FORMAT UP STEP", 113827>>,
    <<"ZNAMENNY COMBINING MARK GORAZDO NIZKO S KRYZHEM ON LEFT", 118528>>,
    <<"ZNAMENNY COMBINING MARK NIZKO S KRYZHEM ON LEFT", 118529>>,
    <<"ZNAMENNY COMBINING MARK TSATA ON LEFT", 118530>>,
    <<"ZNAMENNY COMBINING MARK GORAZDO NIZKO ON LEFT", 118531>>,
    <<"ZNAMENNY COMBINING MARK NIZKO ON LEFT", 118532>>,
    <<"ZNAMENNY COMBINING MARK SREDNE ON LEFT", 118533>>,
    <<"ZNAMENNY COMBINING MARK MALO POVYSHE ON LEFT", 118534>>,
    <<"ZNAMENNY COMBINING MARK POVYSHE ON LEFT", 118535>>,
    <<"ZNAMENNY COMBINING MARK VYSOKO ON LEFT", 118536>>,
    <<"ZNAMENNY COMBINING MARK MALO POVYSHE S KHOKHLOM ON LEFT", 118537>>,
    <<"ZNAMENNY COMBINING MARK POVYSHE S KHOKHLOM ON LEFT", 118538>>,
    <<"ZNAMENNY COMBINING MARK VYSOKO S KHOKHLOM ON LEFT", 118539>>,
    <<"ZNAMENNY COMBINING MARK GORAZDO NIZKO S KRYZHEM ON RIGHT", 118540>>,
    <<"ZNAMENNY COMBINING MARK NIZKO S KRYZHEM ON RIGHT", 118541>>,
    <<"ZNAMENNY COMBINING MARK TSATA ON RIGHT", 118542>>,
    <<"ZNAMENNY COMBINING MARK GORAZDO NIZKO ON RIGHT", 118543>>,
    <<"ZNAMENNY COMBINING MARK NIZKO ON RIGHT", 118544>>,
    <<"ZNAMENNY COMBINING MARK SREDNE ON RIGHT", 118545>>,
    <<"ZNAMENNY COMBINING MARK MALO POVYSHE ON RIGHT", 118546>>,
    <<"ZNAMENNY COMBINING MARK POVYSHE ON RIGHT", 118547>>,
    <<"ZNAMENNY COMBINING MARK VYSOKO ON RIGHT", 118548>>,
    <<"ZNAMENNY COMBINING MARK MALO POVYSHE S KHOKHLOM ON RIGHT", 118549>>,
    <<"ZNAMENNY COMBINING MARK POVYSHE S KHOKHLOM ON RIGHT", 118550>>,
    <<"ZNAMENNY COMBINING MARK VYSOKO S KHOKHLOM ON RIGHT", 118551>>,
    <<"ZNAMENNY COMBINING MARK TSATA S KRYZHEM", 118552>>,
    <<"ZNAMENNY COMBINING MARK MALO POVYSHE S KRYZHEM", 118553>>,
    <<"ZNAMENNY COMBINING MARK STRANNO MALO POVYSHE", 118554>>,
    <<"ZNAMENNY COMBINING MARK POVYSHE S KRYZHEM", 118555>>,
    <<"ZNAMENNY COMBINING MARK POVYSHE STRANNO", 118556>>,
    <<"ZNAMENNY COMBINING MARK VYSOKO S KRYZHEM", 118557>>,
    <<"ZNAMENNY COMBINING MARK MALO POVYSHE STRANNO", 118558>>,
    <<"ZNAMENNY COMBINING MARK GORAZDO VYSOKO", 118559>>, <<"ZNAMENNY COMBINING MARK ZELO", 118560>>,
    <<"ZNAMENNY COMBINING MARK ON", 118561>>, <<"ZNAMENNY COMBINING MARK RAVNO", 118562>>,
    <<"ZNAMENNY COMBINING MARK TIKHAYA", 118563>>, <<"ZNAMENNY COMBINING MARK BORZAYA", 118564>>,
    <<"ZNAMENNY COMBINING MARK UDARKA", 118565>>, <<"ZNAMENNY COMBINING MARK PODVERTKA", 118566>>,
    <<"ZNAMENNY COMBINING MARK LOMKA", 118567>>, <<"ZNAMENNY COMBINING MARK KUPNAYA", 118568>>,
    <<"ZNAMENNY COMBINING MARK KACHKA", 118569>>, <<"ZNAMENNY COMBINING MARK ZEVOK", 118570>>,
    <<"ZNAMENNY COMBINING MARK SKOBA", 118571>>, <<"ZNAMENNY COMBINING MARK RAZSEKA", 118572>>,
    <<"ZNAMENNY COMBINING MARK KRYZH ON LEFT", 118573>>,
    <<"ZNAMENNY COMBINING TONAL RANGE MARK MRACHNO", 118576>>,
    <<"ZNAMENNY COMBINING TONAL RANGE MARK SVETLO", 118577>>,
    <<"ZNAMENNY COMBINING TONAL RANGE MARK TRESVETLO", 118578>>,
    <<"ZNAMENNY COMBINING MARK ZADERZHKA", 118579>>,
    <<"ZNAMENNY COMBINING MARK DEMESTVENNY ZADERZHKA", 118580>>,
    <<"ZNAMENNY COMBINING MARK OTSECHKA", 118581>>, <<"ZNAMENNY COMBINING MARK PODCHASHIE", 118582>>,
    <<"ZNAMENNY COMBINING MARK PODCHASHIE WITH VERTICAL STROKE", 118583>>,
    <<"ZNAMENNY COMBINING MARK CHASHKA", 118584>>,
    <<"ZNAMENNY COMBINING MARK CHASHKA POLNAYA", 118585>>,
    <<"ZNAMENNY COMBINING MARK OBLACHKO", 118586>>,
    <<"ZNAMENNY COMBINING MARK SOROCHYA NOZHKA", 118587>>,
    <<"ZNAMENNY COMBINING MARK TOCHKA", 118588>>, <<"ZNAMENNY COMBINING MARK DVOETOCHIE", 118589>>,
    <<"ZNAMENNY COMBINING ATTACHING VERTICAL OMET", 118590>>,
    <<"ZNAMENNY COMBINING MARK CURVED OMET", 118591>>, <<"ZNAMENNY COMBINING MARK KRYZH", 118592>>,
    <<"ZNAMENNY COMBINING LOWER TONAL RANGE INDICATOR", 118593>>,
    <<"ZNAMENNY PRIZNAK MODIFIER LEVEL-2", 118594>>, <<"ZNAMENNY PRIZNAK MODIFIER LEVEL-3", 118595>>,
    <<"ZNAMENNY PRIZNAK MODIFIER DIRECTION FLIP", 118596>>,
    <<"ZNAMENNY PRIZNAK MODIFIER KRYZH", 118597>>, <<"ZNAMENNY PRIZNAK MODIFIER ROG", 118598>>,
    <<"ZNAMENNY NEUME KRYUK", 118608>>, <<"ZNAMENNY NEUME KRYUK TIKHY", 118609>>,
    <<"ZNAMENNY NEUME PARAKLIT", 118610>>, <<"ZNAMENNY NEUME DVA V CHELNU", 118611>>,
    <<"ZNAMENNY NEUME KLYUCH", 118612>>, <<"ZNAMENNY NEUME ZANOZHEK", 118613>>,
    <<"ZNAMENNY NEUME STOPITSA", 118614>>, <<"ZNAMENNY NEUME STOPITSA S OCHKOM", 118615>>,
    <<"ZNAMENNY NEUME PEREVODKA", 118616>>, <<"ZNAMENNY NEUME PEREVODKA NEPOSTOYANNAYA", 118617>>,
    <<"ZNAMENNY NEUME STOPITSA WITH SOROCHYA NOZHKA", 118618>>,
    <<"ZNAMENNY NEUME CHELYUSTKA", 118619>>, <<"ZNAMENNY NEUME PALKA", 118620>>,
    <<"ZNAMENNY NEUME ZAPYATAYA", 118621>>, <<"ZNAMENNY NEUME GOLUBCHIK BORZY", 118622>>,
    <<"ZNAMENNY NEUME GOLUBCHIK TIKHY", 118623>>, <<"ZNAMENNY NEUME GOLUBCHIK MRACHNY", 118624>>,
    <<"ZNAMENNY NEUME GOLUBCHIK SVETLY", 118625>>, <<"ZNAMENNY NEUME GOLUBCHIK TRESVETLY", 118626>>,
    <<"ZNAMENNY NEUME VRAKHIYA PROSTAYA", 118627>>, <<"ZNAMENNY NEUME VRAKHIYA MRACHNAYA", 118628>>,
    <<"ZNAMENNY NEUME VRAKHIYA SVETLAYA", 118629>>, <<"ZNAMENNY NEUME VRAKHIYA TRESVETLAYA", 118630>>,
    <<"ZNAMENNY NEUME VRAKHIYA KLYUCHEVAYA PROSTAYA", 118631>>,
    <<"ZNAMENNY NEUME VRAKHIYA KLYUCHEVAYA MRACHNAYA", 118632>>,
    <<"ZNAMENNY NEUME VRAKHIYA KLYUCHEVAYA SVETLAYA", 118633>>,
    <<"ZNAMENNY NEUME VRAKHIYA KLYUCHEVAYA TRESVETLAYA", 118634>>,
    <<"ZNAMENNY NEUME DOUBLE ZAPYATAYA", 118635>>, <<"ZNAMENNY NEUME REVERSED CHELYUSTKA", 118636>>,
    <<"ZNAMENNY NEUME DERBITSA", 118637>>, <<"ZNAMENNY NEUME KHAMILO", 118638>>,
    <<"ZNAMENNY NEUME CHASHKA", 118639>>, <<"ZNAMENNY NEUME PODCHASHIE", 118640>>,
    <<"ZNAMENNY NEUME SKAMEYTSA MRACHNAYA", 118641>>, <<"ZNAMENNY NEUME SKAMEYTSA SVETLAYA", 118642>>,
    <<"ZNAMENNY NEUME SKAMEYTSA TRESVETLAYA", 118643>>, <<"ZNAMENNY NEUME SKAMEYTSA TIKHAYA", 118644>>,
    <<"ZNAMENNY NEUME DEMESTVENNY KLYUCH", 118645>>,
    <<"ZNAMENNY NEUME SKAMEYTSA KLYUCHEVAYA SVETLAYA", 118646>>,
    <<"ZNAMENNY NEUME SKAMEYTSA KLYUCHENEPOSTOYANNAYA", 118647>>,
    <<"ZNAMENNY NEUME SKAMEYTSA KLYUCHEVAYA TIKHAYA", 118648>>,
    <<"ZNAMENNY NEUME SKAMEYTSA DVOECHELNAYA PROSTAYA", 118649>>,
    <<"ZNAMENNY NEUME SKAMEYTSA DVOECHELNAYA SVETLAYA", 118650>>,
    <<"ZNAMENNY NEUME SKAMEYTSA DVOECHELNAYA NEPOSTOYANNAYA", 118651>>,
    <<"ZNAMENNY NEUME SKAMEYTSA DVOECHELNAYA KLYUCHEVAYA", 118652>>,
    <<"ZNAMENNY NEUME SLOZHITIE", 118653>>, <<"ZNAMENNY NEUME SLOZHITIE S ZAPYATOY", 118654>>,
    <<"ZNAMENNY NEUME SLOZHITIE ZAKRYTOE", 118655>>, <<"ZNAMENNY NEUME SLOZHITIE S KRYZHEM", 118656>>,
    <<"ZNAMENNY NEUME KRYZH", 118657>>, <<"ZNAMENNY NEUME ROG", 118658>>,
    <<"ZNAMENNY NEUME FITA", 118659>>, <<"ZNAMENNY NEUME KOBYLA", 118660>>,
    <<"ZNAMENNY NEUME ZMEYTSA", 118661>>, <<"ZNAMENNY NEUME STATYA", 118662>>,
    <<"ZNAMENNY NEUME STATYA S ZAPYATOY", 118663>>, <<"ZNAMENNY NEUME STATYA S KRYZHEM", 118664>>,
    <<"ZNAMENNY NEUME STATYA S ZAPYATOY I KRYZHEM", 118665>>,
    <<"ZNAMENNY NEUME STATYA S KRYZHEM I ZAPYATOY", 118666>>,
    <<"ZNAMENNY NEUME STATYA ZAKRYTAYA", 118667>>,
    <<"ZNAMENNY NEUME STATYA ZAKRYTAYA S ZAPYATOY", 118668>>,
    <<"ZNAMENNY NEUME STATYA S ROGOM", 118669>>,
    <<"ZNAMENNY NEUME STATYA S DVUMYA ZAPYATYMI", 118670>>,
    <<"ZNAMENNY NEUME STATYA S ZAPYATOY I PODCHASHIEM", 118671>>,
    <<"ZNAMENNY NEUME POLKULIZMY", 118672>>, <<"ZNAMENNY NEUME STATYA NEPOSTOYANNAYA", 118673>>,
    <<"ZNAMENNY NEUME STRELA PROSTAYA", 118674>>, <<"ZNAMENNY NEUME STRELA MRACHNOTIKHAYA", 118675>>,
    <<"ZNAMENNY NEUME STRELA KRYZHEVAYA", 118676>>, <<"ZNAMENNY NEUME STRELA POLUPOVODNAYA", 118677>>,
    <<"ZNAMENNY NEUME STRELA POVODNAYA", 118678>>, <<"ZNAMENNY NEUME STRELA NEPOSTOYANNAYA", 118679>>,
    <<"ZNAMENNY NEUME STRELA KLYUCHEPOVODNAYA", 118680>>,
    <<"ZNAMENNY NEUME STRELA KLYUCHENEPOSTOYANNAYA", 118681>>,
    <<"ZNAMENNY NEUME STRELA TIKHAYA PUTNAYA", 118682>>,
    <<"ZNAMENNY NEUME STRELA DVOECHELNAYA", 118683>>,
    <<"ZNAMENNY NEUME STRELA DVOECHELNOKRYZHEVAYA", 118684>>,
    <<"ZNAMENNY NEUME STRELA DVOECHELNOPOVODNAYA", 118685>>,
    <<"ZNAMENNY NEUME STRELA DVOECHELNAYA KLYUCHEVAYA", 118686>>,
    <<"ZNAMENNY NEUME STRELA DVOECHELNOPOVODNAYA KLYUCHEVAYA", 118687>>,
    <<"ZNAMENNY NEUME STRELA GROMNAYA WITH SINGLE ZAPYATAYA", 118688>>,
    <<"ZNAMENNY NEUME STRELA GROMOPOVODNAYA WITH SINGLE ZAPYATAYA", 118689>>,
    <<"ZNAMENNY NEUME STRELA GROMNAYA", 118690>>, <<"ZNAMENNY NEUME STRELA GROMOPOVODNAYA", 118691>>,
    <<"ZNAMENNY NEUME STRELA GROMOPOVODNAYA WITH DOUBLE ZAPYATAYA", 118692>>,
    <<"ZNAMENNY NEUME STRELA GROMOKRYZHEVAYA", 118693>>,
    <<"ZNAMENNY NEUME STRELA GROMOKRYZHEVAYA POVODNAYA", 118694>>, <<"ZNAMENNY NEUME MECHIK", 118695>>,
    <<"ZNAMENNY NEUME MECHIK POVODNY", 118696>>, <<"ZNAMENNY NEUME MECHIK KLYUCHEVOY", 118697>>,
    <<"ZNAMENNY NEUME MECHIK KLYUCHEPOVODNY", 118698>>,
    <<"ZNAMENNY NEUME MECHIK KLYUCHENEPOSTOYANNY", 118699>>,
    <<"ZNAMENNY NEUME STRELA TRYASOGLASNAYA", 118700>>,
    <<"ZNAMENNY NEUME STRELA TRYASOPOVODNAYA", 118701>>,
    <<"ZNAMENNY NEUME STRELA TRYASOSTRELNAYA", 118702>>, <<"ZNAMENNY NEUME OSOKA", 118703>>,
    <<"ZNAMENNY NEUME OSOKA SVETLAYA", 118704>>, <<"ZNAMENNY NEUME OSOKA TRESVETLAYA", 118705>>,
    <<"ZNAMENNY NEUME OSOKA KRYUKOVAYA SVETLAYA", 118706>>,
    <<"ZNAMENNY NEUME OSOKA KLYUCHEVAYA SVETLAYA", 118707>>,
    <<"ZNAMENNY NEUME OSOKA KLYUCHEVAYA NEPOSTOYANNAYA", 118708>>,
    <<"ZNAMENNY NEUME STRELA KRYUKOVAYA", 118709>>,
    <<"ZNAMENNY NEUME STRELA KRYUKOVAYA POVODNAYA", 118710>>,
    <<"ZNAMENNY NEUME STRELA KRYUKOVAYA GROMNAYA WITH SINGLE ZAPYATAYA", 118711>>,
    <<"ZNAMENNY NEUME STRELA KRYUKOVAYA GROMOPOVODNAYA WITH SINGLE ZAPYATAYA", 118712>>,
    <<"ZNAMENNY NEUME STRELA KRYUKOVAYA GROMNAYA", 118713>>,
    <<"ZNAMENNY NEUME STRELA KRYUKOVAYA GROMOPOVODNAYA", 118714>>,
    <<"ZNAMENNY NEUME STRELA KRYUKOVAYA GROMOPOVODNAYA WITH DOUBLE ZAPYATAYA", 118715>>,
    <<"ZNAMENNY NEUME STRELA KRYUKOVAYA GROMOKRYZHEVAYA", 118716>>,
    <<"ZNAMENNY NEUME STRELA KRYUKOVAYA GROMOKRYZHEVAYA POVODNAYA", 118717>>,
    <<"ZNAMENNY NEUME STRELA KRYUKOVAYA TRYASKA", 118718>>, <<"ZNAMENNY NEUME KUFISMA", 118719>>,
    <<"ZNAMENNY NEUME OBLAKO", 118720>>, <<"ZNAMENNY NEUME DUDA", 118721>>,
    <<"ZNAMENNY NEUME NEMKA", 118722>>, <<"ZNAMENNY NEUME PAUK", 118723>>,
    <<"BYZANTINE MUSICAL SYMBOL PSILI", 118784>>, <<"BYZANTINE MUSICAL SYMBOL DASEIA", 118785>>,
    <<"BYZANTINE MUSICAL SYMBOL PERISPOMENI", 118786>>,
    <<"BYZANTINE MUSICAL SYMBOL OXEIA EKFONITIKON", 118787>>,
    <<"BYZANTINE MUSICAL SYMBOL OXEIA DIPLI", 118788>>,
    <<"BYZANTINE MUSICAL SYMBOL VAREIA EKFONITIKON", 118789>>,
    <<"BYZANTINE MUSICAL SYMBOL VAREIA DIPLI", 118790>>,
    <<"BYZANTINE MUSICAL SYMBOL KATHISTI", 118791>>, <<"BYZANTINE MUSICAL SYMBOL SYRMATIKI", 118792>>,
    <<"BYZANTINE MUSICAL SYMBOL PARAKLITIKI", 118793>>,
    <<"BYZANTINE MUSICAL SYMBOL YPOKRISIS", 118794>>,
    <<"BYZANTINE MUSICAL SYMBOL YPOKRISIS DIPLI", 118795>>,
    <<"BYZANTINE MUSICAL SYMBOL KREMASTI", 118796>>,
    <<"BYZANTINE MUSICAL SYMBOL APESO EKFONITIKON", 118797>>,
    <<"BYZANTINE MUSICAL SYMBOL EXO EKFONITIKON", 118798>>,
    <<"BYZANTINE MUSICAL SYMBOL TELEIA", 118799>>, <<"BYZANTINE MUSICAL SYMBOL KENTIMATA", 118800>>,
    <<"BYZANTINE MUSICAL SYMBOL APOSTROFOS", 118801>>,
    <<"BYZANTINE MUSICAL SYMBOL APOSTROFOS DIPLI", 118802>>,
    <<"BYZANTINE MUSICAL SYMBOL SYNEVMA", 118803>>, <<"BYZANTINE MUSICAL SYMBOL THITA", 118804>>,
    <<"BYZANTINE MUSICAL SYMBOL OLIGON ARCHAION", 118805>>,
    <<"BYZANTINE MUSICAL SYMBOL GORGON ARCHAION", 118806>>,
    <<"BYZANTINE MUSICAL SYMBOL PSILON", 118807>>, <<"BYZANTINE MUSICAL SYMBOL CHAMILON", 118808>>,
    <<"BYZANTINE MUSICAL SYMBOL VATHY", 118809>>, <<"BYZANTINE MUSICAL SYMBOL ISON ARCHAION", 118810>>,
    <<"BYZANTINE MUSICAL SYMBOL KENTIMA ARCHAION", 118811>>,
    <<"BYZANTINE MUSICAL SYMBOL KENTIMATA ARCHAION", 118812>>,
    <<"BYZANTINE MUSICAL SYMBOL SAXIMATA", 118813>>, <<"BYZANTINE MUSICAL SYMBOL PARICHON", 118814>>,
    <<"BYZANTINE MUSICAL SYMBOL STAVROS APODEXIA", 118815>>,
    <<"BYZANTINE MUSICAL SYMBOL OXEIAI ARCHAION", 118816>>,
    <<"BYZANTINE MUSICAL SYMBOL VAREIAI ARCHAION", 118817>>,
    <<"BYZANTINE MUSICAL SYMBOL APODERMA ARCHAION", 118818>>,
    <<"BYZANTINE MUSICAL SYMBOL APOTHEMA", 118819>>, <<"BYZANTINE MUSICAL SYMBOL KLASMA", 118820>>,
    <<"BYZANTINE MUSICAL SYMBOL REVMA", 118821>>,
    <<"BYZANTINE MUSICAL SYMBOL PIASMA ARCHAION", 118822>>,
    <<"BYZANTINE MUSICAL SYMBOL TINAGMA", 118823>>,
    <<"BYZANTINE MUSICAL SYMBOL ANATRICHISMA", 118824>>, <<"BYZANTINE MUSICAL SYMBOL SEISMA", 118825>>,
    <<"BYZANTINE MUSICAL SYMBOL SYNAGMA ARCHAION", 118826>>,
    <<"BYZANTINE MUSICAL SYMBOL SYNAGMA META STAVROU", 118827>>,
    <<"BYZANTINE MUSICAL SYMBOL OYRANISMA ARCHAION", 118828>>,
    <<"BYZANTINE MUSICAL SYMBOL THEMA", 118829>>, <<"BYZANTINE MUSICAL SYMBOL LEMOI", 118830>>,
    <<"BYZANTINE MUSICAL SYMBOL DYO", 118831>>, <<"BYZANTINE MUSICAL SYMBOL TRIA", 118832>>,
    <<"BYZANTINE MUSICAL SYMBOL TESSERA", 118833>>, <<"BYZANTINE MUSICAL SYMBOL KRATIMATA", 118834>>,
    <<"BYZANTINE MUSICAL SYMBOL APESO EXO NEO", 118835>>,
    <<"BYZANTINE MUSICAL SYMBOL FTHORA ARCHAION", 118836>>,
    <<"BYZANTINE MUSICAL SYMBOL IMIFTHORA", 118837>>,
    <<"BYZANTINE MUSICAL SYMBOL TROMIKON ARCHAION", 118838>>,
    <<"BYZANTINE MUSICAL SYMBOL KATAVA TROMIKON", 118839>>,
    <<"BYZANTINE MUSICAL SYMBOL PELASTON", 118840>>, <<"BYZANTINE MUSICAL SYMBOL PSIFISTON", 118841>>,
    <<"BYZANTINE MUSICAL SYMBOL KONTEVMA", 118842>>,
    <<"BYZANTINE MUSICAL SYMBOL CHOREVMA ARCHAION", 118843>>,
    <<"BYZANTINE MUSICAL SYMBOL RAPISMA", 118844>>,
    <<"BYZANTINE MUSICAL SYMBOL PARAKALESMA ARCHAION", 118845>>,
    <<"BYZANTINE MUSICAL SYMBOL PARAKLITIKI ARCHAION", 118846>>,
    <<"BYZANTINE MUSICAL SYMBOL ICHADIN", 118847>>, <<"BYZANTINE MUSICAL SYMBOL NANA", 118848>>,
    <<"BYZANTINE MUSICAL SYMBOL PETASMA", 118849>>,
    <<"BYZANTINE MUSICAL SYMBOL KONTEVMA ALLO", 118850>>,
    <<"BYZANTINE MUSICAL SYMBOL TROMIKON ALLO", 118851>>,
    <<"BYZANTINE MUSICAL SYMBOL STRAGGISMATA", 118852>>,
    <<"BYZANTINE MUSICAL SYMBOL GRONTHISMATA", 118853>>,
    <<"BYZANTINE MUSICAL SYMBOL ISON NEO", 118854>>, <<"BYZANTINE MUSICAL SYMBOL OLIGON NEO", 118855>>,
    <<"BYZANTINE MUSICAL SYMBOL OXEIA NEO", 118856>>, <<"BYZANTINE MUSICAL SYMBOL PETASTI", 118857>>,
    <<"BYZANTINE MUSICAL SYMBOL KOUFISMA", 118858>>,
    <<"BYZANTINE MUSICAL SYMBOL PETASTOKOUFISMA", 118859>>,
    <<"BYZANTINE MUSICAL SYMBOL KRATIMOKOUFISMA", 118860>>,
    <<"BYZANTINE MUSICAL SYMBOL PELASTON NEO", 118861>>,
    <<"BYZANTINE MUSICAL SYMBOL KENTIMATA NEO ANO", 118862>>,
    <<"BYZANTINE MUSICAL SYMBOL KENTIMA NEO ANO", 118863>>,
    <<"BYZANTINE MUSICAL SYMBOL YPSILI", 118864>>,
    <<"BYZANTINE MUSICAL SYMBOL APOSTROFOS NEO", 118865>>,
    <<"BYZANTINE MUSICAL SYMBOL APOSTROFOI SYNDESMOS NEO", 118866>>,
    <<"BYZANTINE MUSICAL SYMBOL YPORROI", 118867>>,
    <<"BYZANTINE MUSICAL SYMBOL KRATIMOYPORROON", 118868>>,
    <<"BYZANTINE MUSICAL SYMBOL ELAFRON", 118869>>, <<"BYZANTINE MUSICAL SYMBOL CHAMILI", 118870>>,
    <<"BYZANTINE MUSICAL SYMBOL MIKRON ISON", 118871>>,
    <<"BYZANTINE MUSICAL SYMBOL VAREIA NEO", 118872>>,
    <<"BYZANTINE MUSICAL SYMBOL PIASMA NEO", 118873>>,
    <<"BYZANTINE MUSICAL SYMBOL PSIFISTON NEO", 118874>>,
    <<"BYZANTINE MUSICAL SYMBOL OMALON", 118875>>, <<"BYZANTINE MUSICAL SYMBOL ANTIKENOMA", 118876>>,
    <<"BYZANTINE MUSICAL SYMBOL LYGISMA", 118877>>,
    <<"BYZANTINE MUSICAL SYMBOL PARAKLITIKI NEO", 118878>>,
    <<"BYZANTINE MUSICAL SYMBOL PARAKALESMA NEO", 118879>>,
    <<"BYZANTINE MUSICAL SYMBOL ETERON PARAKALESMA", 118880>>,
    <<"BYZANTINE MUSICAL SYMBOL KYLISMA", 118881>>,
    <<"BYZANTINE MUSICAL SYMBOL ANTIKENOKYLISMA", 118882>>,
    <<"BYZANTINE MUSICAL SYMBOL TROMIKON NEO", 118883>>,
    <<"BYZANTINE MUSICAL SYMBOL EKSTREPTON", 118884>>,
    <<"BYZANTINE MUSICAL SYMBOL SYNAGMA NEO", 118885>>, <<"BYZANTINE MUSICAL SYMBOL SYRMA", 118886>>,
    <<"BYZANTINE MUSICAL SYMBOL CHOREVMA NEO", 118887>>,
    <<"BYZANTINE MUSICAL SYMBOL EPEGERMA", 118888>>, <<"BYZANTINE MUSICAL SYMBOL SEISMA NEO", 118889>>,
    <<"BYZANTINE MUSICAL SYMBOL XIRON KLASMA", 118890>>,
    <<"BYZANTINE MUSICAL SYMBOL TROMIKOPSIFISTON", 118891>>,
    <<"BYZANTINE MUSICAL SYMBOL PSIFISTOLYGISMA", 118892>>,
    <<"BYZANTINE MUSICAL SYMBOL TROMIKOLYGISMA", 118893>>,
    <<"BYZANTINE MUSICAL SYMBOL TROMIKOPARAKALESMA", 118894>>,
    <<"BYZANTINE MUSICAL SYMBOL PSIFISTOPARAKALESMA", 118895>>,
    <<"BYZANTINE MUSICAL SYMBOL TROMIKOSYNAGMA", 118896>>,
    <<"BYZANTINE MUSICAL SYMBOL PSIFISTOSYNAGMA", 118897>>,
    <<"BYZANTINE MUSICAL SYMBOL GORGOSYNTHETON", 118898>>,
    <<"BYZANTINE MUSICAL SYMBOL ARGOSYNTHETON", 118899>>,
    <<"BYZANTINE MUSICAL SYMBOL ETERON ARGOSYNTHETON", 118900>>,
    <<"BYZANTINE MUSICAL SYMBOL OYRANISMA NEO", 118901>>,
    <<"BYZANTINE MUSICAL SYMBOL THEMATISMOS ESO", 118902>>,
    <<"BYZANTINE MUSICAL SYMBOL THEMATISMOS EXO", 118903>>,
    <<"BYZANTINE MUSICAL SYMBOL THEMA APLOUN", 118904>>,
    <<"BYZANTINE MUSICAL SYMBOL THES KAI APOTHES", 118905>>,
    <<"BYZANTINE MUSICAL SYMBOL KATAVASMA", 118906>>, <<"BYZANTINE MUSICAL SYMBOL ENDOFONON", 118907>>,
    <<"BYZANTINE MUSICAL SYMBOL YFEN KATO", 118908>>, <<"BYZANTINE MUSICAL SYMBOL YFEN ANO", 118909>>,
    <<"BYZANTINE MUSICAL SYMBOL STAVROS", 118910>>, <<"BYZANTINE MUSICAL SYMBOL KLASMA ANO", 118911>>,
    <<"BYZANTINE MUSICAL SYMBOL DIPLI ARCHAION", 118912>>,
    <<"BYZANTINE MUSICAL SYMBOL KRATIMA ARCHAION", 118913>>,
    <<"BYZANTINE MUSICAL SYMBOL KRATIMA ALLO", 118914>>,
    <<"BYZANTINE MUSICAL SYMBOL KRATIMA NEO", 118915>>,
    <<"BYZANTINE MUSICAL SYMBOL APODERMA NEO", 118916>>, <<"BYZANTINE MUSICAL SYMBOL APLI", 118917>>,
    <<"BYZANTINE MUSICAL SYMBOL DIPLI", 118918>>, <<"BYZANTINE MUSICAL SYMBOL TRIPLI", 118919>>,
    <<"BYZANTINE MUSICAL SYMBOL TETRAPLI", 118920>>, <<"BYZANTINE MUSICAL SYMBOL KORONIS", 118921>>,
    <<"BYZANTINE MUSICAL SYMBOL LEIMMA ENOS CHRONOU", 118922>>,
    <<"BYZANTINE MUSICAL SYMBOL LEIMMA DYO CHRONON", 118923>>,
    <<"BYZANTINE MUSICAL SYMBOL LEIMMA TRION CHRONON", 118924>>,
    <<"BYZANTINE MUSICAL SYMBOL LEIMMA TESSARON CHRONON", 118925>>,
    <<"BYZANTINE MUSICAL SYMBOL LEIMMA IMISEOS CHRONOU", 118926>>,
    <<"BYZANTINE MUSICAL SYMBOL GORGON NEO ANO", 118927>>,
    <<"BYZANTINE MUSICAL SYMBOL GORGON PARESTIGMENON ARISTERA", 118928>>,
    <<"BYZANTINE MUSICAL SYMBOL GORGON PARESTIGMENON DEXIA", 118929>>,
    <<"BYZANTINE MUSICAL SYMBOL DIGORGON", 118930>>,
    <<"BYZANTINE MUSICAL SYMBOL DIGORGON PARESTIGMENON ARISTERA KATO", 118931>>,
    <<"BYZANTINE MUSICAL SYMBOL DIGORGON PARESTIGMENON ARISTERA ANO", 118932>>,
    <<"BYZANTINE MUSICAL SYMBOL DIGORGON PARESTIGMENON DEXIA", 118933>>,
    <<"BYZANTINE MUSICAL SYMBOL TRIGORGON", 118934>>, <<"BYZANTINE MUSICAL SYMBOL ARGON", 118935>>,
    <<"BYZANTINE MUSICAL SYMBOL IMIDIARGON", 118936>>, <<"BYZANTINE MUSICAL SYMBOL DIARGON", 118937>>,
    <<"BYZANTINE MUSICAL SYMBOL AGOGI POLI ARGI", 118938>>,
    <<"BYZANTINE MUSICAL SYMBOL AGOGI ARGOTERI", 118939>>,
    <<"BYZANTINE MUSICAL SYMBOL AGOGI ARGI", 118940>>,
    <<"BYZANTINE MUSICAL SYMBOL AGOGI METRIA", 118941>>,
    <<"BYZANTINE MUSICAL SYMBOL AGOGI MESI", 118942>>,
    <<"BYZANTINE MUSICAL SYMBOL AGOGI GORGI", 118943>>,
    <<"BYZANTINE MUSICAL SYMBOL AGOGI GORGOTERI", 118944>>,
    <<"BYZANTINE MUSICAL SYMBOL AGOGI POLI GORGI", 118945>>,
    <<"BYZANTINE MUSICAL SYMBOL MARTYRIA PROTOS ICHOS", 118946>>,
    <<"BYZANTINE MUSICAL SYMBOL MARTYRIA ALLI PROTOS ICHOS", 118947>>,
    <<"BYZANTINE MUSICAL SYMBOL MARTYRIA DEYTEROS ICHOS", 118948>>,
    <<"BYZANTINE MUSICAL SYMBOL MARTYRIA ALLI DEYTEROS ICHOS", 118949>>,
    <<"BYZANTINE MUSICAL SYMBOL MARTYRIA TRITOS ICHOS", 118950>>,
    <<"BYZANTINE MUSICAL SYMBOL MARTYRIA TRIFONIAS", 118951>>,
    <<"BYZANTINE MUSICAL SYMBOL MARTYRIA TETARTOS ICHOS", 118952>>,
    <<"BYZANTINE MUSICAL SYMBOL MARTYRIA TETARTOS LEGETOS ICHOS", 118953>>,
    <<"BYZANTINE MUSICAL SYMBOL MARTYRIA LEGETOS ICHOS", 118954>>,
    <<"BYZANTINE MUSICAL SYMBOL MARTYRIA PLAGIOS ICHOS", 118955>>,
    <<"BYZANTINE MUSICAL SYMBOL ISAKIA TELOUS ICHIMATOS", 118956>>,
    <<"BYZANTINE MUSICAL SYMBOL APOSTROFOI TELOUS ICHIMATOS", 118957>>,
    <<"BYZANTINE MUSICAL SYMBOL FANEROSIS TETRAFONIAS", 118958>>,
    <<"BYZANTINE MUSICAL SYMBOL FANEROSIS MONOFONIAS", 118959>>,
    <<"BYZANTINE MUSICAL SYMBOL FANEROSIS DIFONIAS", 118960>>,
    <<"BYZANTINE MUSICAL SYMBOL MARTYRIA VARYS ICHOS", 118961>>,
    <<"BYZANTINE MUSICAL SYMBOL MARTYRIA PROTOVARYS ICHOS", 118962>>,
    <<"BYZANTINE MUSICAL SYMBOL MARTYRIA PLAGIOS TETARTOS ICHOS", 118963>>,
    <<"BYZANTINE MUSICAL SYMBOL GORTHMIKON N APLOUN", 118964>>,
    <<"BYZANTINE MUSICAL SYMBOL GORTHMIKON N DIPLOUN", 118965>>,
    <<"BYZANTINE MUSICAL SYMBOL ENARXIS KAI FTHORA VOU", 118966>>,
    <<"BYZANTINE MUSICAL SYMBOL IMIFONON", 118967>>, <<"BYZANTINE MUSICAL SYMBOL IMIFTHORON", 118968>>,
    <<"BYZANTINE MUSICAL SYMBOL FTHORA ARCHAION DEYTEROU ICHOU", 118969>>,
    <<"BYZANTINE MUSICAL SYMBOL FTHORA DIATONIKI PA", 118970>>,
    <<"BYZANTINE MUSICAL SYMBOL FTHORA DIATONIKI NANA", 118971>>,
    <<"BYZANTINE MUSICAL SYMBOL FTHORA NAOS ICHOS", 118972>>,
    <<"BYZANTINE MUSICAL SYMBOL FTHORA DIATONIKI DI", 118973>>,
    <<"BYZANTINE MUSICAL SYMBOL FTHORA SKLIRON DIATONON DI", 118974>>,
    <<"BYZANTINE MUSICAL SYMBOL FTHORA DIATONIKI KE", 118975>>,
    <<"BYZANTINE MUSICAL SYMBOL FTHORA DIATONIKI ZO", 118976>>,
    <<"BYZANTINE MUSICAL SYMBOL FTHORA DIATONIKI NI KATO", 118977>>,
    <<"BYZANTINE MUSICAL SYMBOL FTHORA DIATONIKI NI ANO", 118978>>,
    <<"BYZANTINE MUSICAL SYMBOL FTHORA MALAKON CHROMA DIFONIAS", 118979>>,
    <<"BYZANTINE MUSICAL SYMBOL FTHORA MALAKON CHROMA MONOFONIAS", 118980>>,
    <<"BYZANTINE MUSICAL SYMBOL FHTORA SKLIRON CHROMA VASIS", 118981>>,
    <<"BYZANTINE MUSICAL SYMBOL FTHORA SKLIRON CHROMA VASIS", 118981>>,
    <<"BYZANTINE MUSICAL SYMBOL FTHORA SKLIRON CHROMA SYNAFI", 118982>>,
    <<"BYZANTINE MUSICAL SYMBOL FTHORA NENANO", 118983>>,
    <<"BYZANTINE MUSICAL SYMBOL CHROA ZYGOS", 118984>>,
    <<"BYZANTINE MUSICAL SYMBOL CHROA KLITON", 118985>>,
    <<"BYZANTINE MUSICAL SYMBOL CHROA SPATHI", 118986>>,
    <<"BYZANTINE MUSICAL SYMBOL FTHORA I YFESIS TETARTIMORION", 118987>>,
    <<"BYZANTINE MUSICAL SYMBOL FTHORA ENARMONIOS ANTIFONIA", 118988>>,
    <<"BYZANTINE MUSICAL SYMBOL YFESIS TRITIMORION", 118989>>,
    <<"BYZANTINE MUSICAL SYMBOL DIESIS TRITIMORION", 118990>>,
    <<"BYZANTINE MUSICAL SYMBOL DIESIS TETARTIMORION", 118991>>,
    <<"BYZANTINE MUSICAL SYMBOL DIESIS APLI DYO DODEKATA", 118992>>,
    <<"BYZANTINE MUSICAL SYMBOL DIESIS MONOGRAMMOS TESSERA DODEKATA", 118993>>,
    <<"BYZANTINE MUSICAL SYMBOL DIESIS DIGRAMMOS EX DODEKATA", 118994>>,
    <<"BYZANTINE MUSICAL SYMBOL DIESIS TRIGRAMMOS OKTO DODEKATA", 118995>>,
    <<"BYZANTINE MUSICAL SYMBOL YFESIS APLI DYO DODEKATA", 118996>>,
    <<"BYZANTINE MUSICAL SYMBOL YFESIS MONOGRAMMOS TESSERA DODEKATA", 118997>>,
    <<"BYZANTINE MUSICAL SYMBOL YFESIS DIGRAMMOS EX DODEKATA", 118998>>,
    <<"BYZANTINE MUSICAL SYMBOL YFESIS TRIGRAMMOS OKTO DODEKATA", 118999>>,
    <<"BYZANTINE MUSICAL SYMBOL GENIKI DIESIS", 119000>>,
    <<"BYZANTINE MUSICAL SYMBOL GENIKI YFESIS", 119001>>,
    <<"BYZANTINE MUSICAL SYMBOL DIASTOLI APLI MIKRI", 119002>>,
    <<"BYZANTINE MUSICAL SYMBOL DIASTOLI APLI MEGALI", 119003>>,
    <<"BYZANTINE MUSICAL SYMBOL DIASTOLI DIPLI", 119004>>,
    <<"BYZANTINE MUSICAL SYMBOL DIASTOLI THESEOS", 119005>>,
    <<"BYZANTINE MUSICAL SYMBOL SIMANSIS THESEOS", 119006>>,
    <<"BYZANTINE MUSICAL SYMBOL SIMANSIS THESEOS DISIMOU", 119007>>,
    <<"BYZANTINE MUSICAL SYMBOL SIMANSIS THESEOS TRISIMOU", 119008>>,
    <<"BYZANTINE MUSICAL SYMBOL SIMANSIS THESEOS TETRASIMOU", 119009>>,
    <<"BYZANTINE MUSICAL SYMBOL SIMANSIS ARSEOS", 119010>>,
    <<"BYZANTINE MUSICAL SYMBOL SIMANSIS ARSEOS DISIMOU", 119011>>,
    <<"BYZANTINE MUSICAL SYMBOL SIMANSIS ARSEOS TRISIMOU", 119012>>,
    <<"BYZANTINE MUSICAL SYMBOL SIMANSIS ARSEOS TETRASIMOU", 119013>>,
    <<"BYZANTINE MUSICAL SYMBOL DIGRAMMA GG", 119014>>,
    <<"BYZANTINE MUSICAL SYMBOL DIFTOGGOS OU", 119015>>, <<"BYZANTINE MUSICAL SYMBOL STIGMA", 119016>>,
    <<"BYZANTINE MUSICAL SYMBOL ARKTIKO PA", 119017>>,
    <<"BYZANTINE MUSICAL SYMBOL ARKTIKO VOU", 119018>>,
    <<"BYZANTINE MUSICAL SYMBOL ARKTIKO GA", 119019>>,
    <<"BYZANTINE MUSICAL SYMBOL ARKTIKO DI", 119020>>,
    <<"BYZANTINE MUSICAL SYMBOL ARKTIKO KE", 119021>>,
    <<"BYZANTINE MUSICAL SYMBOL ARKTIKO ZO", 119022>>,
    <<"BYZANTINE MUSICAL SYMBOL ARKTIKO NI", 119023>>,
    <<"BYZANTINE MUSICAL SYMBOL KENTIMATA NEO MESO", 119024>>,
    <<"BYZANTINE MUSICAL SYMBOL KENTIMA NEO MESO", 119025>>,
    <<"BYZANTINE MUSICAL SYMBOL KENTIMATA NEO KATO", 119026>>,
    <<"BYZANTINE MUSICAL SYMBOL KENTIMA NEO KATO", 119027>>,
    <<"BYZANTINE MUSICAL SYMBOL KLASMA KATO", 119028>>,
    <<"BYZANTINE MUSICAL SYMBOL GORGON NEO KATO", 119029>>,
    <<"MUSICAL SYMBOL SINGLE BARLINE", 119040>>, <<"MUSICAL SYMBOL DOUBLE BARLINE", 119041>>,
    <<"MUSICAL SYMBOL FINAL BARLINE", 119042>>, <<"MUSICAL SYMBOL REVERSE FINAL BARLINE", 119043>>,
    <<"MUSICAL SYMBOL DASHED BARLINE", 119044>>, <<"MUSICAL SYMBOL SHORT BARLINE", 119045>>,
    <<"MUSICAL SYMBOL LEFT REPEAT SIGN", 119046>>, <<"MUSICAL SYMBOL RIGHT REPEAT SIGN", 119047>>,
    <<"MUSICAL SYMBOL REPEAT DOTS", 119048>>, <<"MUSICAL SYMBOL DAL SEGNO", 119049>>,
    <<"MUSICAL SYMBOL DA CAPO", 119050>>, <<"MUSICAL SYMBOL SEGNO", 119051>>,
    <<"MUSICAL SYMBOL CODA", 119052>>, <<"MUSICAL SYMBOL REPEATED FIGURE-1", 119053>>,
    <<"MUSICAL SYMBOL REPEATED FIGURE-2", 119054>>, <<"MUSICAL SYMBOL REPEATED FIGURE-3", 119055>>,
    <<"MUSICAL SYMBOL FERMATA", 119056>>, <<"MUSICAL SYMBOL FERMATA BELOW", 119057>>,
    <<"MUSICAL SYMBOL BREATH MARK", 119058>>, <<"MUSICAL SYMBOL CAESURA", 119059>>,
    <<"MUSICAL SYMBOL BRACE", 119060>>, <<"MUSICAL SYMBOL BRACKET", 119061>>,
    <<"MUSICAL SYMBOL ONE-LINE STAFF", 119062>>, <<"MUSICAL SYMBOL TWO-LINE STAFF", 119063>>,
    <<"MUSICAL SYMBOL THREE-LINE STAFF", 119064>>, <<"MUSICAL SYMBOL FOUR-LINE STAFF", 119065>>,
    <<"MUSICAL SYMBOL FIVE-LINE STAFF", 119066>>, <<"MUSICAL SYMBOL SIX-LINE STAFF", 119067>>,
    <<"MUSICAL SYMBOL SIX-STRING FRETBOARD", 119068>>,
    <<"MUSICAL SYMBOL FOUR-STRING FRETBOARD", 119069>>, <<"MUSICAL SYMBOL G CLEF", 119070>>,
    <<"MUSICAL SYMBOL G CLEF OTTAVA ALTA", 119071>>, <<"MUSICAL SYMBOL G CLEF OTTAVA BASSA", 119072>>,
    <<"MUSICAL SYMBOL C CLEF", 119073>>, <<"MUSICAL SYMBOL F CLEF", 119074>>,
    <<"MUSICAL SYMBOL F CLEF OTTAVA ALTA", 119075>>, <<"MUSICAL SYMBOL F CLEF OTTAVA BASSA", 119076>>,
    <<"MUSICAL SYMBOL DRUM CLEF-1", 119077>>, <<"MUSICAL SYMBOL DRUM CLEF-2", 119078>>,
    <<"MUSICAL SYMBOL MULTIPLE MEASURE REST", 119081>>, <<"MUSICAL SYMBOL DOUBLE SHARP", 119082>>,
    <<"MUSICAL SYMBOL DOUBLE FLAT", 119083>>, <<"MUSICAL SYMBOL FLAT UP", 119084>>,
    <<"MUSICAL SYMBOL FLAT DOWN", 119085>>, <<"MUSICAL SYMBOL NATURAL UP", 119086>>,
    <<"MUSICAL SYMBOL NATURAL DOWN", 119087>>, <<"MUSICAL SYMBOL SHARP UP", 119088>>,
    <<"MUSICAL SYMBOL SHARP DOWN", 119089>>, <<"MUSICAL SYMBOL QUARTER TONE SHARP", 119090>>,
    <<"MUSICAL SYMBOL QUARTER TONE FLAT", 119091>>, <<"MUSICAL SYMBOL COMMON TIME", 119092>>,
    <<"MUSICAL SYMBOL CUT TIME", 119093>>, <<"MUSICAL SYMBOL OTTAVA ALTA", 119094>>,
    <<"MUSICAL SYMBOL OTTAVA BASSA", 119095>>, <<"MUSICAL SYMBOL QUINDICESIMA ALTA", 119096>>,
    <<"MUSICAL SYMBOL QUINDICESIMA BASSA", 119097>>, <<"MUSICAL SYMBOL MULTI REST", 119098>>,
    <<"MUSICAL SYMBOL WHOLE REST", 119099>>, <<"MUSICAL SYMBOL HALF REST", 119100>>,
    <<"MUSICAL SYMBOL QUARTER REST", 119101>>, <<"MUSICAL SYMBOL EIGHTH REST", 119102>>,
    <<"MUSICAL SYMBOL SIXTEENTH REST", 119103>>, <<"MUSICAL SYMBOL THIRTY-SECOND REST", 119104>>,
    <<"MUSICAL SYMBOL SIXTY-FOURTH REST", 119105>>,
    <<"MUSICAL SYMBOL ONE HUNDRED TWENTY-EIGHTH REST", 119106>>,
    <<"MUSICAL SYMBOL X NOTEHEAD", 119107>>, <<"MUSICAL SYMBOL PLUS NOTEHEAD", 119108>>,
    <<"MUSICAL SYMBOL CIRCLE X NOTEHEAD", 119109>>, <<"MUSICAL SYMBOL SQUARE NOTEHEAD WHITE", 119110>>,
    <<"MUSICAL SYMBOL SQUARE NOTEHEAD BLACK", 119111>>,
    <<"MUSICAL SYMBOL TRIANGLE NOTEHEAD UP WHITE", 119112>>,
    <<"MUSICAL SYMBOL TRIANGLE NOTEHEAD UP BLACK", 119113>>,
    <<"MUSICAL SYMBOL TRIANGLE NOTEHEAD LEFT WHITE", 119114>>,
    <<"MUSICAL SYMBOL TRIANGLE NOTEHEAD LEFT BLACK", 119115>>,
    <<"MUSICAL SYMBOL TRIANGLE NOTEHEAD RIGHT WHITE", 119116>>,
    <<"MUSICAL SYMBOL TRIANGLE NOTEHEAD RIGHT BLACK", 119117>>,
    <<"MUSICAL SYMBOL TRIANGLE NOTEHEAD DOWN WHITE", 119118>>,
    <<"MUSICAL SYMBOL TRIANGLE NOTEHEAD DOWN BLACK", 119119>>,
    <<"MUSICAL SYMBOL TRIANGLE NOTEHEAD UP RIGHT WHITE", 119120>>,
    <<"MUSICAL SYMBOL TRIANGLE NOTEHEAD UP RIGHT BLACK", 119121>>,
    <<"MUSICAL SYMBOL MOON NOTEHEAD WHITE", 119122>>, <<"MUSICAL SYMBOL MOON NOTEHEAD BLACK", 119123>>,
    <<"MUSICAL SYMBOL TRIANGLE-ROUND NOTEHEAD DOWN WHITE", 119124>>,
    <<"MUSICAL SYMBOL TRIANGLE-ROUND NOTEHEAD DOWN BLACK", 119125>>,
    <<"MUSICAL SYMBOL PARENTHESIS NOTEHEAD", 119126>>, <<"MUSICAL SYMBOL VOID NOTEHEAD", 119127>>,
    <<"MUSICAL SYMBOL NOTEHEAD BLACK", 119128>>, <<"MUSICAL SYMBOL NULL NOTEHEAD", 119129>>,
    <<"MUSICAL SYMBOL CLUSTER NOTEHEAD WHITE", 119130>>,
    <<"MUSICAL SYMBOL CLUSTER NOTEHEAD BLACK", 119131>>, <<"MUSICAL SYMBOL BREVE", 119132>>,
    <<"MUSICAL SYMBOL WHOLE NOTE", 119133>>, <<"MUSICAL SYMBOL HALF NOTE", 119134>>,
    <<"MUSICAL SYMBOL QUARTER NOTE", 119135>>, <<"MUSICAL SYMBOL EIGHTH NOTE", 119136>>,
    <<"MUSICAL SYMBOL SIXTEENTH NOTE", 119137>>, <<"MUSICAL SYMBOL THIRTY-SECOND NOTE", 119138>>,
    <<"MUSICAL SYMBOL SIXTY-FOURTH NOTE", 119139>>,
    <<"MUSICAL SYMBOL ONE HUNDRED TWENTY-EIGHTH NOTE", 119140>>,
    <<"MUSICAL SYMBOL COMBINING STEM", 119141>>,
    <<"MUSICAL SYMBOL COMBINING SPRECHGESANG STEM", 119142>>,
    <<"MUSICAL SYMBOL COMBINING TREMOLO-1", 119143>>, <<"MUSICAL SYMBOL COMBINING TREMOLO-2", 119144>>,
    <<"MUSICAL SYMBOL COMBINING TREMOLO-3", 119145>>, <<"MUSICAL SYMBOL FINGERED TREMOLO-1", 119146>>,
    <<"MUSICAL SYMBOL FINGERED TREMOLO-2", 119147>>, <<"MUSICAL SYMBOL FINGERED TREMOLO-3", 119148>>,
    <<"MUSICAL SYMBOL COMBINING AUGMENTATION DOT", 119149>>,
    <<"MUSICAL SYMBOL COMBINING FLAG-1", 119150>>, <<"MUSICAL SYMBOL COMBINING FLAG-2", 119151>>,
    <<"MUSICAL SYMBOL COMBINING FLAG-3", 119152>>, <<"MUSICAL SYMBOL COMBINING FLAG-4", 119153>>,
    <<"MUSICAL SYMBOL COMBINING FLAG-5", 119154>>, <<"MUSICAL SYMBOL BEGIN BEAM", 119155>>,
    <<"MUSICAL SYMBOL END BEAM", 119156>>, <<"MUSICAL SYMBOL BEGIN TIE", 119157>>,
    <<"MUSICAL SYMBOL END TIE", 119158>>, <<"MUSICAL SYMBOL BEGIN SLUR", 119159>>,
    <<"MUSICAL SYMBOL END SLUR", 119160>>, <<"MUSICAL SYMBOL BEGIN PHRASE", 119161>>,
    <<"MUSICAL SYMBOL END PHRASE", 119162>>, <<"MUSICAL SYMBOL COMBINING ACCENT", 119163>>,
    <<"MUSICAL SYMBOL COMBINING STACCATO", 119164>>, <<"MUSICAL SYMBOL COMBINING TENUTO", 119165>>,
    <<"MUSICAL SYMBOL COMBINING STACCATISSIMO", 119166>>,
    <<"MUSICAL SYMBOL COMBINING MARCATO", 119167>>,
    <<"MUSICAL SYMBOL COMBINING MARCATO-STACCATO", 119168>>,
    <<"MUSICAL SYMBOL COMBINING ACCENT-STACCATO", 119169>>,
    <<"MUSICAL SYMBOL COMBINING LOURE", 119170>>, <<"MUSICAL SYMBOL ARPEGGIATO UP", 119171>>,
    <<"MUSICAL SYMBOL ARPEGGIATO DOWN", 119172>>, <<"MUSICAL SYMBOL COMBINING DOIT", 119173>>,
    <<"MUSICAL SYMBOL COMBINING RIP", 119174>>, <<"MUSICAL SYMBOL COMBINING FLIP", 119175>>,
    <<"MUSICAL SYMBOL COMBINING SMEAR", 119176>>, <<"MUSICAL SYMBOL COMBINING BEND", 119177>>,
    <<"MUSICAL SYMBOL COMBINING DOUBLE TONGUE", 119178>>,
    <<"MUSICAL SYMBOL COMBINING TRIPLE TONGUE", 119179>>, <<"MUSICAL SYMBOL RINFORZANDO", 119180>>,
    <<"MUSICAL SYMBOL SUBITO", 119181>>, <<"MUSICAL SYMBOL Z", 119182>>,
    <<"MUSICAL SYMBOL PIANO", 119183>>, <<"MUSICAL SYMBOL MEZZO", 119184>>,
    <<"MUSICAL SYMBOL FORTE", 119185>>, <<"MUSICAL SYMBOL CRESCENDO", 119186>>,
    <<"MUSICAL SYMBOL DECRESCENDO", 119187>>, <<"MUSICAL SYMBOL GRACE NOTE SLASH", 119188>>,
    <<"MUSICAL SYMBOL GRACE NOTE NO SLASH", 119189>>, <<"MUSICAL SYMBOL TR", 119190>>,
    <<"MUSICAL SYMBOL TURN", 119191>>, <<"MUSICAL SYMBOL INVERTED TURN", 119192>>,
    <<"MUSICAL SYMBOL TURN SLASH", 119193>>, <<"MUSICAL SYMBOL TURN UP", 119194>>,
    <<"MUSICAL SYMBOL ORNAMENT STROKE-1", 119195>>, <<"MUSICAL SYMBOL ORNAMENT STROKE-2", 119196>>,
    <<"MUSICAL SYMBOL ORNAMENT STROKE-3", 119197>>, <<"MUSICAL SYMBOL ORNAMENT STROKE-4", 119198>>,
    <<"MUSICAL SYMBOL ORNAMENT STROKE-5", 119199>>, <<"MUSICAL SYMBOL ORNAMENT STROKE-6", 119200>>,
    <<"MUSICAL SYMBOL ORNAMENT STROKE-7", 119201>>, <<"MUSICAL SYMBOL ORNAMENT STROKE-8", 119202>>,
    <<"MUSICAL SYMBOL ORNAMENT STROKE-9", 119203>>, <<"MUSICAL SYMBOL ORNAMENT STROKE-10", 119204>>,
    <<"MUSICAL SYMBOL ORNAMENT STROKE-11", 119205>>, <<"MUSICAL SYMBOL HAUPTSTIMME", 119206>>,
    <<"MUSICAL SYMBOL NEBENSTIMME", 119207>>, <<"MUSICAL SYMBOL END OF STIMME", 119208>>,
    <<"MUSICAL SYMBOL DEGREE SLASH", 119209>>, <<"MUSICAL SYMBOL COMBINING DOWN BOW", 119210>>,
    <<"MUSICAL SYMBOL COMBINING UP BOW", 119211>>, <<"MUSICAL SYMBOL COMBINING HARMONIC", 119212>>,
    <<"MUSICAL SYMBOL COMBINING SNAP PIZZICATO", 119213>>, <<"MUSICAL SYMBOL PEDAL MARK", 119214>>,
    <<"MUSICAL SYMBOL PEDAL UP MARK", 119215>>, <<"MUSICAL SYMBOL HALF PEDAL MARK", 119216>>,
    <<"MUSICAL SYMBOL GLISSANDO UP", 119217>>, <<"MUSICAL SYMBOL GLISSANDO DOWN", 119218>>,
    <<"MUSICAL SYMBOL WITH FINGERNAILS", 119219>>, <<"MUSICAL SYMBOL DAMP", 119220>>,
    <<"MUSICAL SYMBOL DAMP ALL", 119221>>, <<"MUSICAL SYMBOL MAXIMA", 119222>>,
    <<"MUSICAL SYMBOL LONGA", 119223>>, <<"MUSICAL SYMBOL BREVIS", 119224>>,
    <<"MUSICAL SYMBOL SEMIBREVIS WHITE", 119225>>, <<"MUSICAL SYMBOL SEMIBREVIS BLACK", 119226>>,
    <<"MUSICAL SYMBOL MINIMA", 119227>>, <<"MUSICAL SYMBOL MINIMA BLACK", 119228>>,
    <<"MUSICAL SYMBOL SEMIMINIMA WHITE", 119229>>, <<"MUSICAL SYMBOL SEMIMINIMA BLACK", 119230>>,
    <<"MUSICAL SYMBOL FUSA WHITE", 119231>>, <<"MUSICAL SYMBOL FUSA BLACK", 119232>>,
    <<"MUSICAL SYMBOL LONGA PERFECTA REST", 119233>>,
    <<"MUSICAL SYMBOL LONGA IMPERFECTA REST", 119234>>, <<"MUSICAL SYMBOL BREVIS REST", 119235>>,
    <<"MUSICAL SYMBOL SEMIBREVIS REST", 119236>>, <<"MUSICAL SYMBOL MINIMA REST", 119237>>,
    <<"MUSICAL SYMBOL SEMIMINIMA REST", 119238>>,
    <<"MUSICAL SYMBOL TEMPUS PERFECTUM CUM PROLATIONE PERFECTA", 119239>>,
    <<"MUSICAL SYMBOL TEMPUS PERFECTUM CUM PROLATIONE IMPERFECTA", 119240>>,
    <<"MUSICAL SYMBOL TEMPUS PERFECTUM CUM PROLATIONE PERFECTA DIMINUTION-1", 119241>>,
    <<"MUSICAL SYMBOL TEMPUS IMPERFECTUM CUM PROLATIONE PERFECTA", 119242>>,
    <<"MUSICAL SYMBOL TEMPUS IMPERFECTUM CUM PROLATIONE IMPERFECTA", 119243>>,
    <<"MUSICAL SYMBOL TEMPUS IMPERFECTUM CUM PROLATIONE IMPERFECTA DIMINUTION-1", 119244>>,
    <<"MUSICAL SYMBOL TEMPUS IMPERFECTUM CUM PROLATIONE IMPERFECTA DIMINUTION-2", 119245>>,
    <<"MUSICAL SYMBOL TEMPUS IMPERFECTUM CUM PROLATIONE IMPERFECTA DIMINUTION-3", 119246>>,
    <<"MUSICAL SYMBOL CROIX", 119247>>, <<"MUSICAL SYMBOL GREGORIAN C CLEF", 119248>>,
    <<"MUSICAL SYMBOL GREGORIAN F CLEF", 119249>>, <<"MUSICAL SYMBOL SQUARE B", 119250>>,
    <<"MUSICAL SYMBOL VIRGA", 119251>>, <<"MUSICAL SYMBOL PODATUS", 119252>>,
    <<"MUSICAL SYMBOL CLIVIS", 119253>>, <<"MUSICAL SYMBOL SCANDICUS", 119254>>,
    <<"MUSICAL SYMBOL CLIMACUS", 119255>>, <<"MUSICAL SYMBOL TORCULUS", 119256>>,
    <<"MUSICAL SYMBOL PORRECTUS", 119257>>, <<"MUSICAL SYMBOL PORRECTUS FLEXUS", 119258>>,
    <<"MUSICAL SYMBOL SCANDICUS FLEXUS", 119259>>, <<"MUSICAL SYMBOL TORCULUS RESUPINUS", 119260>>,
    <<"MUSICAL SYMBOL PES SUBPUNCTIS", 119261>>, <<"MUSICAL SYMBOL KIEVAN C CLEF", 119262>>,
    <<"MUSICAL SYMBOL KIEVAN END OF PIECE", 119263>>, <<"MUSICAL SYMBOL KIEVAN FINAL NOTE", 119264>>,
    <<"MUSICAL SYMBOL KIEVAN RECITATIVE MARK", 119265>>,
    <<"MUSICAL SYMBOL KIEVAN WHOLE NOTE", 119266>>, <<"MUSICAL SYMBOL KIEVAN HALF NOTE", 119267>>,
    <<"MUSICAL SYMBOL KIEVAN QUARTER NOTE STEM DOWN", 119268>>,
    <<"MUSICAL SYMBOL KIEVAN QUARTER NOTE STEM UP", 119269>>,
    <<"MUSICAL SYMBOL KIEVAN EIGHTH NOTE STEM DOWN", 119270>>,
    <<"MUSICAL SYMBOL KIEVAN EIGHTH NOTE STEM UP", 119271>>,
    <<"MUSICAL SYMBOL KIEVAN FLAT SIGN", 119272>>, <<"MUSICAL SYMBOL SORI", 119273>>,
    <<"MUSICAL SYMBOL KORON", 119274>>, <<"GREEK VOCAL NOTATION SYMBOL-1", 119296>>,
    <<"GREEK VOCAL NOTATION SYMBOL-2", 119297>>, <<"GREEK VOCAL NOTATION SYMBOL-3", 119298>>,
    <<"GREEK VOCAL NOTATION SYMBOL-4", 119299>>, <<"GREEK VOCAL NOTATION SYMBOL-5", 119300>>,
    <<"GREEK VOCAL NOTATION SYMBOL-6", 119301>>, <<"GREEK VOCAL NOTATION SYMBOL-7", 119302>>,
    <<"GREEK VOCAL NOTATION SYMBOL-8", 119303>>, <<"GREEK VOCAL NOTATION SYMBOL-9", 119304>>,
    <<"GREEK VOCAL NOTATION SYMBOL-10", 119305>>, <<"GREEK VOCAL NOTATION SYMBOL-11", 119306>>,
    <<"GREEK VOCAL NOTATION SYMBOL-12", 119307>>, <<"GREEK VOCAL NOTATION SYMBOL-13", 119308>>,
    <<"GREEK VOCAL NOTATION SYMBOL-14", 119309>>, <<"GREEK VOCAL NOTATION SYMBOL-15", 119310>>,
    <<"GREEK VOCAL NOTATION SYMBOL-16", 119311>>, <<"GREEK VOCAL NOTATION SYMBOL-17", 119312>>,
    <<"GREEK VOCAL NOTATION SYMBOL-18", 119313>>, <<"GREEK VOCAL NOTATION SYMBOL-19", 119314>>,
    <<"GREEK VOCAL NOTATION SYMBOL-20", 119315>>, <<"GREEK VOCAL NOTATION SYMBOL-21", 119316>>,
    <<"GREEK VOCAL NOTATION SYMBOL-22", 119317>>, <<"GREEK VOCAL NOTATION SYMBOL-23", 119318>>,
    <<"GREEK VOCAL NOTATION SYMBOL-24", 119319>>, <<"GREEK VOCAL NOTATION SYMBOL-50", 119320>>,
    <<"GREEK VOCAL NOTATION SYMBOL-51", 119321>>, <<"GREEK VOCAL NOTATION SYMBOL-52", 119322>>,
    <<"GREEK VOCAL NOTATION SYMBOL-53", 119323>>, <<"GREEK VOCAL NOTATION SYMBOL-54", 119324>>,
    <<"GREEK INSTRUMENTAL NOTATION SYMBOL-1", 119325>>,
    <<"GREEK INSTRUMENTAL NOTATION SYMBOL-2", 119326>>,
    <<"GREEK INSTRUMENTAL NOTATION SYMBOL-4", 119327>>,
    <<"GREEK INSTRUMENTAL NOTATION SYMBOL-5", 119328>>,
    <<"GREEK INSTRUMENTAL NOTATION SYMBOL-7", 119329>>,
    <<"GREEK INSTRUMENTAL NOTATION SYMBOL-8", 119330>>,
    <<"GREEK INSTRUMENTAL NOTATION SYMBOL-11", 119331>>,
    <<"GREEK INSTRUMENTAL NOTATION SYMBOL-12", 119332>>,
    <<"GREEK INSTRUMENTAL NOTATION SYMBOL-13", 119333>>,
    <<"GREEK INSTRUMENTAL NOTATION SYMBOL-14", 119334>>,
    <<"GREEK INSTRUMENTAL NOTATION SYMBOL-17", 119335>>,
    <<"GREEK INSTRUMENTAL NOTATION SYMBOL-18", 119336>>,
    <<"GREEK INSTRUMENTAL NOTATION SYMBOL-19", 119337>>,
    <<"GREEK INSTRUMENTAL NOTATION SYMBOL-23", 119338>>,
    <<"GREEK INSTRUMENTAL NOTATION SYMBOL-24", 119339>>,
    <<"GREEK INSTRUMENTAL NOTATION SYMBOL-25", 119340>>,
    <<"GREEK INSTRUMENTAL NOTATION SYMBOL-26", 119341>>,
    <<"GREEK INSTRUMENTAL NOTATION SYMBOL-27", 119342>>,
    <<"GREEK INSTRUMENTAL NOTATION SYMBOL-29", 119343>>,
    <<"GREEK INSTRUMENTAL NOTATION SYMBOL-30", 119344>>,
    <<"GREEK INSTRUMENTAL NOTATION SYMBOL-32", 119345>>,
    <<"GREEK INSTRUMENTAL NOTATION SYMBOL-36", 119346>>,
    <<"GREEK INSTRUMENTAL NOTATION SYMBOL-37", 119347>>,
    <<"GREEK INSTRUMENTAL NOTATION SYMBOL-38", 119348>>,
    <<"GREEK INSTRUMENTAL NOTATION SYMBOL-39", 119349>>,
    <<"GREEK INSTRUMENTAL NOTATION SYMBOL-40", 119350>>,
    <<"GREEK INSTRUMENTAL NOTATION SYMBOL-42", 119351>>,
    <<"GREEK INSTRUMENTAL NOTATION SYMBOL-43", 119352>>,
    <<"GREEK INSTRUMENTAL NOTATION SYMBOL-45", 119353>>,
    <<"GREEK INSTRUMENTAL NOTATION SYMBOL-47", 119354>>,
    <<"GREEK INSTRUMENTAL NOTATION SYMBOL-48", 119355>>,
    <<"GREEK INSTRUMENTAL NOTATION SYMBOL-49", 119356>>,
    <<"GREEK INSTRUMENTAL NOTATION SYMBOL-50", 119357>>,
    <<"GREEK INSTRUMENTAL NOTATION SYMBOL-51", 119358>>,
    <<"GREEK INSTRUMENTAL NOTATION SYMBOL-52", 119359>>,
    <<"GREEK INSTRUMENTAL NOTATION SYMBOL-53", 119360>>,
    <<"GREEK INSTRUMENTAL NOTATION SYMBOL-54", 119361>>, <<"COMBINING GREEK MUSICAL TRISEME", 119362>>,
    <<"COMBINING GREEK MUSICAL TETRASEME", 119363>>, <<"COMBINING GREEK MUSICAL PENTASEME", 119364>>,
    <<"GREEK MUSICAL LEIMMA", 119365>>, <<"MAYAN NUMERAL ZERO", 119520>>,
    <<"MAYAN NUMERAL ONE", 119521>>, <<"MAYAN NUMERAL TWO", 119522>>,
    <<"MAYAN NUMERAL THREE", 119523>>, <<"MAYAN NUMERAL FOUR", 119524>>,
    <<"MAYAN NUMERAL FIVE", 119525>>, <<"MAYAN NUMERAL SIX", 119526>>,
    <<"MAYAN NUMERAL SEVEN", 119527>>, <<"MAYAN NUMERAL EIGHT", 119528>>,
    <<"MAYAN NUMERAL NINE", 119529>>, <<"MAYAN NUMERAL TEN", 119530>>,
    <<"MAYAN NUMERAL ELEVEN", 119531>>, <<"MAYAN NUMERAL TWELVE", 119532>>,
    <<"MAYAN NUMERAL THIRTEEN", 119533>>, <<"MAYAN NUMERAL FOURTEEN", 119534>>,
    <<"MAYAN NUMERAL FIFTEEN", 119535>>, <<"MAYAN NUMERAL SIXTEEN", 119536>>,
    <<"MAYAN NUMERAL SEVENTEEN", 119537>>, <<"MAYAN NUMERAL EIGHTEEN", 119538>>,
    <<"MAYAN NUMERAL NINETEEN", 119539>>, <<"MONOGRAM FOR EARTH", 119552>>,
    <<"DIGRAM FOR HEAVENLY EARTH", 119553>>, <<"DIGRAM FOR HUMAN EARTH", 119554>>,
    <<"DIGRAM FOR EARTHLY HEAVEN", 119555>>, <<"DIGRAM FOR EARTHLY HUMAN", 119556>>,
    <<"DIGRAM FOR EARTH", 119557>>, <<"TETRAGRAM FOR CENTRE", 119558>>,
    <<"TETRAGRAM FOR FULL CIRCLE", 119559>>, <<"TETRAGRAM FOR MIRED", 119560>>,
    <<"TETRAGRAM FOR BARRIER", 119561>>, <<"TETRAGRAM FOR KEEPING SMALL", 119562>>,
    <<"TETRAGRAM FOR CONTRARIETY", 119563>>, <<"TETRAGRAM FOR ASCENT", 119564>>,
    <<"TETRAGRAM FOR OPPOSITION", 119565>>, <<"TETRAGRAM FOR BRANCHING OUT", 119566>>,
    <<"TETRAGRAM FOR DEFECTIVENESS OR DISTORTION", 119567>>, <<"TETRAGRAM FOR DIVERGENCE", 119568>>,
    <<"TETRAGRAM FOR YOUTHFULNESS", 119569>>, <<"TETRAGRAM FOR INCREASE", 119570>>,
    <<"TETRAGRAM FOR PENETRATION", 119571>>, <<"TETRAGRAM FOR REACH", 119572>>,
    <<"TETRAGRAM FOR CONTACT", 119573>>, <<"TETRAGRAM FOR HOLDING BACK", 119574>>,
    <<"TETRAGRAM FOR WAITING", 119575>>, <<"TETRAGRAM FOR FOLLOWING", 119576>>,
    <<"TETRAGRAM FOR ADVANCE", 119577>>, <<"TETRAGRAM FOR RELEASE", 119578>>,
    <<"TETRAGRAM FOR RESISTANCE", 119579>>, <<"TETRAGRAM FOR EASE", 119580>>,
    <<"TETRAGRAM FOR JOY", 119581>>, <<"TETRAGRAM FOR CONTENTION", 119582>>,
    <<"TETRAGRAM FOR ENDEAVOUR", 119583>>, <<"TETRAGRAM FOR DUTIES", 119584>>,
    <<"TETRAGRAM FOR CHANGE", 119585>>, <<"TETRAGRAM FOR DECISIVENESS", 119586>>,
    <<"TETRAGRAM FOR BOLD RESOLUTION", 119587>>, <<"TETRAGRAM FOR PACKING", 119588>>,
    <<"TETRAGRAM FOR LEGION", 119589>>, <<"TETRAGRAM FOR CLOSENESS", 119590>>,
    <<"TETRAGRAM FOR KINSHIP", 119591>>, <<"TETRAGRAM FOR GATHERING", 119592>>,
    <<"TETRAGRAM FOR STRENGTH", 119593>>, <<"TETRAGRAM FOR PURITY", 119594>>,
    <<"TETRAGRAM FOR FULLNESS", 119595>>, <<"TETRAGRAM FOR RESIDENCE", 119596>>,
    <<"TETRAGRAM FOR LAW OR MODEL", 119597>>, <<"TETRAGRAM FOR RESPONSE", 119598>>,
    <<"TETRAGRAM FOR GOING TO MEET", 119599>>, <<"TETRAGRAM FOR ENCOUNTERS", 119600>>,
    <<"TETRAGRAM FOR STOVE", 119601>>, <<"TETRAGRAM FOR GREATNESS", 119602>>,
    <<"TETRAGRAM FOR ENLARGEMENT", 119603>>, <<"TETRAGRAM FOR PATTERN", 119604>>,
    <<"TETRAGRAM FOR RITUAL", 119605>>, <<"TETRAGRAM FOR FLIGHT", 119606>>,
    <<"TETRAGRAM FOR VASTNESS OR WASTING", 119607>>, <<"TETRAGRAM FOR CONSTANCY", 119608>>,
    <<"TETRAGRAM FOR MEASURE", 119609>>, <<"TETRAGRAM FOR ETERNITY", 119610>>,
    <<"TETRAGRAM FOR UNITY", 119611>>, <<"TETRAGRAM FOR DIMINISHMENT", 119612>>,
    <<"TETRAGRAM FOR CLOSED MOUTH", 119613>>, <<"TETRAGRAM FOR GUARDEDNESS", 119614>>,
    <<"TETRAGRAM FOR GATHERING IN", 119615>>, <<"TETRAGRAM FOR MASSING", 119616>>,
    <<"TETRAGRAM FOR ACCUMULATION", 119617>>, <<"TETRAGRAM FOR EMBELLISHMENT", 119618>>,
    <<"TETRAGRAM FOR DOUBT", 119619>>, <<"TETRAGRAM FOR WATCH", 119620>>,
    <<"TETRAGRAM FOR SINKING", 119621>>, <<"TETRAGRAM FOR INNER", 119622>>,
    <<"TETRAGRAM FOR DEPARTURE", 119623>>, <<"TETRAGRAM FOR DARKENING", 119624>>,
    <<"TETRAGRAM FOR DIMMING", 119625>>, <<"TETRAGRAM FOR EXHAUSTION", 119626>>,
    <<"TETRAGRAM FOR SEVERANCE", 119627>>, <<"TETRAGRAM FOR STOPPAGE", 119628>>,
    <<"TETRAGRAM FOR HARDNESS", 119629>>, <<"TETRAGRAM FOR COMPLETION", 119630>>,
    <<"TETRAGRAM FOR CLOSURE", 119631>>, <<"TETRAGRAM FOR FAILURE", 119632>>,
    <<"TETRAGRAM FOR AGGRAVATION", 119633>>, <<"TETRAGRAM FOR COMPLIANCE", 119634>>,
    <<"TETRAGRAM FOR ON THE VERGE", 119635>>, <<"TETRAGRAM FOR DIFFICULTIES", 119636>>,
    <<"TETRAGRAM FOR LABOURING", 119637>>, <<"TETRAGRAM FOR FOSTERING", 119638>>,
    <<"COUNTING ROD UNIT DIGIT ONE", 119648>>, <<"COUNTING ROD UNIT DIGIT TWO", 119649>>,
    <<"COUNTING ROD UNIT DIGIT THREE", 119650>>, <<"COUNTING ROD UNIT DIGIT FOUR", 119651>>,
    <<"COUNTING ROD UNIT DIGIT FIVE", 119652>>, <<"COUNTING ROD UNIT DIGIT SIX", 119653>>,
    <<"COUNTING ROD UNIT DIGIT SEVEN", 119654>>, <<"COUNTING ROD UNIT DIGIT EIGHT", 119655>>,
    <<"COUNTING ROD UNIT DIGIT NINE", 119656>>, <<"COUNTING ROD TENS DIGIT ONE", 119657>>,
    <<"COUNTING ROD TENS DIGIT TWO", 119658>>, <<"COUNTING ROD TENS DIGIT THREE", 119659>>,
    <<"COUNTING ROD TENS DIGIT FOUR", 119660>>, <<"COUNTING ROD TENS DIGIT FIVE", 119661>>,
    <<"COUNTING ROD TENS DIGIT SIX", 119662>>, <<"COUNTING ROD TENS DIGIT SEVEN", 119663>>,
    <<"COUNTING ROD TENS DIGIT EIGHT", 119664>>, <<"COUNTING ROD TENS DIGIT NINE", 119665>>,
    <<"IDEOGRAPHIC TALLY MARK ONE", 119666>>, <<"IDEOGRAPHIC TALLY MARK TWO", 119667>>,
    <<"IDEOGRAPHIC TALLY MARK THREE", 119668>>, <<"IDEOGRAPHIC TALLY MARK FOUR", 119669>>,
    <<"IDEOGRAPHIC TALLY MARK FIVE", 119670>>, <<"TALLY MARK ONE", 119671>>,
    <<"TALLY MARK FIVE", 119672>>, <<"MATHEMATICAL BOLD CAPITAL A", 119808>>,
    <<"MATHEMATICAL BOLD CAPITAL B", 119809>>, <<"MATHEMATICAL BOLD CAPITAL C", 119810>>,
    <<"MATHEMATICAL BOLD CAPITAL D", 119811>>, <<"MATHEMATICAL BOLD CAPITAL E", 119812>>,
    <<"MATHEMATICAL BOLD CAPITAL F", 119813>>, <<"MATHEMATICAL BOLD CAPITAL G", 119814>>,
    <<"MATHEMATICAL BOLD CAPITAL H", 119815>>, <<"MATHEMATICAL BOLD CAPITAL I", 119816>>,
    <<"MATHEMATICAL BOLD CAPITAL J", 119817>>, <<"MATHEMATICAL BOLD CAPITAL K", 119818>>,
    <<"MATHEMATICAL BOLD CAPITAL L", 119819>>, <<"MATHEMATICAL BOLD CAPITAL M", 119820>>,
    <<"MATHEMATICAL BOLD CAPITAL N", 119821>>, <<"MATHEMATICAL BOLD CAPITAL O", 119822>>,
    <<"MATHEMATICAL BOLD CAPITAL P", 119823>>, <<"MATHEMATICAL BOLD CAPITAL Q", 119824>>,
    <<"MATHEMATICAL BOLD CAPITAL R", 119825>>, <<"MATHEMATICAL BOLD CAPITAL S", 119826>>,
    <<"MATHEMATICAL BOLD CAPITAL T", 119827>>, <<"MATHEMATICAL BOLD CAPITAL U", 119828>>,
    <<"MATHEMATICAL BOLD CAPITAL V", 119829>>, <<"MATHEMATICAL BOLD CAPITAL W", 119830>>,
    <<"MATHEMATICAL BOLD CAPITAL X", 119831>>, <<"MATHEMATICAL BOLD CAPITAL Y", 119832>>,
    <<"MATHEMATICAL BOLD CAPITAL Z", 119833>>, <<"MATHEMATICAL BOLD SMALL A", 119834>>,
    <<"MATHEMATICAL BOLD SMALL B", 119835>>, <<"MATHEMATICAL BOLD SMALL C", 119836>>,
    <<"MATHEMATICAL BOLD SMALL D", 119837>>, <<"MATHEMATICAL BOLD SMALL E", 119838>>,
    <<"MATHEMATICAL BOLD SMALL F", 119839>>, <<"MATHEMATICAL BOLD SMALL G", 119840>>,
    <<"MATHEMATICAL BOLD SMALL H", 119841>>, <<"MATHEMATICAL BOLD SMALL I", 119842>>,
    <<"MATHEMATICAL BOLD SMALL J", 119843>>, <<"MATHEMATICAL BOLD SMALL K", 119844>>,
    <<"MATHEMATICAL BOLD SMALL L", 119845>>, <<"MATHEMATICAL BOLD SMALL M", 119846>>,
    <<"MATHEMATICAL BOLD SMALL N", 119847>>, <<"MATHEMATICAL BOLD SMALL O", 119848>>,
    <<"MATHEMATICAL BOLD SMALL P", 119849>>, <<"MATHEMATICAL BOLD SMALL Q", 119850>>,
    <<"MATHEMATICAL BOLD SMALL R", 119851>>, <<"MATHEMATICAL BOLD SMALL S", 119852>>,
    <<"MATHEMATICAL BOLD SMALL T", 119853>>, <<"MATHEMATICAL BOLD SMALL U", 119854>>,
    <<"MATHEMATICAL BOLD SMALL V", 119855>>, <<"MATHEMATICAL BOLD SMALL W", 119856>>,
    <<"MATHEMATICAL BOLD SMALL X", 119857>>, <<"MATHEMATICAL BOLD SMALL Y", 119858>>,
    <<"MATHEMATICAL BOLD SMALL Z", 119859>>, <<"MATHEMATICAL ITALIC CAPITAL A", 119860>>,
    <<"MATHEMATICAL ITALIC CAPITAL B", 119861>>, <<"MATHEMATICAL ITALIC CAPITAL C", 119862>>,
    <<"MATHEMATICAL ITALIC CAPITAL D", 119863>>, <<"MATHEMATICAL ITALIC CAPITAL E", 119864>>,
    <<"MATHEMATICAL ITALIC CAPITAL F", 119865>>, <<"MATHEMATICAL ITALIC CAPITAL G", 119866>>,
    <<"MATHEMATICAL ITALIC CAPITAL H", 119867>>, <<"MATHEMATICAL ITALIC CAPITAL I", 119868>>,
    <<"MATHEMATICAL ITALIC CAPITAL J", 119869>>, <<"MATHEMATICAL ITALIC CAPITAL K", 119870>>,
    <<"MATHEMATICAL ITALIC CAPITAL L", 119871>>, <<"MATHEMATICAL ITALIC CAPITAL M", 119872>>,
    <<"MATHEMATICAL ITALIC CAPITAL N", 119873>>, <<"MATHEMATICAL ITALIC CAPITAL O", 119874>>,
    <<"MATHEMATICAL ITALIC CAPITAL P", 119875>>, <<"MATHEMATICAL ITALIC CAPITAL Q", 119876>>,
    <<"MATHEMATICAL ITALIC CAPITAL R", 119877>>, <<"MATHEMATICAL ITALIC CAPITAL S", 119878>>,
    <<"MATHEMATICAL ITALIC CAPITAL T", 119879>>, <<"MATHEMATICAL ITALIC CAPITAL U", 119880>>,
    <<"MATHEMATICAL ITALIC CAPITAL V", 119881>>, <<"MATHEMATICAL ITALIC CAPITAL W", 119882>>,
    <<"MATHEMATICAL ITALIC CAPITAL X", 119883>>, <<"MATHEMATICAL ITALIC CAPITAL Y", 119884>>,
    <<"MATHEMATICAL ITALIC CAPITAL Z", 119885>>, <<"MATHEMATICAL ITALIC SMALL A", 119886>>,
    <<"MATHEMATICAL ITALIC SMALL B", 119887>>, <<"MATHEMATICAL ITALIC SMALL C", 119888>>,
    <<"MATHEMATICAL ITALIC SMALL D", 119889>>, <<"MATHEMATICAL ITALIC SMALL E", 119890>>,
    <<"MATHEMATICAL ITALIC SMALL F", 119891>>, <<"MATHEMATICAL ITALIC SMALL G", 119892>>,
    <<"MATHEMATICAL ITALIC SMALL I", 119894>>, <<"MATHEMATICAL ITALIC SMALL J", 119895>>,
    <<"MATHEMATICAL ITALIC SMALL K", 119896>>, <<"MATHEMATICAL ITALIC SMALL L", 119897>>,
    <<"MATHEMATICAL ITALIC SMALL M", 119898>>, <<"MATHEMATICAL ITALIC SMALL N", 119899>>,
    <<"MATHEMATICAL ITALIC SMALL O", 119900>>, <<"MATHEMATICAL ITALIC SMALL P", 119901>>,
    <<"MATHEMATICAL ITALIC SMALL Q", 119902>>, <<"MATHEMATICAL ITALIC SMALL R", 119903>>,
    <<"MATHEMATICAL ITALIC SMALL S", 119904>>, <<"MATHEMATICAL ITALIC SMALL T", 119905>>,
    <<"MATHEMATICAL ITALIC SMALL U", 119906>>, <<"MATHEMATICAL ITALIC SMALL V", 119907>>,
    <<"MATHEMATICAL ITALIC SMALL W", 119908>>, <<"MATHEMATICAL ITALIC SMALL X", 119909>>,
    <<"MATHEMATICAL ITALIC SMALL Y", 119910>>, <<"MATHEMATICAL ITALIC SMALL Z", 119911>>,
    <<"MATHEMATICAL BOLD ITALIC CAPITAL A", 119912>>, <<"MATHEMATICAL BOLD ITALIC CAPITAL B", 119913>>,
    <<"MATHEMATICAL BOLD ITALIC CAPITAL C", 119914>>, <<"MATHEMATICAL BOLD ITALIC CAPITAL D", 119915>>,
    <<"MATHEMATICAL BOLD ITALIC CAPITAL E", 119916>>, <<"MATHEMATICAL BOLD ITALIC CAPITAL F", 119917>>,
    <<"MATHEMATICAL BOLD ITALIC CAPITAL G", 119918>>, <<"MATHEMATICAL BOLD ITALIC CAPITAL H", 119919>>,
    <<"MATHEMATICAL BOLD ITALIC CAPITAL I", 119920>>, <<"MATHEMATICAL BOLD ITALIC CAPITAL J", 119921>>,
    <<"MATHEMATICAL BOLD ITALIC CAPITAL K", 119922>>, <<"MATHEMATICAL BOLD ITALIC CAPITAL L", 119923>>,
    <<"MATHEMATICAL BOLD ITALIC CAPITAL M", 119924>>, <<"MATHEMATICAL BOLD ITALIC CAPITAL N", 119925>>,
    <<"MATHEMATICAL BOLD ITALIC CAPITAL O", 119926>>, <<"MATHEMATICAL BOLD ITALIC CAPITAL P", 119927>>,
    <<"MATHEMATICAL BOLD ITALIC CAPITAL Q", 119928>>, <<"MATHEMATICAL BOLD ITALIC CAPITAL R", 119929>>,
    <<"MATHEMATICAL BOLD ITALIC CAPITAL S", 119930>>, <<"MATHEMATICAL BOLD ITALIC CAPITAL T", 119931>>,
    <<"MATHEMATICAL BOLD ITALIC CAPITAL U", 119932>>, <<"MATHEMATICAL BOLD ITALIC CAPITAL V", 119933>>,
    <<"MATHEMATICAL BOLD ITALIC CAPITAL W", 119934>>, <<"MATHEMATICAL BOLD ITALIC CAPITAL X", 119935>>,
    <<"MATHEMATICAL BOLD ITALIC CAPITAL Y", 119936>>, <<"MATHEMATICAL BOLD ITALIC CAPITAL Z", 119937>>,
    <<"MATHEMATICAL BOLD ITALIC SMALL A", 119938>>, <<"MATHEMATICAL BOLD ITALIC SMALL B", 119939>>,
    <<"MATHEMATICAL BOLD ITALIC SMALL C", 119940>>, <<"MATHEMATICAL BOLD ITALIC SMALL D", 119941>>,
    <<"MATHEMATICAL BOLD ITALIC SMALL E", 119942>>, <<"MATHEMATICAL BOLD ITALIC SMALL F", 119943>>,
    <<"MATHEMATICAL BOLD ITALIC SMALL G", 119944>>, <<"MATHEMATICAL BOLD ITALIC SMALL H", 119945>>,
    <<"MATHEMATICAL BOLD ITALIC SMALL I", 119946>>, <<"MATHEMATICAL BOLD ITALIC SMALL J", 119947>>,
    <<"MATHEMATICAL BOLD ITALIC SMALL K", 119948>>, <<"MATHEMATICAL BOLD ITALIC SMALL L", 119949>>,
    <<"MATHEMATICAL BOLD ITALIC SMALL M", 119950>>, <<"MATHEMATICAL BOLD ITALIC SMALL N", 119951>>,
    <<"MATHEMATICAL BOLD ITALIC SMALL O", 119952>>, <<"MATHEMATICAL BOLD ITALIC SMALL P", 119953>>,
    <<"MATHEMATICAL BOLD ITALIC SMALL Q", 119954>>, <<"MATHEMATICAL BOLD ITALIC SMALL R", 119955>>,
    <<"MATHEMATICAL BOLD ITALIC SMALL S", 119956>>, <<"MATHEMATICAL BOLD ITALIC SMALL T", 119957>>,
    <<"MATHEMATICAL BOLD ITALIC SMALL U", 119958>>, <<"MATHEMATICAL BOLD ITALIC SMALL V", 119959>>,
    <<"MATHEMATICAL BOLD ITALIC SMALL W", 119960>>, <<"MATHEMATICAL BOLD ITALIC SMALL X", 119961>>,
    <<"MATHEMATICAL BOLD ITALIC SMALL Y", 119962>>, <<"MATHEMATICAL BOLD ITALIC SMALL Z", 119963>>,
    <<"MATHEMATICAL SCRIPT CAPITAL A", 119964>>, <<"MATHEMATICAL SCRIPT CAPITAL C", 119966>>,
    <<"MATHEMATICAL SCRIPT CAPITAL D", 119967>>, <<"MATHEMATICAL SCRIPT CAPITAL G", 119970>>,
    <<"MATHEMATICAL SCRIPT CAPITAL J", 119973>>, <<"MATHEMATICAL SCRIPT CAPITAL K", 119974>>,
    <<"MATHEMATICAL SCRIPT CAPITAL N", 119977>>, <<"MATHEMATICAL SCRIPT CAPITAL O", 119978>>,
    <<"MATHEMATICAL SCRIPT CAPITAL P", 119979>>, <<"MATHEMATICAL SCRIPT CAPITAL Q", 119980>>,
    <<"MATHEMATICAL SCRIPT CAPITAL S", 119982>>, <<"MATHEMATICAL SCRIPT CAPITAL T", 119983>>,
    <<"MATHEMATICAL SCRIPT CAPITAL U", 119984>>, <<"MATHEMATICAL SCRIPT CAPITAL V", 119985>>,
    <<"MATHEMATICAL SCRIPT CAPITAL W", 119986>>, <<"MATHEMATICAL SCRIPT CAPITAL X", 119987>>,
    <<"MATHEMATICAL SCRIPT CAPITAL Y", 119988>>, <<"MATHEMATICAL SCRIPT CAPITAL Z", 119989>>,
    <<"MATHEMATICAL SCRIPT SMALL A", 119990>>, <<"MATHEMATICAL SCRIPT SMALL B", 119991>>,
    <<"MATHEMATICAL SCRIPT SMALL C", 119992>>, <<"MATHEMATICAL SCRIPT SMALL D", 119993>>,
    <<"MATHEMATICAL SCRIPT SMALL F", 119995>>, <<"MATHEMATICAL SCRIPT SMALL H", 119997>>,
    <<"MATHEMATICAL SCRIPT SMALL I", 119998>>, <<"MATHEMATICAL SCRIPT SMALL J", 119999>>,
    <<"MATHEMATICAL SCRIPT SMALL K", 120000>>, <<"MATHEMATICAL SCRIPT SMALL L", 120001>>,
    <<"MATHEMATICAL SCRIPT SMALL M", 120002>>, <<"MATHEMATICAL SCRIPT SMALL N", 120003>>,
    <<"MATHEMATICAL SCRIPT SMALL P", 120005>>, <<"MATHEMATICAL SCRIPT SMALL Q", 120006>>,
    <<"MATHEMATICAL SCRIPT SMALL R", 120007>>, <<"MATHEMATICAL SCRIPT SMALL S", 120008>>,
    <<"MATHEMATICAL SCRIPT SMALL T", 120009>>, <<"MATHEMATICAL SCRIPT SMALL U", 120010>>,
    <<"MATHEMATICAL SCRIPT SMALL V", 120011>>, <<"MATHEMATICAL SCRIPT SMALL W", 120012>>,
    <<"MATHEMATICAL SCRIPT SMALL X", 120013>>, <<"MATHEMATICAL SCRIPT SMALL Y", 120014>>,
    <<"MATHEMATICAL SCRIPT SMALL Z", 120015>>, <<"MATHEMATICAL BOLD SCRIPT CAPITAL A", 120016>>,
    <<"MATHEMATICAL BOLD SCRIPT CAPITAL B", 120017>>, <<"MATHEMATICAL BOLD SCRIPT CAPITAL C", 120018>>,
    <<"MATHEMATICAL BOLD SCRIPT CAPITAL D", 120019>>, <<"MATHEMATICAL BOLD SCRIPT CAPITAL E", 120020>>,
    <<"MATHEMATICAL BOLD SCRIPT CAPITAL F", 120021>>, <<"MATHEMATICAL BOLD SCRIPT CAPITAL G", 120022>>,
    <<"MATHEMATICAL BOLD SCRIPT CAPITAL H", 120023>>, <<"MATHEMATICAL BOLD SCRIPT CAPITAL I", 120024>>,
    <<"MATHEMATICAL BOLD SCRIPT CAPITAL J", 120025>>, <<"MATHEMATICAL BOLD SCRIPT CAPITAL K", 120026>>,
    <<"MATHEMATICAL BOLD SCRIPT CAPITAL L", 120027>>, <<"MATHEMATICAL BOLD SCRIPT CAPITAL M", 120028>>,
    <<"MATHEMATICAL BOLD SCRIPT CAPITAL N", 120029>>, <<"MATHEMATICAL BOLD SCRIPT CAPITAL O", 120030>>,
    <<"MATHEMATICAL BOLD SCRIPT CAPITAL P", 120031>>, <<"MATHEMATICAL BOLD SCRIPT CAPITAL Q", 120032>>,
    <<"MATHEMATICAL BOLD SCRIPT CAPITAL R", 120033>>, <<"MATHEMATICAL BOLD SCRIPT CAPITAL S", 120034>>,
    <<"MATHEMATICAL BOLD SCRIPT CAPITAL T", 120035>>, <<"MATHEMATICAL BOLD SCRIPT CAPITAL U", 120036>>,
    <<"MATHEMATICAL BOLD SCRIPT CAPITAL V", 120037>>, <<"MATHEMATICAL BOLD SCRIPT CAPITAL W", 120038>>,
    <<"MATHEMATICAL BOLD SCRIPT CAPITAL X", 120039>>, <<"MATHEMATICAL BOLD SCRIPT CAPITAL Y", 120040>>,
    <<"MATHEMATICAL BOLD SCRIPT CAPITAL Z", 120041>>, <<"MATHEMATICAL BOLD SCRIPT SMALL A", 120042>>,
    <<"MATHEMATICAL BOLD SCRIPT SMALL B", 120043>>, <<"MATHEMATICAL BOLD SCRIPT SMALL C", 120044>>,
    <<"MATHEMATICAL BOLD SCRIPT SMALL D", 120045>>, <<"MATHEMATICAL BOLD SCRIPT SMALL E", 120046>>,
    <<"MATHEMATICAL BOLD SCRIPT SMALL F", 120047>>, <<"MATHEMATICAL BOLD SCRIPT SMALL G", 120048>>,
    <<"MATHEMATICAL BOLD SCRIPT SMALL H", 120049>>, <<"MATHEMATICAL BOLD SCRIPT SMALL I", 120050>>,
    <<"MATHEMATICAL BOLD SCRIPT SMALL J", 120051>>, <<"MATHEMATICAL BOLD SCRIPT SMALL K", 120052>>,
    <<"MATHEMATICAL BOLD SCRIPT SMALL L", 120053>>, <<"MATHEMATICAL BOLD SCRIPT SMALL M", 120054>>,
    <<"MATHEMATICAL BOLD SCRIPT SMALL N", 120055>>, <<"MATHEMATICAL BOLD SCRIPT SMALL O", 120056>>,
    <<"MATHEMATICAL BOLD SCRIPT SMALL P", 120057>>, <<"MATHEMATICAL BOLD SCRIPT SMALL Q", 120058>>,
    <<"MATHEMATICAL BOLD SCRIPT SMALL R", 120059>>, <<"MATHEMATICAL BOLD SCRIPT SMALL S", 120060>>,
    <<"MATHEMATICAL BOLD SCRIPT SMALL T", 120061>>, <<"MATHEMATICAL BOLD SCRIPT SMALL U", 120062>>,
    <<"MATHEMATICAL BOLD SCRIPT SMALL V", 120063>>, <<"MATHEMATICAL BOLD SCRIPT SMALL W", 120064>>,
    <<"MATHEMATICAL BOLD SCRIPT SMALL X", 120065>>, <<"MATHEMATICAL BOLD SCRIPT SMALL Y", 120066>>,
    <<"MATHEMATICAL BOLD SCRIPT SMALL Z", 120067>>, <<"MATHEMATICAL FRAKTUR CAPITAL A", 120068>>,
    <<"MATHEMATICAL FRAKTUR CAPITAL B", 120069>>, <<"MATHEMATICAL FRAKTUR CAPITAL D", 120071>>,
    <<"MATHEMATICAL FRAKTUR CAPITAL E", 120072>>, <<"MATHEMATICAL FRAKTUR CAPITAL F", 120073>>,
    <<"MATHEMATICAL FRAKTUR CAPITAL G", 120074>>, <<"MATHEMATICAL FRAKTUR CAPITAL J", 120077>>,
    <<"MATHEMATICAL FRAKTUR CAPITAL K", 120078>>, <<"MATHEMATICAL FRAKTUR CAPITAL L", 120079>>,
    <<"MATHEMATICAL FRAKTUR CAPITAL M", 120080>>, <<"MATHEMATICAL FRAKTUR CAPITAL N", 120081>>,
    <<"MATHEMATICAL FRAKTUR CAPITAL O", 120082>>, <<"MATHEMATICAL FRAKTUR CAPITAL P", 120083>>,
    <<"MATHEMATICAL FRAKTUR CAPITAL Q", 120084>>, <<"MATHEMATICAL FRAKTUR CAPITAL S", 120086>>,
    <<"MATHEMATICAL FRAKTUR CAPITAL T", 120087>>, <<"MATHEMATICAL FRAKTUR CAPITAL U", 120088>>,
    <<"MATHEMATICAL FRAKTUR CAPITAL V", 120089>>, <<"MATHEMATICAL FRAKTUR CAPITAL W", 120090>>,
    <<"MATHEMATICAL FRAKTUR CAPITAL X", 120091>>, <<"MATHEMATICAL FRAKTUR CAPITAL Y", 120092>>,
    <<"MATHEMATICAL FRAKTUR SMALL A", 120094>>, <<"MATHEMATICAL FRAKTUR SMALL B", 120095>>,
    <<"MATHEMATICAL FRAKTUR SMALL C", 120096>>, <<"MATHEMATICAL FRAKTUR SMALL D", 120097>>,
    <<"MATHEMATICAL FRAKTUR SMALL E", 120098>>, <<"MATHEMATICAL FRAKTUR SMALL F", 120099>>,
    <<"MATHEMATICAL FRAKTUR SMALL G", 120100>>, <<"MATHEMATICAL FRAKTUR SMALL H", 120101>>,
    <<"MATHEMATICAL FRAKTUR SMALL I", 120102>>, <<"MATHEMATICAL FRAKTUR SMALL J", 120103>>,
    <<"MATHEMATICAL FRAKTUR SMALL K", 120104>>, <<"MATHEMATICAL FRAKTUR SMALL L", 120105>>,
    <<"MATHEMATICAL FRAKTUR SMALL M", 120106>>, <<"MATHEMATICAL FRAKTUR SMALL N", 120107>>,
    <<"MATHEMATICAL FRAKTUR SMALL O", 120108>>, <<"MATHEMATICAL FRAKTUR SMALL P", 120109>>,
    <<"MATHEMATICAL FRAKTUR SMALL Q", 120110>>, <<"MATHEMATICAL FRAKTUR SMALL R", 120111>>,
    <<"MATHEMATICAL FRAKTUR SMALL S", 120112>>, <<"MATHEMATICAL FRAKTUR SMALL T", 120113>>,
    <<"MATHEMATICAL FRAKTUR SMALL U", 120114>>, <<"MATHEMATICAL FRAKTUR SMALL V", 120115>>,
    <<"MATHEMATICAL FRAKTUR SMALL W", 120116>>, <<"MATHEMATICAL FRAKTUR SMALL X", 120117>>,
    <<"MATHEMATICAL FRAKTUR SMALL Y", 120118>>, <<"MATHEMATICAL FRAKTUR SMALL Z", 120119>>,
    <<"MATHEMATICAL DOUBLE-STRUCK CAPITAL A", 120120>>,
    <<"MATHEMATICAL DOUBLE-STRUCK CAPITAL B", 120121>>,
    <<"MATHEMATICAL DOUBLE-STRUCK CAPITAL D", 120123>>,
    <<"MATHEMATICAL DOUBLE-STRUCK CAPITAL E", 120124>>,
    <<"MATHEMATICAL DOUBLE-STRUCK CAPITAL F", 120125>>,
    <<"MATHEMATICAL DOUBLE-STRUCK CAPITAL G", 120126>>,
    <<"MATHEMATICAL DOUBLE-STRUCK CAPITAL I", 120128>>,
    <<"MATHEMATICAL DOUBLE-STRUCK CAPITAL J", 120129>>,
    <<"MATHEMATICAL DOUBLE-STRUCK CAPITAL K", 120130>>,
    <<"MATHEMATICAL DOUBLE-STRUCK CAPITAL L", 120131>>,
    <<"MATHEMATICAL DOUBLE-STRUCK CAPITAL M", 120132>>,
    <<"MATHEMATICAL DOUBLE-STRUCK CAPITAL O", 120134>>,
    <<"MATHEMATICAL DOUBLE-STRUCK CAPITAL S", 120138>>,
    <<"MATHEMATICAL DOUBLE-STRUCK CAPITAL T", 120139>>,
    <<"MATHEMATICAL DOUBLE-STRUCK CAPITAL U", 120140>>,
    <<"MATHEMATICAL DOUBLE-STRUCK CAPITAL V", 120141>>,
    <<"MATHEMATICAL DOUBLE-STRUCK CAPITAL W", 120142>>,
    <<"MATHEMATICAL DOUBLE-STRUCK CAPITAL X", 120143>>,
    <<"MATHEMATICAL DOUBLE-STRUCK CAPITAL Y", 120144>>,
    <<"MATHEMATICAL DOUBLE-STRUCK SMALL A", 120146>>, <<"MATHEMATICAL DOUBLE-STRUCK SMALL B", 120147>>,
    <<"MATHEMATICAL DOUBLE-STRUCK SMALL C", 120148>>, <<"MATHEMATICAL DOUBLE-STRUCK SMALL D", 120149>>,
    <<"MATHEMATICAL DOUBLE-STRUCK SMALL E", 120150>>, <<"MATHEMATICAL DOUBLE-STRUCK SMALL F", 120151>>,
    <<"MATHEMATICAL DOUBLE-STRUCK SMALL G", 120152>>, <<"MATHEMATICAL DOUBLE-STRUCK SMALL H", 120153>>,
    <<"MATHEMATICAL DOUBLE-STRUCK SMALL I", 120154>>, <<"MATHEMATICAL DOUBLE-STRUCK SMALL J", 120155>>,
    <<"MATHEMATICAL DOUBLE-STRUCK SMALL K", 120156>>, <<"MATHEMATICAL DOUBLE-STRUCK SMALL L", 120157>>,
    <<"MATHEMATICAL DOUBLE-STRUCK SMALL M", 120158>>, <<"MATHEMATICAL DOUBLE-STRUCK SMALL N", 120159>>,
    <<"MATHEMATICAL DOUBLE-STRUCK SMALL O", 120160>>, <<"MATHEMATICAL DOUBLE-STRUCK SMALL P", 120161>>,
    <<"MATHEMATICAL DOUBLE-STRUCK SMALL Q", 120162>>, <<"MATHEMATICAL DOUBLE-STRUCK SMALL R", 120163>>,
    <<"MATHEMATICAL DOUBLE-STRUCK SMALL S", 120164>>, <<"MATHEMATICAL DOUBLE-STRUCK SMALL T", 120165>>,
    <<"MATHEMATICAL DOUBLE-STRUCK SMALL U", 120166>>, <<"MATHEMATICAL DOUBLE-STRUCK SMALL V", 120167>>,
    <<"MATHEMATICAL DOUBLE-STRUCK SMALL W", 120168>>, <<"MATHEMATICAL DOUBLE-STRUCK SMALL X", 120169>>,
    <<"MATHEMATICAL DOUBLE-STRUCK SMALL Y", 120170>>, <<"MATHEMATICAL DOUBLE-STRUCK SMALL Z", 120171>>,
    <<"MATHEMATICAL BOLD FRAKTUR CAPITAL A", 120172>>,
    <<"MATHEMATICAL BOLD FRAKTUR CAPITAL B", 120173>>,
    <<"MATHEMATICAL BOLD FRAKTUR CAPITAL C", 120174>>,
    <<"MATHEMATICAL BOLD FRAKTUR CAPITAL D", 120175>>,
    <<"MATHEMATICAL BOLD FRAKTUR CAPITAL E", 120176>>,
    <<"MATHEMATICAL BOLD FRAKTUR CAPITAL F", 120177>>,
    <<"MATHEMATICAL BOLD FRAKTUR CAPITAL G", 120178>>,
    <<"MATHEMATICAL BOLD FRAKTUR CAPITAL H", 120179>>,
    <<"MATHEMATICAL BOLD FRAKTUR CAPITAL I", 120180>>,
    <<"MATHEMATICAL BOLD FRAKTUR CAPITAL J", 120181>>,
    <<"MATHEMATICAL BOLD FRAKTUR CAPITAL K", 120182>>,
    <<"MATHEMATICAL BOLD FRAKTUR CAPITAL L", 120183>>,
    <<"MATHEMATICAL BOLD FRAKTUR CAPITAL M", 120184>>,
    <<"MATHEMATICAL BOLD FRAKTUR CAPITAL N", 120185>>,
    <<"MATHEMATICAL BOLD FRAKTUR CAPITAL O", 120186>>,
    <<"MATHEMATICAL BOLD FRAKTUR CAPITAL P", 120187>>,
    <<"MATHEMATICAL BOLD FRAKTUR CAPITAL Q", 120188>>,
    <<"MATHEMATICAL BOLD FRAKTUR CAPITAL R", 120189>>,
    <<"MATHEMATICAL BOLD FRAKTUR CAPITAL S", 120190>>,
    <<"MATHEMATICAL BOLD FRAKTUR CAPITAL T", 120191>>,
    <<"MATHEMATICAL BOLD FRAKTUR CAPITAL U", 120192>>,
    <<"MATHEMATICAL BOLD FRAKTUR CAPITAL V", 120193>>,
    <<"MATHEMATICAL BOLD FRAKTUR CAPITAL W", 120194>>,
    <<"MATHEMATICAL BOLD FRAKTUR CAPITAL X", 120195>>,
    <<"MATHEMATICAL BOLD FRAKTUR CAPITAL Y", 120196>>,
    <<"MATHEMATICAL BOLD FRAKTUR CAPITAL Z", 120197>>, <<"MATHEMATICAL BOLD FRAKTUR SMALL A", 120198>>,
    <<"MATHEMATICAL BOLD FRAKTUR SMALL B", 120199>>, <<"MATHEMATICAL BOLD FRAKTUR SMALL C", 120200>>,
    <<"MATHEMATICAL BOLD FRAKTUR SMALL D", 120201>>, <<"MATHEMATICAL BOLD FRAKTUR SMALL E", 120202>>,
    <<"MATHEMATICAL BOLD FRAKTUR SMALL F", 120203>>, <<"MATHEMATICAL BOLD FRAKTUR SMALL G", 120204>>,
    <<"MATHEMATICAL BOLD FRAKTUR SMALL H", 120205>>, <<"MATHEMATICAL BOLD FRAKTUR SMALL I", 120206>>,
    <<"MATHEMATICAL BOLD FRAKTUR SMALL J", 120207>>, <<"MATHEMATICAL BOLD FRAKTUR SMALL K", 120208>>,
    <<"MATHEMATICAL BOLD FRAKTUR SMALL L", 120209>>, <<"MATHEMATICAL BOLD FRAKTUR SMALL M", 120210>>,
    <<"MATHEMATICAL BOLD FRAKTUR SMALL N", 120211>>, <<"MATHEMATICAL BOLD FRAKTUR SMALL O", 120212>>,
    <<"MATHEMATICAL BOLD FRAKTUR SMALL P", 120213>>, <<"MATHEMATICAL BOLD FRAKTUR SMALL Q", 120214>>,
    <<"MATHEMATICAL BOLD FRAKTUR SMALL R", 120215>>, <<"MATHEMATICAL BOLD FRAKTUR SMALL S", 120216>>,
    <<"MATHEMATICAL BOLD FRAKTUR SMALL T", 120217>>, <<"MATHEMATICAL BOLD FRAKTUR SMALL U", 120218>>,
    <<"MATHEMATICAL BOLD FRAKTUR SMALL V", 120219>>, <<"MATHEMATICAL BOLD FRAKTUR SMALL W", 120220>>,
    <<"MATHEMATICAL BOLD FRAKTUR SMALL X", 120221>>, <<"MATHEMATICAL BOLD FRAKTUR SMALL Y", 120222>>,
    <<"MATHEMATICAL BOLD FRAKTUR SMALL Z", 120223>>, <<"MATHEMATICAL SANS-SERIF CAPITAL A", 120224>>,
    <<"MATHEMATICAL SANS-SERIF CAPITAL B", 120225>>, <<"MATHEMATICAL SANS-SERIF CAPITAL C", 120226>>,
    <<"MATHEMATICAL SANS-SERIF CAPITAL D", 120227>>, <<"MATHEMATICAL SANS-SERIF CAPITAL E", 120228>>,
    <<"MATHEMATICAL SANS-SERIF CAPITAL F", 120229>>, <<"MATHEMATICAL SANS-SERIF CAPITAL G", 120230>>,
    <<"MATHEMATICAL SANS-SERIF CAPITAL H", 120231>>, <<"MATHEMATICAL SANS-SERIF CAPITAL I", 120232>>,
    <<"MATHEMATICAL SANS-SERIF CAPITAL J", 120233>>, <<"MATHEMATICAL SANS-SERIF CAPITAL K", 120234>>,
    <<"MATHEMATICAL SANS-SERIF CAPITAL L", 120235>>, <<"MATHEMATICAL SANS-SERIF CAPITAL M", 120236>>,
    <<"MATHEMATICAL SANS-SERIF CAPITAL N", 120237>>, <<"MATHEMATICAL SANS-SERIF CAPITAL O", 120238>>,
    <<"MATHEMATICAL SANS-SERIF CAPITAL P", 120239>>, <<"MATHEMATICAL SANS-SERIF CAPITAL Q", 120240>>,
    <<"MATHEMATICAL SANS-SERIF CAPITAL R", 120241>>, <<"MATHEMATICAL SANS-SERIF CAPITAL S", 120242>>,
    <<"MATHEMATICAL SANS-SERIF CAPITAL T", 120243>>, <<"MATHEMATICAL SANS-SERIF CAPITAL U", 120244>>,
    <<"MATHEMATICAL SANS-SERIF CAPITAL V", 120245>>, <<"MATHEMATICAL SANS-SERIF CAPITAL W", 120246>>,
    <<"MATHEMATICAL SANS-SERIF CAPITAL X", 120247>>, <<"MATHEMATICAL SANS-SERIF CAPITAL Y", 120248>>,
    <<"MATHEMATICAL SANS-SERIF CAPITAL Z", 120249>>, <<"MATHEMATICAL SANS-SERIF SMALL A", 120250>>,
    <<"MATHEMATICAL SANS-SERIF SMALL B", 120251>>, <<"MATHEMATICAL SANS-SERIF SMALL C", 120252>>,
    <<"MATHEMATICAL SANS-SERIF SMALL D", 120253>>, <<"MATHEMATICAL SANS-SERIF SMALL E", 120254>>,
    <<"MATHEMATICAL SANS-SERIF SMALL F", 120255>>, <<"MATHEMATICAL SANS-SERIF SMALL G", 120256>>,
    <<"MATHEMATICAL SANS-SERIF SMALL H", 120257>>, <<"MATHEMATICAL SANS-SERIF SMALL I", 120258>>,
    <<"MATHEMATICAL SANS-SERIF SMALL J", 120259>>, <<"MATHEMATICAL SANS-SERIF SMALL K", 120260>>,
    <<"MATHEMATICAL SANS-SERIF SMALL L", 120261>>, <<"MATHEMATICAL SANS-SERIF SMALL M", 120262>>,
    <<"MATHEMATICAL SANS-SERIF SMALL N", 120263>>, <<"MATHEMATICAL SANS-SERIF SMALL O", 120264>>,
    <<"MATHEMATICAL SANS-SERIF SMALL P", 120265>>, <<"MATHEMATICAL SANS-SERIF SMALL Q", 120266>>,
    <<"MATHEMATICAL SANS-SERIF SMALL R", 120267>>, <<"MATHEMATICAL SANS-SERIF SMALL S", 120268>>,
    <<"MATHEMATICAL SANS-SERIF SMALL T", 120269>>, <<"MATHEMATICAL SANS-SERIF SMALL U", 120270>>,
    <<"MATHEMATICAL SANS-SERIF SMALL V", 120271>>, <<"MATHEMATICAL SANS-SERIF SMALL W", 120272>>,
    <<"MATHEMATICAL SANS-SERIF SMALL X", 120273>>, <<"MATHEMATICAL SANS-SERIF SMALL Y", 120274>>,
    <<"MATHEMATICAL SANS-SERIF SMALL Z", 120275>>,
    <<"MATHEMATICAL SANS-SERIF BOLD CAPITAL A", 120276>>,
    <<"MATHEMATICAL SANS-SERIF BOLD CAPITAL B", 120277>>,
    <<"MATHEMATICAL SANS-SERIF BOLD CAPITAL C", 120278>>,
    <<"MATHEMATICAL SANS-SERIF BOLD CAPITAL D", 120279>>,
    <<"MATHEMATICAL SANS-SERIF BOLD CAPITAL E", 120280>>,
    <<"MATHEMATICAL SANS-SERIF BOLD CAPITAL F", 120281>>,
    <<"MATHEMATICAL SANS-SERIF BOLD CAPITAL G", 120282>>,
    <<"MATHEMATICAL SANS-SERIF BOLD CAPITAL H", 120283>>,
    <<"MATHEMATICAL SANS-SERIF BOLD CAPITAL I", 120284>>,
    <<"MATHEMATICAL SANS-SERIF BOLD CAPITAL J", 120285>>,
    <<"MATHEMATICAL SANS-SERIF BOLD CAPITAL K", 120286>>,
    <<"MATHEMATICAL SANS-SERIF BOLD CAPITAL L", 120287>>,
    <<"MATHEMATICAL SANS-SERIF BOLD CAPITAL M", 120288>>,
    <<"MATHEMATICAL SANS-SERIF BOLD CAPITAL N", 120289>>,
    <<"MATHEMATICAL SANS-SERIF BOLD CAPITAL O", 120290>>,
    <<"MATHEMATICAL SANS-SERIF BOLD CAPITAL P", 120291>>,
    <<"MATHEMATICAL SANS-SERIF BOLD CAPITAL Q", 120292>>,
    <<"MATHEMATICAL SANS-SERIF BOLD CAPITAL R", 120293>>,
    <<"MATHEMATICAL SANS-SERIF BOLD CAPITAL S", 120294>>,
    <<"MATHEMATICAL SANS-SERIF BOLD CAPITAL T", 120295>>,
    <<"MATHEMATICAL SANS-SERIF BOLD CAPITAL U", 120296>>,
    <<"MATHEMATICAL SANS-SERIF BOLD CAPITAL V", 120297>>,
    <<"MATHEMATICAL SANS-SERIF BOLD CAPITAL W", 120298>>,
    <<"MATHEMATICAL SANS-SERIF BOLD CAPITAL X", 120299>>,
    <<"MATHEMATICAL SANS-SERIF BOLD CAPITAL Y", 120300>>,
    <<"MATHEMATICAL SANS-SERIF BOLD CAPITAL Z", 120301>>,
    <<"MATHEMATICAL SANS-SERIF BOLD SMALL A", 120302>>,
    <<"MATHEMATICAL SANS-SERIF BOLD SMALL B", 120303>>,
    <<"MATHEMATICAL SANS-SERIF BOLD SMALL C", 120304>>,
    <<"MATHEMATICAL SANS-SERIF BOLD SMALL D", 120305>>,
    <<"MATHEMATICAL SANS-SERIF BOLD SMALL E", 120306>>,
    <<"MATHEMATICAL SANS-SERIF BOLD SMALL F", 120307>>,
    <<"MATHEMATICAL SANS-SERIF BOLD SMALL G", 120308>>,
    <<"MATHEMATICAL SANS-SERIF BOLD SMALL H", 120309>>,
    <<"MATHEMATICAL SANS-SERIF BOLD SMALL I", 120310>>,
    <<"MATHEMATICAL SANS-SERIF BOLD SMALL J", 120311>>,
    <<"MATHEMATICAL SANS-SERIF BOLD SMALL K", 120312>>,
    <<"MATHEMATICAL SANS-SERIF BOLD SMALL L", 120313>>,
    <<"MATHEMATICAL SANS-SERIF BOLD SMALL M", 120314>>,
    <<"MATHEMATICAL SANS-SERIF BOLD SMALL N", 120315>>,
    <<"MATHEMATICAL SANS-SERIF BOLD SMALL O", 120316>>,
    <<"MATHEMATICAL SANS-SERIF BOLD SMALL P", 120317>>,
    <<"MATHEMATICAL SANS-SERIF BOLD SMALL Q", 120318>>,
    <<"MATHEMATICAL SANS-SERIF BOLD SMALL R", 120319>>,
    <<"MATHEMATICAL SANS-SERIF BOLD SMALL S", 120320>>,
    <<"MATHEMATICAL SANS-SERIF BOLD SMALL T", 120321>>,
    <<"MATHEMATICAL SANS-SERIF BOLD SMALL U", 120322>>,
    <<"MATHEMATICAL SANS-SERIF BOLD SMALL V", 120323>>,
    <<"MATHEMATICAL SANS-SERIF BOLD SMALL W", 120324>>,
    <<"MATHEMATICAL SANS-SERIF BOLD SMALL X", 120325>>,
    <<"MATHEMATICAL SANS-SERIF BOLD SMALL Y", 120326>>,
    <<"MATHEMATICAL SANS-SERIF BOLD SMALL Z", 120327>>,
    <<"MATHEMATICAL SANS-SERIF ITALIC CAPITAL A", 120328>>,
    <<"MATHEMATICAL SANS-SERIF ITALIC CAPITAL B", 120329>>,
    <<"MATHEMATICAL SANS-SERIF ITALIC CAPITAL C", 120330>>,
    <<"MATHEMATICAL SANS-SERIF ITALIC CAPITAL D", 120331>>,
    <<"MATHEMATICAL SANS-SERIF ITALIC CAPITAL E", 120332>>,
    <<"MATHEMATICAL SANS-SERIF ITALIC CAPITAL F", 120333>>,
    <<"MATHEMATICAL SANS-SERIF ITALIC CAPITAL G", 120334>>,
    <<"MATHEMATICAL SANS-SERIF ITALIC CAPITAL H", 120335>>,
    <<"MATHEMATICAL SANS-SERIF ITALIC CAPITAL I", 120336>>,
    <<"MATHEMATICAL SANS-SERIF ITALIC CAPITAL J", 120337>>,
    <<"MATHEMATICAL SANS-SERIF ITALIC CAPITAL K", 120338>>,
    <<"MATHEMATICAL SANS-SERIF ITALIC CAPITAL L", 120339>>,
    <<"MATHEMATICAL SANS-SERIF ITALIC CAPITAL M", 120340>>,
    <<"MATHEMATICAL SANS-SERIF ITALIC CAPITAL N", 120341>>,
    <<"MATHEMATICAL SANS-SERIF ITALIC CAPITAL O", 120342>>,
    <<"MATHEMATICAL SANS-SERIF ITALIC CAPITAL P", 120343>>,
    <<"MATHEMATICAL SANS-SERIF ITALIC CAPITAL Q", 120344>>,
    <<"MATHEMATICAL SANS-SERIF ITALIC CAPITAL R", 120345>>,
    <<"MATHEMATICAL SANS-SERIF ITALIC CAPITAL S", 120346>>,
    <<"MATHEMATICAL SANS-SERIF ITALIC CAPITAL T", 120347>>,
    <<"MATHEMATICAL SANS-SERIF ITALIC CAPITAL U", 120348>>,
    <<"MATHEMATICAL SANS-SERIF ITALIC CAPITAL V", 120349>>,
    <<"MATHEMATICAL SANS-SERIF ITALIC CAPITAL W", 120350>>,
    <<"MATHEMATICAL SANS-SERIF ITALIC CAPITAL X", 120351>>,
    <<"MATHEMATICAL SANS-SERIF ITALIC CAPITAL Y", 120352>>,
    <<"MATHEMATICAL SANS-SERIF ITALIC CAPITAL Z", 120353>>,
    <<"MATHEMATICAL SANS-SERIF ITALIC SMALL A", 120354>>,
    <<"MATHEMATICAL SANS-SERIF ITALIC SMALL B", 120355>>,
    <<"MATHEMATICAL SANS-SERIF ITALIC SMALL C", 120356>>,
    <<"MATHEMATICAL SANS-SERIF ITALIC SMALL D", 120357>>,
    <<"MATHEMATICAL SANS-SERIF ITALIC SMALL E", 120358>>,
    <<"MATHEMATICAL SANS-SERIF ITALIC SMALL F", 120359>>,
    <<"MATHEMATICAL SANS-SERIF ITALIC SMALL G", 120360>>,
    <<"MATHEMATICAL SANS-SERIF ITALIC SMALL H", 120361>>,
    <<"MATHEMATICAL SANS-SERIF ITALIC SMALL I", 120362>>,
    <<"MATHEMATICAL SANS-SERIF ITALIC SMALL J", 120363>>,
    <<"MATHEMATICAL SANS-SERIF ITALIC SMALL K", 120364>>,
    <<"MATHEMATICAL SANS-SERIF ITALIC SMALL L", 120365>>,
    <<"MATHEMATICAL SANS-SERIF ITALIC SMALL M", 120366>>,
    <<"MATHEMATICAL SANS-SERIF ITALIC SMALL N", 120367>>,
    <<"MATHEMATICAL SANS-SERIF ITALIC SMALL O", 120368>>,
    <<"MATHEMATICAL SANS-SERIF ITALIC SMALL P", 120369>>,
    <<"MATHEMATICAL SANS-SERIF ITALIC SMALL Q", 120370>>,
    <<"MATHEMATICAL SANS-SERIF ITALIC SMALL R", 120371>>,
    <<"MATHEMATICAL SANS-SERIF ITALIC SMALL S", 120372>>,
    <<"MATHEMATICAL SANS-SERIF ITALIC SMALL T", 120373>>,
    <<"MATHEMATICAL SANS-SERIF ITALIC SMALL U", 120374>>,
    <<"MATHEMATICAL SANS-SERIF ITALIC SMALL V", 120375>>,
    <<"MATHEMATICAL SANS-SERIF ITALIC SMALL W", 120376>>,
    <<"MATHEMATICAL SANS-SERIF ITALIC SMALL X", 120377>>,
    <<"MATHEMATICAL SANS-SERIF ITALIC SMALL Y", 120378>>,
    <<"MATHEMATICAL SANS-SERIF ITALIC SMALL Z", 120379>>,
    <<"MATHEMATICAL SANS-SERIF BOLD ITALIC CAPITAL A", 120380>>,
    <<"MATHEMATICAL SANS-SERIF BOLD ITALIC CAPITAL B", 120381>>,
    <<"MATHEMATICAL SANS-SERIF BOLD ITALIC CAPITAL C", 120382>>,
    <<"MATHEMATICAL SANS-SERIF BOLD ITALIC CAPITAL D", 120383>>,
    <<"MATHEMATICAL SANS-SERIF BOLD ITALIC CAPITAL E", 120384>>,
    <<"MATHEMATICAL SANS-SERIF BOLD ITALIC CAPITAL F", 120385>>,
    <<"MATHEMATICAL SANS-SERIF BOLD ITALIC CAPITAL G", 120386>>,
    <<"MATHEMATICAL SANS-SERIF BOLD ITALIC CAPITAL H", 120387>>,
    <<"MATHEMATICAL SANS-SERIF BOLD ITALIC CAPITAL I", 120388>>,
    <<"MATHEMATICAL SANS-SERIF BOLD ITALIC CAPITAL J", 120389>>,
    <<"MATHEMATICAL SANS-SERIF BOLD ITALIC CAPITAL K", 120390>>,
    <<"MATHEMATICAL SANS-SERIF BOLD ITALIC CAPITAL L", 120391>>,
    <<"MATHEMATICAL SANS-SERIF BOLD ITALIC CAPITAL M", 120392>>,
    <<"MATHEMATICAL SANS-SERIF BOLD ITALIC CAPITAL N", 120393>>,
    <<"MATHEMATICAL SANS-SERIF BOLD ITALIC CAPITAL O", 120394>>,
    <<"MATHEMATICAL SANS-SERIF BOLD ITALIC CAPITAL P", 120395>>,
    <<"MATHEMATICAL SANS-SERIF BOLD ITALIC CAPITAL Q", 120396>>,
    <<"MATHEMATICAL SANS-SERIF BOLD ITALIC CAPITAL R", 120397>>,
    <<"MATHEMATICAL SANS-SERIF BOLD ITALIC CAPITAL S", 120398>>,
    <<"MATHEMATICAL SANS-SERIF BOLD ITALIC CAPITAL T", 120399>>,
    <<"MATHEMATICAL SANS-SERIF BOLD ITALIC CAPITAL U", 120400>>,
    <<"MATHEMATICAL SANS-SERIF BOLD ITALIC CAPITAL V", 120401>>,
    <<"MATHEMATICAL SANS-SERIF BOLD ITALIC CAPITAL W", 120402>>,
    <<"MATHEMATICAL SANS-SERIF BOLD ITALIC CAPITAL X", 120403>>,
    <<"MATHEMATICAL SANS-SERIF BOLD ITALIC CAPITAL Y", 120404>>,
    <<"MATHEMATICAL SANS-SERIF BOLD ITALIC CAPITAL Z", 120405>>,
    <<"MATHEMATICAL SANS-SERIF BOLD ITALIC SMALL A", 120406>>,
    <<"MATHEMATICAL SANS-SERIF BOLD ITALIC SMALL B", 120407>>,
    <<"MATHEMATICAL SANS-SERIF BOLD ITALIC SMALL C", 120408>>,
    <<"MATHEMATICAL SANS-SERIF BOLD ITALIC SMALL D", 120409>>,
    <<"MATHEMATICAL SANS-SERIF BOLD ITALIC SMALL E", 120410>>,
    <<"MATHEMATICAL SANS-SERIF BOLD ITALIC SMALL F", 120411>>,
    <<"MATHEMATICAL SANS-SERIF BOLD ITALIC SMALL G", 120412>>,
    <<"MATHEMATICAL SANS-SERIF BOLD ITALIC SMALL H", 120413>>,
    <<"MATHEMATICAL SANS-SERIF BOLD ITALIC SMALL I", 120414>>,
    <<"MATHEMATICAL SANS-SERIF BOLD ITALIC SMALL J", 120415>>,
    <<"MATHEMATICAL SANS-SERIF BOLD ITALIC SMALL K", 120416>>,
    <<"MATHEMATICAL SANS-SERIF BOLD ITALIC SMALL L", 120417>>,
    <<"MATHEMATICAL SANS-SERIF BOLD ITALIC SMALL M", 120418>>,
    <<"MATHEMATICAL SANS-SERIF BOLD ITALIC SMALL N", 120419>>,
    <<"MATHEMATICAL SANS-SERIF BOLD ITALIC SMALL O", 120420>>,
    <<"MATHEMATICAL SANS-SERIF BOLD ITALIC SMALL P", 120421>>,
    <<"MATHEMATICAL SANS-SERIF BOLD ITALIC SMALL Q", 120422>>,
    <<"MATHEMATICAL SANS-SERIF BOLD ITALIC SMALL R", 120423>>,
    <<"MATHEMATICAL SANS-SERIF BOLD ITALIC SMALL S", 120424>>,
    <<"MATHEMATICAL SANS-SERIF BOLD ITALIC SMALL T", 120425>>,
    <<"MATHEMATICAL SANS-SERIF BOLD ITALIC SMALL U", 120426>>,
    <<"MATHEMATICAL SANS-SERIF BOLD ITALIC SMALL V", 120427>>,
    <<"MATHEMATICAL SANS-SERIF BOLD ITALIC SMALL W", 120428>>,
    <<"MATHEMATICAL SANS-SERIF BOLD ITALIC SMALL X", 120429>>,
    <<"MATHEMATICAL SANS-SERIF BOLD ITALIC SMALL Y", 120430>>,
    <<"MATHEMATICAL SANS-SERIF BOLD ITALIC SMALL Z", 120431>>,
    <<"MATHEMATICAL MONOSPACE CAPITAL A", 120432>>, <<"MATHEMATICAL MONOSPACE CAPITAL B", 120433>>,
    <<"MATHEMATICAL MONOSPACE CAPITAL C", 120434>>, <<"MATHEMATICAL MONOSPACE CAPITAL D", 120435>>,
    <<"MATHEMATICAL MONOSPACE CAPITAL E", 120436>>, <<"MATHEMATICAL MONOSPACE CAPITAL F", 120437>>,
    <<"MATHEMATICAL MONOSPACE CAPITAL G", 120438>>, <<"MATHEMATICAL MONOSPACE CAPITAL H", 120439>>,
    <<"MATHEMATICAL MONOSPACE CAPITAL I", 120440>>, <<"MATHEMATICAL MONOSPACE CAPITAL J", 120441>>,
    <<"MATHEMATICAL MONOSPACE CAPITAL K", 120442>>, <<"MATHEMATICAL MONOSPACE CAPITAL L", 120443>>,
    <<"MATHEMATICAL MONOSPACE CAPITAL M", 120444>>, <<"MATHEMATICAL MONOSPACE CAPITAL N", 120445>>,
    <<"MATHEMATICAL MONOSPACE CAPITAL O", 120446>>, <<"MATHEMATICAL MONOSPACE CAPITAL P", 120447>>,
    <<"MATHEMATICAL MONOSPACE CAPITAL Q", 120448>>, <<"MATHEMATICAL MONOSPACE CAPITAL R", 120449>>,
    <<"MATHEMATICAL MONOSPACE CAPITAL S", 120450>>, <<"MATHEMATICAL MONOSPACE CAPITAL T", 120451>>,
    <<"MATHEMATICAL MONOSPACE CAPITAL U", 120452>>, <<"MATHEMATICAL MONOSPACE CAPITAL V", 120453>>,
    <<"MATHEMATICAL MONOSPACE CAPITAL W", 120454>>, <<"MATHEMATICAL MONOSPACE CAPITAL X", 120455>>,
    <<"MATHEMATICAL MONOSPACE CAPITAL Y", 120456>>, <<"MATHEMATICAL MONOSPACE CAPITAL Z", 120457>>,
    <<"MATHEMATICAL MONOSPACE SMALL A", 120458>>, <<"MATHEMATICAL MONOSPACE SMALL B", 120459>>,
    <<"MATHEMATICAL MONOSPACE SMALL C", 120460>>, <<"MATHEMATICAL MONOSPACE SMALL D", 120461>>,
    <<"MATHEMATICAL MONOSPACE SMALL E", 120462>>, <<"MATHEMATICAL MONOSPACE SMALL F", 120463>>,
    <<"MATHEMATICAL MONOSPACE SMALL G", 120464>>, <<"MATHEMATICAL MONOSPACE SMALL H", 120465>>,
    <<"MATHEMATICAL MONOSPACE SMALL I", 120466>>, <<"MATHEMATICAL MONOSPACE SMALL J", 120467>>,
    <<"MATHEMATICAL MONOSPACE SMALL K", 120468>>, <<"MATHEMATICAL MONOSPACE SMALL L", 120469>>,
    <<"MATHEMATICAL MONOSPACE SMALL M", 120470>>, <<"MATHEMATICAL MONOSPACE SMALL N", 120471>>,
    <<"MATHEMATICAL MONOSPACE SMALL O", 120472>>, <<"MATHEMATICAL MONOSPACE SMALL P", 120473>>,
    <<"MATHEMATICAL MONOSPACE SMALL Q", 120474>>, <<"MATHEMATICAL MONOSPACE SMALL R", 120475>>,
    <<"MATHEMATICAL MONOSPACE SMALL S", 120476>>, <<"MATHEMATICAL MONOSPACE SMALL T", 120477>>,
    <<"MATHEMATICAL MONOSPACE SMALL U", 120478>>, <<"MATHEMATICAL MONOSPACE SMALL V", 120479>>,
    <<"MATHEMATICAL MONOSPACE SMALL W", 120480>>, <<"MATHEMATICAL MONOSPACE SMALL X", 120481>>,
    <<"MATHEMATICAL MONOSPACE SMALL Y", 120482>>, <<"MATHEMATICAL MONOSPACE SMALL Z", 120483>>,
    <<"MATHEMATICAL ITALIC SMALL DOTLESS I", 120484>>,
    <<"MATHEMATICAL ITALIC SMALL DOTLESS J", 120485>>, <<"MATHEMATICAL BOLD CAPITAL ALPHA", 120488>>,
    <<"MATHEMATICAL BOLD CAPITAL BETA", 120489>>, <<"MATHEMATICAL BOLD CAPITAL GAMMA", 120490>>,
    <<"MATHEMATICAL BOLD CAPITAL DELTA", 120491>>, <<"MATHEMATICAL BOLD CAPITAL EPSILON", 120492>>,
    <<"MATHEMATICAL BOLD CAPITAL ZETA", 120493>>, <<"MATHEMATICAL BOLD CAPITAL ETA", 120494>>,
    <<"MATHEMATICAL BOLD CAPITAL THETA", 120495>>, <<"MATHEMATICAL BOLD CAPITAL IOTA", 120496>>,
    <<"MATHEMATICAL BOLD CAPITAL KAPPA", 120497>>, <<"MATHEMATICAL BOLD CAPITAL LAMDA", 120498>>,
    <<"MATHEMATICAL BOLD CAPITAL MU", 120499>>, <<"MATHEMATICAL BOLD CAPITAL NU", 120500>>,
    <<"MATHEMATICAL BOLD CAPITAL XI", 120501>>, <<"MATHEMATICAL BOLD CAPITAL OMICRON", 120502>>,
    <<"MATHEMATICAL BOLD CAPITAL PI", 120503>>, <<"MATHEMATICAL BOLD CAPITAL RHO", 120504>>,
    <<"MATHEMATICAL BOLD CAPITAL THETA SYMBOL", 120505>>,
    <<"MATHEMATICAL BOLD CAPITAL SIGMA", 120506>>, <<"MATHEMATICAL BOLD CAPITAL TAU", 120507>>,
    <<"MATHEMATICAL BOLD CAPITAL UPSILON", 120508>>, <<"MATHEMATICAL BOLD CAPITAL PHI", 120509>>,
    <<"MATHEMATICAL BOLD CAPITAL CHI", 120510>>, <<"MATHEMATICAL BOLD CAPITAL PSI", 120511>>,
    <<"MATHEMATICAL BOLD CAPITAL OMEGA", 120512>>, <<"MATHEMATICAL BOLD NABLA", 120513>>,
    <<"MATHEMATICAL BOLD SMALL ALPHA", 120514>>, <<"MATHEMATICAL BOLD SMALL BETA", 120515>>,
    <<"MATHEMATICAL BOLD SMALL GAMMA", 120516>>, <<"MATHEMATICAL BOLD SMALL DELTA", 120517>>,
    <<"MATHEMATICAL BOLD SMALL EPSILON", 120518>>, <<"MATHEMATICAL BOLD SMALL ZETA", 120519>>,
    <<"MATHEMATICAL BOLD SMALL ETA", 120520>>, <<"MATHEMATICAL BOLD SMALL THETA", 120521>>,
    <<"MATHEMATICAL BOLD SMALL IOTA", 120522>>, <<"MATHEMATICAL BOLD SMALL KAPPA", 120523>>,
    <<"MATHEMATICAL BOLD SMALL LAMDA", 120524>>, <<"MATHEMATICAL BOLD SMALL MU", 120525>>,
    <<"MATHEMATICAL BOLD SMALL NU", 120526>>, <<"MATHEMATICAL BOLD SMALL XI", 120527>>,
    <<"MATHEMATICAL BOLD SMALL OMICRON", 120528>>, <<"MATHEMATICAL BOLD SMALL PI", 120529>>,
    <<"MATHEMATICAL BOLD SMALL RHO", 120530>>, <<"MATHEMATICAL BOLD SMALL FINAL SIGMA", 120531>>,
    <<"MATHEMATICAL BOLD SMALL SIGMA", 120532>>, <<"MATHEMATICAL BOLD SMALL TAU", 120533>>,
    <<"MATHEMATICAL BOLD SMALL UPSILON", 120534>>, <<"MATHEMATICAL BOLD SMALL PHI", 120535>>,
    <<"MATHEMATICAL BOLD SMALL CHI", 120536>>, <<"MATHEMATICAL BOLD SMALL PSI", 120537>>,
    <<"MATHEMATICAL BOLD SMALL OMEGA", 120538>>, <<"MATHEMATICAL BOLD PARTIAL DIFFERENTIAL", 120539>>,
    <<"MATHEMATICAL BOLD EPSILON SYMBOL", 120540>>, <<"MATHEMATICAL BOLD THETA SYMBOL", 120541>>,
    <<"MATHEMATICAL BOLD KAPPA SYMBOL", 120542>>, <<"MATHEMATICAL BOLD PHI SYMBOL", 120543>>,
    <<"MATHEMATICAL BOLD RHO SYMBOL", 120544>>, <<"MATHEMATICAL BOLD PI SYMBOL", 120545>>,
    <<"MATHEMATICAL ITALIC CAPITAL ALPHA", 120546>>, <<"MATHEMATICAL ITALIC CAPITAL BETA", 120547>>,
    <<"MATHEMATICAL ITALIC CAPITAL GAMMA", 120548>>, <<"MATHEMATICAL ITALIC CAPITAL DELTA", 120549>>,
    <<"MATHEMATICAL ITALIC CAPITAL EPSILON", 120550>>, <<"MATHEMATICAL ITALIC CAPITAL ZETA", 120551>>,
    <<"MATHEMATICAL ITALIC CAPITAL ETA", 120552>>, <<"MATHEMATICAL ITALIC CAPITAL THETA", 120553>>,
    <<"MATHEMATICAL ITALIC CAPITAL IOTA", 120554>>, <<"MATHEMATICAL ITALIC CAPITAL KAPPA", 120555>>,
    <<"MATHEMATICAL ITALIC CAPITAL LAMDA", 120556>>, <<"MATHEMATICAL ITALIC CAPITAL MU", 120557>>,
    <<"MATHEMATICAL ITALIC CAPITAL NU", 120558>>, <<"MATHEMATICAL ITALIC CAPITAL XI", 120559>>,
    <<"MATHEMATICAL ITALIC CAPITAL OMICRON", 120560>>, <<"MATHEMATICAL ITALIC CAPITAL PI", 120561>>,
    <<"MATHEMATICAL ITALIC CAPITAL RHO", 120562>>,
    <<"MATHEMATICAL ITALIC CAPITAL THETA SYMBOL", 120563>>,
    <<"MATHEMATICAL ITALIC CAPITAL SIGMA", 120564>>, <<"MATHEMATICAL ITALIC CAPITAL TAU", 120565>>,
    <<"MATHEMATICAL ITALIC CAPITAL UPSILON", 120566>>, <<"MATHEMATICAL ITALIC CAPITAL PHI", 120567>>,
    <<"MATHEMATICAL ITALIC CAPITAL CHI", 120568>>, <<"MATHEMATICAL ITALIC CAPITAL PSI", 120569>>,
    <<"MATHEMATICAL ITALIC CAPITAL OMEGA", 120570>>, <<"MATHEMATICAL ITALIC NABLA", 120571>>,
    <<"MATHEMATICAL ITALIC SMALL ALPHA", 120572>>, <<"MATHEMATICAL ITALIC SMALL BETA", 120573>>,
    <<"MATHEMATICAL ITALIC SMALL GAMMA", 120574>>, <<"MATHEMATICAL ITALIC SMALL DELTA", 120575>>,
    <<"MATHEMATICAL ITALIC SMALL EPSILON", 120576>>, <<"MATHEMATICAL ITALIC SMALL ZETA", 120577>>,
    <<"MATHEMATICAL ITALIC SMALL ETA", 120578>>, <<"MATHEMATICAL ITALIC SMALL THETA", 120579>>,
    <<"MATHEMATICAL ITALIC SMALL IOTA", 120580>>, <<"MATHEMATICAL ITALIC SMALL KAPPA", 120581>>,
    <<"MATHEMATICAL ITALIC SMALL LAMDA", 120582>>, <<"MATHEMATICAL ITALIC SMALL MU", 120583>>,
    <<"MATHEMATICAL ITALIC SMALL NU", 120584>>, <<"MATHEMATICAL ITALIC SMALL XI", 120585>>,
    <<"MATHEMATICAL ITALIC SMALL OMICRON", 120586>>, <<"MATHEMATICAL ITALIC SMALL PI", 120587>>,
    <<"MATHEMATICAL ITALIC SMALL RHO", 120588>>, <<"MATHEMATICAL ITALIC SMALL FINAL SIGMA", 120589>>,
    <<"MATHEMATICAL ITALIC SMALL SIGMA", 120590>>, <<"MATHEMATICAL ITALIC SMALL TAU", 120591>>,
    <<"MATHEMATICAL ITALIC SMALL UPSILON", 120592>>, <<"MATHEMATICAL ITALIC SMALL PHI", 120593>>,
    <<"MATHEMATICAL ITALIC SMALL CHI", 120594>>, <<"MATHEMATICAL ITALIC SMALL PSI", 120595>>,
    <<"MATHEMATICAL ITALIC SMALL OMEGA", 120596>>,
    <<"MATHEMATICAL ITALIC PARTIAL DIFFERENTIAL", 120597>>,
    <<"MATHEMATICAL ITALIC EPSILON SYMBOL", 120598>>, <<"MATHEMATICAL ITALIC THETA SYMBOL", 120599>>,
    <<"MATHEMATICAL ITALIC KAPPA SYMBOL", 120600>>, <<"MATHEMATICAL ITALIC PHI SYMBOL", 120601>>,
    <<"MATHEMATICAL ITALIC RHO SYMBOL", 120602>>, <<"MATHEMATICAL ITALIC PI SYMBOL", 120603>>,
    <<"MATHEMATICAL BOLD ITALIC CAPITAL ALPHA", 120604>>,
    <<"MATHEMATICAL BOLD ITALIC CAPITAL BETA", 120605>>,
    <<"MATHEMATICAL BOLD ITALIC CAPITAL GAMMA", 120606>>,
    <<"MATHEMATICAL BOLD ITALIC CAPITAL DELTA", 120607>>,
    <<"MATHEMATICAL BOLD ITALIC CAPITAL EPSILON", 120608>>,
    <<"MATHEMATICAL BOLD ITALIC CAPITAL ZETA", 120609>>,
    <<"MATHEMATICAL BOLD ITALIC CAPITAL ETA", 120610>>,
    <<"MATHEMATICAL BOLD ITALIC CAPITAL THETA", 120611>>,
    <<"MATHEMATICAL BOLD ITALIC CAPITAL IOTA", 120612>>,
    <<"MATHEMATICAL BOLD ITALIC CAPITAL KAPPA", 120613>>,
    <<"MATHEMATICAL BOLD ITALIC CAPITAL LAMDA", 120614>>,
    <<"MATHEMATICAL BOLD ITALIC CAPITAL MU", 120615>>,
    <<"MATHEMATICAL BOLD ITALIC CAPITAL NU", 120616>>,
    <<"MATHEMATICAL BOLD ITALIC CAPITAL XI", 120617>>,
    <<"MATHEMATICAL BOLD ITALIC CAPITAL OMICRON", 120618>>,
    <<"MATHEMATICAL BOLD ITALIC CAPITAL PI", 120619>>,
    <<"MATHEMATICAL BOLD ITALIC CAPITAL RHO", 120620>>,
    <<"MATHEMATICAL BOLD ITALIC CAPITAL THETA SYMBOL", 120621>>,
    <<"MATHEMATICAL BOLD ITALIC CAPITAL SIGMA", 120622>>,
    <<"MATHEMATICAL BOLD ITALIC CAPITAL TAU", 120623>>,
    <<"MATHEMATICAL BOLD ITALIC CAPITAL UPSILON", 120624>>,
    <<"MATHEMATICAL BOLD ITALIC CAPITAL PHI", 120625>>,
    <<"MATHEMATICAL BOLD ITALIC CAPITAL CHI", 120626>>,
    <<"MATHEMATICAL BOLD ITALIC CAPITAL PSI", 120627>>,
    <<"MATHEMATICAL BOLD ITALIC CAPITAL OMEGA", 120628>>, <<"MATHEMATICAL BOLD ITALIC NABLA", 120629>>,
    <<"MATHEMATICAL BOLD ITALIC SMALL ALPHA", 120630>>,
    <<"MATHEMATICAL BOLD ITALIC SMALL BETA", 120631>>,
    <<"MATHEMATICAL BOLD ITALIC SMALL GAMMA", 120632>>,
    <<"MATHEMATICAL BOLD ITALIC SMALL DELTA", 120633>>,
    <<"MATHEMATICAL BOLD ITALIC SMALL EPSILON", 120634>>,
    <<"MATHEMATICAL BOLD ITALIC SMALL ZETA", 120635>>,
    <<"MATHEMATICAL BOLD ITALIC SMALL ETA", 120636>>,
    <<"MATHEMATICAL BOLD ITALIC SMALL THETA", 120637>>,
    <<"MATHEMATICAL BOLD ITALIC SMALL IOTA", 120638>>,
    <<"MATHEMATICAL BOLD ITALIC SMALL KAPPA", 120639>>,
    <<"MATHEMATICAL BOLD ITALIC SMALL LAMDA", 120640>>,
    <<"MATHEMATICAL BOLD ITALIC SMALL MU", 120641>>, <<"MATHEMATICAL BOLD ITALIC SMALL NU", 120642>>,
    <<"MATHEMATICAL BOLD ITALIC SMALL XI", 120643>>,
    <<"MATHEMATICAL BOLD ITALIC SMALL OMICRON", 120644>>,
    <<"MATHEMATICAL BOLD ITALIC SMALL PI", 120645>>, <<"MATHEMATICAL BOLD ITALIC SMALL RHO", 120646>>,
    <<"MATHEMATICAL BOLD ITALIC SMALL FINAL SIGMA", 120647>>,
    <<"MATHEMATICAL BOLD ITALIC SMALL SIGMA", 120648>>,
    <<"MATHEMATICAL BOLD ITALIC SMALL TAU", 120649>>,
    <<"MATHEMATICAL BOLD ITALIC SMALL UPSILON", 120650>>,
    <<"MATHEMATICAL BOLD ITALIC SMALL PHI", 120651>>, <<"MATHEMATICAL BOLD ITALIC SMALL CHI", 120652>>,
    <<"MATHEMATICAL BOLD ITALIC SMALL PSI", 120653>>,
    <<"MATHEMATICAL BOLD ITALIC SMALL OMEGA", 120654>>,
    <<"MATHEMATICAL BOLD ITALIC PARTIAL DIFFERENTIAL", 120655>>,
    <<"MATHEMATICAL BOLD ITALIC EPSILON SYMBOL", 120656>>,
    <<"MATHEMATICAL BOLD ITALIC THETA SYMBOL", 120657>>,
    <<"MATHEMATICAL BOLD ITALIC KAPPA SYMBOL", 120658>>,
    <<"MATHEMATICAL BOLD ITALIC PHI SYMBOL", 120659>>,
    <<"MATHEMATICAL BOLD ITALIC RHO SYMBOL", 120660>>,
    <<"MATHEMATICAL BOLD ITALIC PI SYMBOL", 120661>>,
    <<"MATHEMATICAL SANS-SERIF BOLD CAPITAL ALPHA", 120662>>,
    <<"MATHEMATICAL SANS-SERIF BOLD CAPITAL BETA", 120663>>,
    <<"MATHEMATICAL SANS-SERIF BOLD CAPITAL GAMMA", 120664>>,
    <<"MATHEMATICAL SANS-SERIF BOLD CAPITAL DELTA", 120665>>,
    <<"MATHEMATICAL SANS-SERIF BOLD CAPITAL EPSILON", 120666>>,
    <<"MATHEMATICAL SANS-SERIF BOLD CAPITAL ZETA", 120667>>,
    <<"MATHEMATICAL SANS-SERIF BOLD CAPITAL ETA", 120668>>,
    <<"MATHEMATICAL SANS-SERIF BOLD CAPITAL THETA", 120669>>,
    <<"MATHEMATICAL SANS-SERIF BOLD CAPITAL IOTA", 120670>>,
    <<"MATHEMATICAL SANS-SERIF BOLD CAPITAL KAPPA", 120671>>,
    <<"MATHEMATICAL SANS-SERIF BOLD CAPITAL LAMDA", 120672>>,
    <<"MATHEMATICAL SANS-SERIF BOLD CAPITAL MU", 120673>>,
    <<"MATHEMATICAL SANS-SERIF BOLD CAPITAL NU", 120674>>,
    <<"MATHEMATICAL SANS-SERIF BOLD CAPITAL XI", 120675>>,
    <<"MATHEMATICAL SANS-SERIF BOLD CAPITAL OMICRON", 120676>>,
    <<"MATHEMATICAL SANS-SERIF BOLD CAPITAL PI", 120677>>,
    <<"MATHEMATICAL SANS-SERIF BOLD CAPITAL RHO", 120678>>,
    <<"MATHEMATICAL SANS-SERIF BOLD CAPITAL THETA SYMBOL", 120679>>,
    <<"MATHEMATICAL SANS-SERIF BOLD CAPITAL SIGMA", 120680>>,
    <<"MATHEMATICAL SANS-SERIF BOLD CAPITAL TAU", 120681>>,
    <<"MATHEMATICAL SANS-SERIF BOLD CAPITAL UPSILON", 120682>>,
    <<"MATHEMATICAL SANS-SERIF BOLD CAPITAL PHI", 120683>>,
    <<"MATHEMATICAL SANS-SERIF BOLD CAPITAL CHI", 120684>>,
    <<"MATHEMATICAL SANS-SERIF BOLD CAPITAL PSI", 120685>>,
    <<"MATHEMATICAL SANS-SERIF BOLD CAPITAL OMEGA", 120686>>,
    <<"MATHEMATICAL SANS-SERIF BOLD NABLA", 120687>>,
    <<"MATHEMATICAL SANS-SERIF BOLD SMALL ALPHA", 120688>>,
    <<"MATHEMATICAL SANS-SERIF BOLD SMALL BETA", 120689>>,
    <<"MATHEMATICAL SANS-SERIF BOLD SMALL GAMMA", 120690>>,
    <<"MATHEMATICAL SANS-SERIF BOLD SMALL DELTA", 120691>>,
    <<"MATHEMATICAL SANS-SERIF BOLD SMALL EPSILON", 120692>>,
    <<"MATHEMATICAL SANS-SERIF BOLD SMALL ZETA", 120693>>,
    <<"MATHEMATICAL SANS-SERIF BOLD SMALL ETA", 120694>>,
    <<"MATHEMATICAL SANS-SERIF BOLD SMALL THETA", 120695>>,
    <<"MATHEMATICAL SANS-SERIF BOLD SMALL IOTA", 120696>>,
    <<"MATHEMATICAL SANS-SERIF BOLD SMALL KAPPA", 120697>>,
    <<"MATHEMATICAL SANS-SERIF BOLD SMALL LAMDA", 120698>>,
    <<"MATHEMATICAL SANS-SERIF BOLD SMALL MU", 120699>>,
    <<"MATHEMATICAL SANS-SERIF BOLD SMALL NU", 120700>>,
    <<"MATHEMATICAL SANS-SERIF BOLD SMALL XI", 120701>>,
    <<"MATHEMATICAL SANS-SERIF BOLD SMALL OMICRON", 120702>>,
    <<"MATHEMATICAL SANS-SERIF BOLD SMALL PI", 120703>>,
    <<"MATHEMATICAL SANS-SERIF BOLD SMALL RHO", 120704>>,
    <<"MATHEMATICAL SANS-SERIF BOLD SMALL FINAL SIGMA", 120705>>,
    <<"MATHEMATICAL SANS-SERIF BOLD SMALL SIGMA", 120706>>,
    <<"MATHEMATICAL SANS-SERIF BOLD SMALL TAU", 120707>>,
    <<"MATHEMATICAL SANS-SERIF BOLD SMALL UPSILON", 120708>>,
    <<"MATHEMATICAL SANS-SERIF BOLD SMALL PHI", 120709>>,
    <<"MATHEMATICAL SANS-SERIF BOLD SMALL CHI", 120710>>,
    <<"MATHEMATICAL SANS-SERIF BOLD SMALL PSI", 120711>>,
    <<"MATHEMATICAL SANS-SERIF BOLD SMALL OMEGA", 120712>>,
    <<"MATHEMATICAL SANS-SERIF BOLD PARTIAL DIFFERENTIAL", 120713>>,
    <<"MATHEMATICAL SANS-SERIF BOLD EPSILON SYMBOL", 120714>>,
    <<"MATHEMATICAL SANS-SERIF BOLD THETA SYMBOL", 120715>>,
    <<"MATHEMATICAL SANS-SERIF BOLD KAPPA SYMBOL", 120716>>,
    <<"MATHEMATICAL SANS-SERIF BOLD PHI SYMBOL", 120717>>,
    <<"MATHEMATICAL SANS-SERIF BOLD RHO SYMBOL", 120718>>,
    <<"MATHEMATICAL SANS-SERIF BOLD PI SYMBOL", 120719>>,
    <<"MATHEMATICAL SANS-SERIF BOLD ITALIC CAPITAL ALPHA", 120720>>,
    <<"MATHEMATICAL SANS-SERIF BOLD ITALIC CAPITAL BETA", 120721>>,
    <<"MATHEMATICAL SANS-SERIF BOLD ITALIC CAPITAL GAMMA", 120722>>,
    <<"MATHEMATICAL SANS-SERIF BOLD ITALIC CAPITAL DELTA", 120723>>,
    <<"MATHEMATICAL SANS-SERIF BOLD ITALIC CAPITAL EPSILON", 120724>>,
    <<"MATHEMATICAL SANS-SERIF BOLD ITALIC CAPITAL ZETA", 120725>>,
    <<"MATHEMATICAL SANS-SERIF BOLD ITALIC CAPITAL ETA", 120726>>,
    <<"MATHEMATICAL SANS-SERIF BOLD ITALIC CAPITAL THETA", 120727>>,
    <<"MATHEMATICAL SANS-SERIF BOLD ITALIC CAPITAL IOTA", 120728>>,
    <<"MATHEMATICAL SANS-SERIF BOLD ITALIC CAPITAL KAPPA", 120729>>,
    <<"MATHEMATICAL SANS-SERIF BOLD ITALIC CAPITAL LAMDA", 120730>>,
    <<"MATHEMATICAL SANS-SERIF BOLD ITALIC CAPITAL MU", 120731>>,
    <<"MATHEMATICAL SANS-SERIF BOLD ITALIC CAPITAL NU", 120732>>,
    <<"MATHEMATICAL SANS-SERIF BOLD ITALIC CAPITAL XI", 120733>>,
    <<"MATHEMATICAL SANS-SERIF BOLD ITALIC CAPITAL OMICRON", 120734>>,
    <<"MATHEMATICAL SANS-SERIF BOLD ITALIC CAPITAL PI", 120735>>,
    <<"MATHEMATICAL SANS-SERIF BOLD ITALIC CAPITAL RHO", 120736>>,
    <<"MATHEMATICAL SANS-SERIF BOLD ITALIC CAPITAL THETA SYMBOL", 120737>>,
    <<"MATHEMATICAL SANS-SERIF BOLD ITALIC CAPITAL SIGMA", 120738>>,
    <<"MATHEMATICAL SANS-SERIF BOLD ITALIC CAPITAL TAU", 120739>>,
    <<"MATHEMATICAL SANS-SERIF BOLD ITALIC CAPITAL UPSILON", 120740>>,
    <<"MATHEMATICAL SANS-SERIF BOLD ITALIC CAPITAL PHI", 120741>>,
    <<"MATHEMATICAL SANS-SERIF BOLD ITALIC CAPITAL CHI", 120742>>,
    <<"MATHEMATICAL SANS-SERIF BOLD ITALIC CAPITAL PSI", 120743>>,
    <<"MATHEMATICAL SANS-SERIF BOLD ITALIC CAPITAL OMEGA", 120744>>,
    <<"MATHEMATICAL SANS-SERIF BOLD ITALIC NABLA", 120745>>,
    <<"MATHEMATICAL SANS-SERIF BOLD ITALIC SMALL ALPHA", 120746>>,
    <<"MATHEMATICAL SANS-SERIF BOLD ITALIC SMALL BETA", 120747>>,
    <<"MATHEMATICAL SANS-SERIF BOLD ITALIC SMALL GAMMA", 120748>>,
    <<"MATHEMATICAL SANS-SERIF BOLD ITALIC SMALL DELTA", 120749>>,
    <<"MATHEMATICAL SANS-SERIF BOLD ITALIC SMALL EPSILON", 120750>>,
    <<"MATHEMATICAL SANS-SERIF BOLD ITALIC SMALL ZETA", 120751>>,
    <<"MATHEMATICAL SANS-SERIF BOLD ITALIC SMALL ETA", 120752>>,
    <<"MATHEMATICAL SANS-SERIF BOLD ITALIC SMALL THETA", 120753>>,
    <<"MATHEMATICAL SANS-SERIF BOLD ITALIC SMALL IOTA", 120754>>,
    <<"MATHEMATICAL SANS-SERIF BOLD ITALIC SMALL KAPPA", 120755>>,
    <<"MATHEMATICAL SANS-SERIF BOLD ITALIC SMALL LAMDA", 120756>>,
    <<"MATHEMATICAL SANS-SERIF BOLD ITALIC SMALL MU", 120757>>,
    <<"MATHEMATICAL SANS-SERIF BOLD ITALIC SMALL NU", 120758>>,
    <<"MATHEMATICAL SANS-SERIF BOLD ITALIC SMALL XI", 120759>>,
    <<"MATHEMATICAL SANS-SERIF BOLD ITALIC SMALL OMICRON", 120760>>,
    <<"MATHEMATICAL SANS-SERIF BOLD ITALIC SMALL PI", 120761>>,
    <<"MATHEMATICAL SANS-SERIF BOLD ITALIC SMALL RHO", 120762>>,
    <<"MATHEMATICAL SANS-SERIF BOLD ITALIC SMALL FINAL SIGMA", 120763>>,
    <<"MATHEMATICAL SANS-SERIF BOLD ITALIC SMALL SIGMA", 120764>>,
    <<"MATHEMATICAL SANS-SERIF BOLD ITALIC SMALL TAU", 120765>>,
    <<"MATHEMATICAL SANS-SERIF BOLD ITALIC SMALL UPSILON", 120766>>,
    <<"MATHEMATICAL SANS-SERIF BOLD ITALIC SMALL PHI", 120767>>,
    <<"MATHEMATICAL SANS-SERIF BOLD ITALIC SMALL CHI", 120768>>,
    <<"MATHEMATICAL SANS-SERIF BOLD ITALIC SMALL PSI", 120769>>,
    <<"MATHEMATICAL SANS-SERIF BOLD ITALIC SMALL OMEGA", 120770>>,
    <<"MATHEMATICAL SANS-SERIF BOLD ITALIC PARTIAL DIFFERENTIAL", 120771>>,
    <<"MATHEMATICAL SANS-SERIF BOLD ITALIC EPSILON SYMBOL", 120772>>,
    <<"MATHEMATICAL SANS-SERIF BOLD ITALIC THETA SYMBOL", 120773>>,
    <<"MATHEMATICAL SANS-SERIF BOLD ITALIC KAPPA SYMBOL", 120774>>,
    <<"MATHEMATICAL SANS-SERIF BOLD ITALIC PHI SYMBOL", 120775>>,
    <<"MATHEMATICAL SANS-SERIF BOLD ITALIC RHO SYMBOL", 120776>>,
    <<"MATHEMATICAL SANS-SERIF BOLD ITALIC PI SYMBOL", 120777>>,
    <<"MATHEMATICAL BOLD CAPITAL DIGAMMA", 120778>>, <<"MATHEMATICAL BOLD SMALL DIGAMMA", 120779>>,
    <<"MATHEMATICAL BOLD DIGIT ZERO", 120782>>, <<"MATHEMATICAL BOLD DIGIT ONE", 120783>>,
    <<"MATHEMATICAL BOLD DIGIT TWO", 120784>>, <<"MATHEMATICAL BOLD DIGIT THREE", 120785>>,
    <<"MATHEMATICAL BOLD DIGIT FOUR", 120786>>, <<"MATHEMATICAL BOLD DIGIT FIVE", 120787>>,
    <<"MATHEMATICAL BOLD DIGIT SIX", 120788>>, <<"MATHEMATICAL BOLD DIGIT SEVEN", 120789>>,
    <<"MATHEMATICAL BOLD DIGIT EIGHT", 120790>>, <<"MATHEMATICAL BOLD DIGIT NINE", 120791>>,
    <<"MATHEMATICAL DOUBLE-STRUCK DIGIT ZERO", 120792>>,
    <<"MATHEMATICAL DOUBLE-STRUCK DIGIT ONE", 120793>>,
    <<"MATHEMATICAL DOUBLE-STRUCK DIGIT TWO", 120794>>,
    <<"MATHEMATICAL DOUBLE-STRUCK DIGIT THREE", 120795>>,
    <<"MATHEMATICAL DOUBLE-STRUCK DIGIT FOUR", 120796>>,
    <<"MATHEMATICAL DOUBLE-STRUCK DIGIT FIVE", 120797>>,
    <<"MATHEMATICAL DOUBLE-STRUCK DIGIT SIX", 120798>>,
    <<"MATHEMATICAL DOUBLE-STRUCK DIGIT SEVEN", 120799>>,
    <<"MATHEMATICAL DOUBLE-STRUCK DIGIT EIGHT", 120800>>,
    <<"MATHEMATICAL DOUBLE-STRUCK DIGIT NINE", 120801>>,
    <<"MATHEMATICAL SANS-SERIF DIGIT ZERO", 120802>>, <<"MATHEMATICAL SANS-SERIF DIGIT ONE", 120803>>,
    <<"MATHEMATICAL SANS-SERIF DIGIT TWO", 120804>>, <<"MATHEMATICAL SANS-SERIF DIGIT THREE", 120805>>,
    <<"MATHEMATICAL SANS-SERIF DIGIT FOUR", 120806>>, <<"MATHEMATICAL SANS-SERIF DIGIT FIVE", 120807>>,
    <<"MATHEMATICAL SANS-SERIF DIGIT SIX", 120808>>, <<"MATHEMATICAL SANS-SERIF DIGIT SEVEN", 120809>>,
    <<"MATHEMATICAL SANS-SERIF DIGIT EIGHT", 120810>>,
    <<"MATHEMATICAL SANS-SERIF DIGIT NINE", 120811>>,
    <<"MATHEMATICAL SANS-SERIF BOLD DIGIT ZERO", 120812>>,
    <<"MATHEMATICAL SANS-SERIF BOLD DIGIT ONE", 120813>>,
    <<"MATHEMATICAL SANS-SERIF BOLD DIGIT TWO", 120814>>,
    <<"MATHEMATICAL SANS-SERIF BOLD DIGIT THREE", 120815>>,
    <<"MATHEMATICAL SANS-SERIF BOLD DIGIT FOUR", 120816>>,
    <<"MATHEMATICAL SANS-SERIF BOLD DIGIT FIVE", 120817>>,
    <<"MATHEMATICAL SANS-SERIF BOLD DIGIT SIX", 120818>>,
    <<"MATHEMATICAL SANS-SERIF BOLD DIGIT SEVEN", 120819>>,
    <<"MATHEMATICAL SANS-SERIF BOLD DIGIT EIGHT", 120820>>,
    <<"MATHEMATICAL SANS-SERIF BOLD DIGIT NINE", 120821>>,
    <<"MATHEMATICAL MONOSPACE DIGIT ZERO", 120822>>, <<"MATHEMATICAL MONOSPACE DIGIT ONE", 120823>>,
    <<"MATHEMATICAL MONOSPACE DIGIT TWO", 120824>>, <<"MATHEMATICAL MONOSPACE DIGIT THREE", 120825>>,
    <<"MATHEMATICAL MONOSPACE DIGIT FOUR", 120826>>, <<"MATHEMATICAL MONOSPACE DIGIT FIVE", 120827>>,
    <<"MATHEMATICAL MONOSPACE DIGIT SIX", 120828>>, <<"MATHEMATICAL MONOSPACE DIGIT SEVEN", 120829>>,
    <<"MATHEMATICAL MONOSPACE DIGIT EIGHT", 120830>>, <<"MATHEMATICAL MONOSPACE DIGIT NINE", 120831>>,
    <<"SIGNWRITING HAND-FIST INDEX", 120832>>, <<"SIGNWRITING HAND-CIRCLE INDEX", 120833>>,
    <<"SIGNWRITING HAND-CUP INDEX", 120834>>, <<"SIGNWRITING HAND-OVAL INDEX", 120835>>,
    <<"SIGNWRITING HAND-HINGE INDEX", 120836>>, <<"SIGNWRITING HAND-ANGLE INDEX", 120837>>,
    <<"SIGNWRITING HAND-FIST INDEX BENT", 120838>>, <<"SIGNWRITING HAND-CIRCLE INDEX BENT", 120839>>,
    <<"SIGNWRITING HAND-FIST THUMB UNDER INDEX BENT", 120840>>,
    <<"SIGNWRITING HAND-FIST INDEX RAISED KNUCKLE", 120841>>,
    <<"SIGNWRITING HAND-FIST INDEX CUPPED", 120842>>, <<"SIGNWRITING HAND-FIST INDEX HINGED", 120843>>,
    <<"SIGNWRITING HAND-FIST INDEX HINGED LOW", 120844>>,
    <<"SIGNWRITING HAND-CIRCLE INDEX HINGE", 120845>>,
    <<"SIGNWRITING HAND-FIST INDEX MIDDLE", 120846>>,
    <<"SIGNWRITING HAND-CIRCLE INDEX MIDDLE", 120847>>,
    <<"SIGNWRITING HAND-FIST INDEX MIDDLE BENT", 120848>>,
    <<"SIGNWRITING HAND-FIST INDEX MIDDLE RAISED KNUCKLES", 120849>>,
    <<"SIGNWRITING HAND-FIST INDEX MIDDLE HINGED", 120850>>,
    <<"SIGNWRITING HAND-FIST INDEX UP MIDDLE HINGED", 120851>>,
    <<"SIGNWRITING HAND-FIST INDEX HINGED MIDDLE UP", 120852>>,
    <<"SIGNWRITING HAND-FIST INDEX MIDDLE CONJOINED", 120853>>,
    <<"SIGNWRITING HAND-FIST INDEX MIDDLE CONJOINED INDEX BENT", 120854>>,
    <<"SIGNWRITING HAND-FIST INDEX MIDDLE CONJOINED MIDDLE BENT", 120855>>,
    <<"SIGNWRITING HAND-FIST INDEX MIDDLE CONJOINED CUPPED", 120856>>,
    <<"SIGNWRITING HAND-FIST INDEX MIDDLE CONJOINED HINGED", 120857>>,
    <<"SIGNWRITING HAND-FIST INDEX MIDDLE CROSSED", 120858>>,
    <<"SIGNWRITING HAND-CIRCLE INDEX MIDDLE CROSSED", 120859>>,
    <<"SIGNWRITING HAND-FIST MIDDLE BENT OVER INDEX", 120860>>,
    <<"SIGNWRITING HAND-FIST INDEX BENT OVER MIDDLE", 120861>>,
    <<"SIGNWRITING HAND-FIST INDEX MIDDLE THUMB", 120862>>,
    <<"SIGNWRITING HAND-CIRCLE INDEX MIDDLE THUMB", 120863>>,
    <<"SIGNWRITING HAND-FIST INDEX MIDDLE STRAIGHT THUMB BENT", 120864>>,
    <<"SIGNWRITING HAND-FIST INDEX MIDDLE BENT THUMB STRAIGHT", 120865>>,
    <<"SIGNWRITING HAND-FIST INDEX MIDDLE THUMB BENT", 120866>>,
    <<"SIGNWRITING HAND-FIST INDEX MIDDLE HINGED SPREAD THUMB SIDE", 120867>>,
    <<"SIGNWRITING HAND-FIST INDEX UP MIDDLE HINGED THUMB SIDE", 120868>>,
    <<"SIGNWRITING HAND-FIST INDEX UP MIDDLE HINGED THUMB CONJOINED", 120869>>,
    <<"SIGNWRITING HAND-FIST INDEX HINGED MIDDLE UP THUMB SIDE", 120870>>,
    <<"SIGNWRITING HAND-FIST INDEX MIDDLE UP SPREAD THUMB FORWARD", 120871>>,
    <<"SIGNWRITING HAND-FIST INDEX MIDDLE THUMB CUPPED", 120872>>,
    <<"SIGNWRITING HAND-FIST INDEX MIDDLE THUMB CIRCLED", 120873>>,
    <<"SIGNWRITING HAND-FIST INDEX MIDDLE THUMB HOOKED", 120874>>,
    <<"SIGNWRITING HAND-FIST INDEX MIDDLE THUMB HINGED", 120875>>,
    <<"SIGNWRITING HAND-FIST THUMB BETWEEN INDEX MIDDLE STRAIGHT", 120876>>,
    <<"SIGNWRITING HAND-FIST INDEX MIDDLE CONJOINED THUMB SIDE", 120877>>,
    <<"SIGNWRITING HAND-FIST INDEX MIDDLE CONJOINED THUMB SIDE CONJOINED", 120878>>,
    <<"SIGNWRITING HAND-FIST INDEX MIDDLE CONJOINED THUMB SIDE BENT", 120879>>,
    <<"SIGNWRITING HAND-FIST MIDDLE THUMB HOOKED INDEX UP", 120880>>,
    <<"SIGNWRITING HAND-FIST INDEX THUMB HOOKED MIDDLE UP", 120881>>,
    <<"SIGNWRITING HAND-FIST INDEX MIDDLE CONJOINED HINGED THUMB SIDE", 120882>>,
    <<"SIGNWRITING HAND-FIST INDEX MIDDLE CROSSED THUMB SIDE", 120883>>,
    <<"SIGNWRITING HAND-FIST INDEX MIDDLE CONJOINED THUMB FORWARD", 120884>>,
    <<"SIGNWRITING HAND-FIST INDEX MIDDLE CONJOINED CUPPED THUMB FORWARD", 120885>>,
    <<"SIGNWRITING HAND-FIST MIDDLE THUMB CUPPED INDEX UP", 120886>>,
    <<"SIGNWRITING HAND-FIST INDEX THUMB CUPPED MIDDLE UP", 120887>>,
    <<"SIGNWRITING HAND-FIST MIDDLE THUMB CIRCLED INDEX UP", 120888>>,
    <<"SIGNWRITING HAND-FIST MIDDLE THUMB CIRCLED INDEX HINGED", 120889>>,
    <<"SIGNWRITING HAND-FIST INDEX THUMB ANGLED OUT MIDDLE UP", 120890>>,
    <<"SIGNWRITING HAND-FIST INDEX THUMB ANGLED IN MIDDLE UP", 120891>>,
    <<"SIGNWRITING HAND-FIST INDEX THUMB CIRCLED MIDDLE UP", 120892>>,
    <<"SIGNWRITING HAND-FIST INDEX MIDDLE THUMB CONJOINED HINGED", 120893>>,
    <<"SIGNWRITING HAND-FIST INDEX MIDDLE THUMB ANGLED OUT", 120894>>,
    <<"SIGNWRITING HAND-FIST INDEX MIDDLE THUMB ANGLED", 120895>>,
    <<"SIGNWRITING HAND-FIST MIDDLE THUMB ANGLED OUT INDEX UP", 120896>>,
    <<"SIGNWRITING HAND-FIST MIDDLE THUMB ANGLED OUT INDEX CROSSED", 120897>>,
    <<"SIGNWRITING HAND-FIST MIDDLE THUMB ANGLED INDEX UP", 120898>>,
    <<"SIGNWRITING HAND-FIST INDEX THUMB HOOKED MIDDLE HINGED", 120899>>,
    <<"SIGNWRITING HAND-FLAT FOUR FINGERS", 120900>>,
    <<"SIGNWRITING HAND-FLAT FOUR FINGERS BENT", 120901>>,
    <<"SIGNWRITING HAND-FLAT FOUR FINGERS HINGED", 120902>>,
    <<"SIGNWRITING HAND-FLAT FOUR FINGERS CONJOINED", 120903>>,
    <<"SIGNWRITING HAND-FLAT FOUR FINGERS CONJOINED SPLIT", 120904>>,
    <<"SIGNWRITING HAND-CLAW FOUR FINGERS CONJOINED", 120905>>,
    <<"SIGNWRITING HAND-FIST FOUR FINGERS CONJOINED BENT", 120906>>,
    <<"SIGNWRITING HAND-HINGE FOUR FINGERS CONJOINED", 120907>>,
    <<"SIGNWRITING HAND-FLAT FIVE FINGERS SPREAD", 120908>>,
    <<"SIGNWRITING HAND-FLAT HEEL FIVE FINGERS SPREAD", 120909>>,
    <<"SIGNWRITING HAND-FLAT FIVE FINGERS SPREAD FOUR BENT", 120910>>,
    <<"SIGNWRITING HAND-FLAT HEEL FIVE FINGERS SPREAD FOUR BENT", 120911>>,
    <<"SIGNWRITING HAND-FLAT FIVE FINGERS SPREAD BENT", 120912>>,
    <<"SIGNWRITING HAND-FLAT HEEL FIVE FINGERS SPREAD BENT", 120913>>,
    <<"SIGNWRITING HAND-FLAT FIVE FINGERS SPREAD THUMB FORWARD", 120914>>,
    <<"SIGNWRITING HAND-CUP FIVE FINGERS SPREAD", 120915>>,
    <<"SIGNWRITING HAND-CUP FIVE FINGERS SPREAD OPEN", 120916>>,
    <<"SIGNWRITING HAND-HINGE FIVE FINGERS SPREAD OPEN", 120917>>,
    <<"SIGNWRITING HAND-OVAL FIVE FINGERS SPREAD", 120918>>,
    <<"SIGNWRITING HAND-FLAT FIVE FINGERS SPREAD HINGED", 120919>>,
    <<"SIGNWRITING HAND-FLAT FIVE FINGERS SPREAD HINGED THUMB SIDE", 120920>>,
    <<"SIGNWRITING HAND-FLAT FIVE FINGERS SPREAD HINGED NO THUMB", 120921>>,
    <<"SIGNWRITING HAND-FLAT", 120922>>, <<"SIGNWRITING HAND-FLAT BETWEEN PALM FACINGS", 120923>>,
    <<"SIGNWRITING HAND-FLAT HEEL", 120924>>, <<"SIGNWRITING HAND-FLAT THUMB SIDE", 120925>>,
    <<"SIGNWRITING HAND-FLAT HEEL THUMB SIDE", 120926>>,
    <<"SIGNWRITING HAND-FLAT THUMB BENT", 120927>>, <<"SIGNWRITING HAND-FLAT THUMB FORWARD", 120928>>,
    <<"SIGNWRITING HAND-FLAT SPLIT INDEX THUMB SIDE", 120929>>,
    <<"SIGNWRITING HAND-FLAT SPLIT CENTRE", 120930>>,
    <<"SIGNWRITING HAND-FLAT SPLIT CENTRE THUMB SIDE", 120931>>,
    <<"SIGNWRITING HAND-FLAT SPLIT CENTRE THUMB SIDE BENT", 120932>>,
    <<"SIGNWRITING HAND-FLAT SPLIT LITTLE", 120933>>, <<"SIGNWRITING HAND-CLAW", 120934>>,
    <<"SIGNWRITING HAND-CLAW THUMB SIDE", 120935>>, <<"SIGNWRITING HAND-CLAW NO THUMB", 120936>>,
    <<"SIGNWRITING HAND-CLAW THUMB FORWARD", 120937>>, <<"SIGNWRITING HAND-HOOK CURLICUE", 120938>>,
    <<"SIGNWRITING HAND-HOOK", 120939>>, <<"SIGNWRITING HAND-CUP OPEN", 120940>>,
    <<"SIGNWRITING HAND-CUP", 120941>>, <<"SIGNWRITING HAND-CUP OPEN THUMB SIDE", 120942>>,
    <<"SIGNWRITING HAND-CUP THUMB SIDE", 120943>>, <<"SIGNWRITING HAND-CUP OPEN NO THUMB", 120944>>,
    <<"SIGNWRITING HAND-CUP NO THUMB", 120945>>, <<"SIGNWRITING HAND-CUP OPEN THUMB FORWARD", 120946>>,
    <<"SIGNWRITING HAND-CUP THUMB FORWARD", 120947>>, <<"SIGNWRITING HAND-CURLICUE OPEN", 120948>>,
    <<"SIGNWRITING HAND-CURLICUE", 120949>>, <<"SIGNWRITING HAND-CIRCLE", 120950>>,
    <<"SIGNWRITING HAND-OVAL", 120951>>, <<"SIGNWRITING HAND-OVAL THUMB SIDE", 120952>>,
    <<"SIGNWRITING HAND-OVAL NO THUMB", 120953>>, <<"SIGNWRITING HAND-OVAL THUMB FORWARD", 120954>>,
    <<"SIGNWRITING HAND-HINGE OPEN", 120955>>, <<"SIGNWRITING HAND-HINGE OPEN THUMB FORWARD", 120956>>,
    <<"SIGNWRITING HAND-HINGE", 120957>>, <<"SIGNWRITING HAND-HINGE SMALL", 120958>>,
    <<"SIGNWRITING HAND-HINGE OPEN THUMB SIDE", 120959>>,
    <<"SIGNWRITING HAND-HINGE THUMB SIDE", 120960>>,
    <<"SIGNWRITING HAND-HINGE OPEN NO THUMB", 120961>>, <<"SIGNWRITING HAND-HINGE NO THUMB", 120962>>,
    <<"SIGNWRITING HAND-HINGE THUMB SIDE TOUCHING INDEX", 120963>>,
    <<"SIGNWRITING HAND-HINGE THUMB BETWEEN MIDDLE RING", 120964>>,
    <<"SIGNWRITING HAND-ANGLE", 120965>>, <<"SIGNWRITING HAND-FIST INDEX MIDDLE RING", 120966>>,
    <<"SIGNWRITING HAND-CIRCLE INDEX MIDDLE RING", 120967>>,
    <<"SIGNWRITING HAND-HINGE INDEX MIDDLE RING", 120968>>,
    <<"SIGNWRITING HAND-ANGLE INDEX MIDDLE RING", 120969>>,
    <<"SIGNWRITING HAND-HINGE LITTLE", 120970>>,
    <<"SIGNWRITING HAND-FIST INDEX MIDDLE RING BENT", 120971>>,
    <<"SIGNWRITING HAND-FIST INDEX MIDDLE RING CONJOINED", 120972>>,
    <<"SIGNWRITING HAND-HINGE INDEX MIDDLE RING CONJOINED", 120973>>,
    <<"SIGNWRITING HAND-FIST LITTLE DOWN", 120974>>,
    <<"SIGNWRITING HAND-FIST LITTLE DOWN RIPPLE STRAIGHT", 120975>>,
    <<"SIGNWRITING HAND-FIST LITTLE DOWN RIPPLE CURVED", 120976>>,
    <<"SIGNWRITING HAND-FIST LITTLE DOWN OTHERS CIRCLED", 120977>>,
    <<"SIGNWRITING HAND-FIST LITTLE UP", 120978>>,
    <<"SIGNWRITING HAND-FIST THUMB UNDER LITTLE UP", 120979>>,
    <<"SIGNWRITING HAND-CIRCLE LITTLE UP", 120980>>, <<"SIGNWRITING HAND-OVAL LITTLE UP", 120981>>,
    <<"SIGNWRITING HAND-ANGLE LITTLE UP", 120982>>,
    <<"SIGNWRITING HAND-FIST LITTLE RAISED KNUCKLE", 120983>>,
    <<"SIGNWRITING HAND-FIST LITTLE BENT", 120984>>,
    <<"SIGNWRITING HAND-FIST LITTLE TOUCHES THUMB", 120985>>,
    <<"SIGNWRITING HAND-FIST LITTLE THUMB", 120986>>,
    <<"SIGNWRITING HAND-HINGE LITTLE THUMB", 120987>>,
    <<"SIGNWRITING HAND-FIST LITTLE INDEX THUMB", 120988>>,
    <<"SIGNWRITING HAND-HINGE LITTLE INDEX THUMB", 120989>>,
    <<"SIGNWRITING HAND-ANGLE LITTLE INDEX THUMB INDEX THUMB OUT", 120990>>,
    <<"SIGNWRITING HAND-ANGLE LITTLE INDEX THUMB INDEX THUMB", 120991>>,
    <<"SIGNWRITING HAND-FIST LITTLE INDEX", 120992>>,
    <<"SIGNWRITING HAND-CIRCLE LITTLE INDEX", 120993>>,
    <<"SIGNWRITING HAND-HINGE LITTLE INDEX", 120994>>,
    <<"SIGNWRITING HAND-ANGLE LITTLE INDEX", 120995>>,
    <<"SIGNWRITING HAND-FIST INDEX MIDDLE LITTLE", 120996>>,
    <<"SIGNWRITING HAND-CIRCLE INDEX MIDDLE LITTLE", 120997>>,
    <<"SIGNWRITING HAND-HINGE INDEX MIDDLE LITTLE", 120998>>,
    <<"SIGNWRITING HAND-HINGE RING", 120999>>,
    <<"SIGNWRITING HAND-ANGLE INDEX MIDDLE LITTLE", 121000>>,
    <<"SIGNWRITING HAND-FIST INDEX MIDDLE CROSS LITTLE", 121001>>,
    <<"SIGNWRITING HAND-CIRCLE INDEX MIDDLE CROSS LITTLE", 121002>>,
    <<"SIGNWRITING HAND-FIST RING DOWN", 121003>>,
    <<"SIGNWRITING HAND-HINGE RING DOWN INDEX THUMB HOOK MIDDLE", 121004>>,
    <<"SIGNWRITING HAND-ANGLE RING DOWN MIDDLE THUMB INDEX CROSS", 121005>>,
    <<"SIGNWRITING HAND-FIST RING UP", 121006>>,
    <<"SIGNWRITING HAND-FIST RING RAISED KNUCKLE", 121007>>,
    <<"SIGNWRITING HAND-FIST RING LITTLE", 121008>>, <<"SIGNWRITING HAND-CIRCLE RING LITTLE", 121009>>,
    <<"SIGNWRITING HAND-OVAL RING LITTLE", 121010>>, <<"SIGNWRITING HAND-ANGLE RING LITTLE", 121011>>,
    <<"SIGNWRITING HAND-FIST RING MIDDLE", 121012>>,
    <<"SIGNWRITING HAND-FIST RING MIDDLE CONJOINED", 121013>>,
    <<"SIGNWRITING HAND-FIST RING MIDDLE RAISED KNUCKLES", 121014>>,
    <<"SIGNWRITING HAND-FIST RING INDEX", 121015>>, <<"SIGNWRITING HAND-FIST RING THUMB", 121016>>,
    <<"SIGNWRITING HAND-HOOK RING THUMB", 121017>>,
    <<"SIGNWRITING HAND-FIST INDEX RING LITTLE", 121018>>,
    <<"SIGNWRITING HAND-CIRCLE INDEX RING LITTLE", 121019>>,
    <<"SIGNWRITING HAND-CURLICUE INDEX RING LITTLE ON", 121020>>,
    <<"SIGNWRITING HAND-HOOK INDEX RING LITTLE OUT", 121021>>,
    <<"SIGNWRITING HAND-HOOK INDEX RING LITTLE IN", 121022>>,
    <<"SIGNWRITING HAND-HOOK INDEX RING LITTLE UNDER", 121023>>,
    <<"SIGNWRITING HAND-CUP INDEX RING LITTLE", 121024>>,
    <<"SIGNWRITING HAND-HINGE INDEX RING LITTLE", 121025>>,
    <<"SIGNWRITING HAND-ANGLE INDEX RING LITTLE OUT", 121026>>,
    <<"SIGNWRITING HAND-ANGLE INDEX RING LITTLE", 121027>>,
    <<"SIGNWRITING HAND-FIST MIDDLE DOWN", 121028>>, <<"SIGNWRITING HAND-HINGE MIDDLE", 121029>>,
    <<"SIGNWRITING HAND-FIST MIDDLE UP", 121030>>, <<"SIGNWRITING HAND-CIRCLE MIDDLE UP", 121031>>,
    <<"SIGNWRITING HAND-FIST MIDDLE RAISED KNUCKLE", 121032>>,
    <<"SIGNWRITING HAND-FIST MIDDLE UP THUMB SIDE", 121033>>,
    <<"SIGNWRITING HAND-HOOK MIDDLE THUMB", 121034>>,
    <<"SIGNWRITING HAND-FIST MIDDLE THUMB LITTLE", 121035>>,
    <<"SIGNWRITING HAND-FIST MIDDLE LITTLE", 121036>>,
    <<"SIGNWRITING HAND-FIST MIDDLE RING LITTLE", 121037>>,
    <<"SIGNWRITING HAND-CIRCLE MIDDLE RING LITTLE", 121038>>,
    <<"SIGNWRITING HAND-CURLICUE MIDDLE RING LITTLE ON", 121039>>,
    <<"SIGNWRITING HAND-CUP MIDDLE RING LITTLE", 121040>>,
    <<"SIGNWRITING HAND-HINGE MIDDLE RING LITTLE", 121041>>,
    <<"SIGNWRITING HAND-ANGLE MIDDLE RING LITTLE OUT", 121042>>,
    <<"SIGNWRITING HAND-ANGLE MIDDLE RING LITTLE IN", 121043>>,
    <<"SIGNWRITING HAND-ANGLE MIDDLE RING LITTLE", 121044>>,
    <<"SIGNWRITING HAND-CIRCLE MIDDLE RING LITTLE BENT", 121045>>,
    <<"SIGNWRITING HAND-CLAW MIDDLE RING LITTLE CONJOINED", 121046>>,
    <<"SIGNWRITING HAND-CLAW MIDDLE RING LITTLE CONJOINED SIDE", 121047>>,
    <<"SIGNWRITING HAND-HOOK MIDDLE RING LITTLE CONJOINED OUT", 121048>>,
    <<"SIGNWRITING HAND-HOOK MIDDLE RING LITTLE CONJOINED IN", 121049>>,
    <<"SIGNWRITING HAND-HOOK MIDDLE RING LITTLE CONJOINED", 121050>>,
    <<"SIGNWRITING HAND-HINGE INDEX HINGED", 121051>>,
    <<"SIGNWRITING HAND-FIST INDEX THUMB SIDE", 121052>>,
    <<"SIGNWRITING HAND-HINGE INDEX THUMB SIDE", 121053>>,
    <<"SIGNWRITING HAND-FIST INDEX THUMB SIDE THUMB DIAGONAL", 121054>>,
    <<"SIGNWRITING HAND-FIST INDEX THUMB SIDE THUMB CONJOINED", 121055>>,
    <<"SIGNWRITING HAND-FIST INDEX THUMB SIDE THUMB BENT", 121056>>,
    <<"SIGNWRITING HAND-FIST INDEX THUMB SIDE INDEX BENT", 121057>>,
    <<"SIGNWRITING HAND-FIST INDEX THUMB SIDE BOTH BENT", 121058>>,
    <<"SIGNWRITING HAND-FIST INDEX THUMB SIDE INDEX HINGE", 121059>>,
    <<"SIGNWRITING HAND-FIST INDEX THUMB FORWARD INDEX STRAIGHT", 121060>>,
    <<"SIGNWRITING HAND-FIST INDEX THUMB FORWARD INDEX BENT", 121061>>,
    <<"SIGNWRITING HAND-FIST INDEX THUMB HOOK", 121062>>,
    <<"SIGNWRITING HAND-FIST INDEX THUMB CURLICUE", 121063>>,
    <<"SIGNWRITING HAND-FIST INDEX THUMB CURVE THUMB INSIDE", 121064>>,
    <<"SIGNWRITING HAND-CLAW INDEX THUMB CURVE THUMB INSIDE", 121065>>,
    <<"SIGNWRITING HAND-FIST INDEX THUMB CURVE THUMB UNDER", 121066>>,
    <<"SIGNWRITING HAND-FIST INDEX THUMB CIRCLE", 121067>>,
    <<"SIGNWRITING HAND-CUP INDEX THUMB", 121068>>,
    <<"SIGNWRITING HAND-CUP INDEX THUMB OPEN", 121069>>,
    <<"SIGNWRITING HAND-HINGE INDEX THUMB OPEN", 121070>>,
    <<"SIGNWRITING HAND-HINGE INDEX THUMB LARGE", 121071>>,
    <<"SIGNWRITING HAND-HINGE INDEX THUMB", 121072>>,
    <<"SIGNWRITING HAND-HINGE INDEX THUMB SMALL", 121073>>,
    <<"SIGNWRITING HAND-ANGLE INDEX THUMB OUT", 121074>>,
    <<"SIGNWRITING HAND-ANGLE INDEX THUMB IN", 121075>>,
    <<"SIGNWRITING HAND-ANGLE INDEX THUMB", 121076>>, <<"SIGNWRITING HAND-FIST THUMB", 121077>>,
    <<"SIGNWRITING HAND-FIST THUMB HEEL", 121078>>,
    <<"SIGNWRITING HAND-FIST THUMB SIDE DIAGONAL", 121079>>,
    <<"SIGNWRITING HAND-FIST THUMB SIDE CONJOINED", 121080>>,
    <<"SIGNWRITING HAND-FIST THUMB SIDE BENT", 121081>>,
    <<"SIGNWRITING HAND-FIST THUMB FORWARD", 121082>>,
    <<"SIGNWRITING HAND-FIST THUMB BETWEEN INDEX MIDDLE", 121083>>,
    <<"SIGNWRITING HAND-FIST THUMB BETWEEN MIDDLE RING", 121084>>,
    <<"SIGNWRITING HAND-FIST THUMB BETWEEN RING LITTLE", 121085>>,
    <<"SIGNWRITING HAND-FIST THUMB UNDER TWO FINGERS", 121086>>,
    <<"SIGNWRITING HAND-FIST THUMB OVER TWO FINGERS", 121087>>,
    <<"SIGNWRITING HAND-FIST THUMB UNDER THREE FINGERS", 121088>>,
    <<"SIGNWRITING HAND-FIST THUMB UNDER FOUR FINGERS", 121089>>,
    <<"SIGNWRITING HAND-FIST THUMB OVER FOUR RAISED KNUCKLES", 121090>>,
    <<"SIGNWRITING HAND-FIST", 121091>>, <<"SIGNWRITING HAND-FIST HEEL", 121092>>,
    <<"SIGNWRITING TOUCH SINGLE", 121093>>, <<"SIGNWRITING TOUCH MULTIPLE", 121094>>,
    <<"SIGNWRITING TOUCH BETWEEN", 121095>>, <<"SIGNWRITING GRASP SINGLE", 121096>>,
    <<"SIGNWRITING GRASP MULTIPLE", 121097>>, <<"SIGNWRITING GRASP BETWEEN", 121098>>,
    <<"SIGNWRITING STRIKE SINGLE", 121099>>, <<"SIGNWRITING STRIKE MULTIPLE", 121100>>,
    <<"SIGNWRITING STRIKE BETWEEN", 121101>>, <<"SIGNWRITING BRUSH SINGLE", 121102>>,
    <<"SIGNWRITING BRUSH MULTIPLE", 121103>>, <<"SIGNWRITING BRUSH BETWEEN", 121104>>,
    <<"SIGNWRITING RUB SINGLE", 121105>>, <<"SIGNWRITING RUB MULTIPLE", 121106>>,
    <<"SIGNWRITING RUB BETWEEN", 121107>>, <<"SIGNWRITING SURFACE SYMBOLS", 121108>>,
    <<"SIGNWRITING SURFACE BETWEEN", 121109>>, <<"SIGNWRITING SQUEEZE LARGE SINGLE", 121110>>,
    <<"SIGNWRITING SQUEEZE SMALL SINGLE", 121111>>, <<"SIGNWRITING SQUEEZE LARGE MULTIPLE", 121112>>,
    <<"SIGNWRITING SQUEEZE SMALL MULTIPLE", 121113>>, <<"SIGNWRITING SQUEEZE SEQUENTIAL", 121114>>,
    <<"SIGNWRITING FLICK LARGE SINGLE", 121115>>, <<"SIGNWRITING FLICK SMALL SINGLE", 121116>>,
    <<"SIGNWRITING FLICK LARGE MULTIPLE", 121117>>, <<"SIGNWRITING FLICK SMALL MULTIPLE", 121118>>,
    <<"SIGNWRITING FLICK SEQUENTIAL", 121119>>, <<"SIGNWRITING SQUEEZE FLICK ALTERNATING", 121120>>,
    <<"SIGNWRITING MOVEMENT-HINGE UP DOWN LARGE", 121121>>,
    <<"SIGNWRITING MOVEMENT-HINGE UP DOWN SMALL", 121122>>,
    <<"SIGNWRITING MOVEMENT-HINGE UP SEQUENTIAL", 121123>>,
    <<"SIGNWRITING MOVEMENT-HINGE DOWN SEQUENTIAL", 121124>>,
    <<"SIGNWRITING MOVEMENT-HINGE UP DOWN ALTERNATING LARGE", 121125>>,
    <<"SIGNWRITING MOVEMENT-HINGE UP DOWN ALTERNATING SMALL", 121126>>,
    <<"SIGNWRITING MOVEMENT-HINGE SIDE TO SIDE SCISSORS", 121127>>,
    <<"SIGNWRITING MOVEMENT-WALLPLANE FINGER CONTACT", 121128>>,
    <<"SIGNWRITING MOVEMENT-FLOORPLANE FINGER CONTACT", 121129>>,
    <<"SIGNWRITING MOVEMENT-WALLPLANE SINGLE STRAIGHT SMALL", 121130>>,
    <<"SIGNWRITING MOVEMENT-WALLPLANE SINGLE STRAIGHT MEDIUM", 121131>>,
    <<"SIGNWRITING MOVEMENT-WALLPLANE SINGLE STRAIGHT LARGE", 121132>>,
    <<"SIGNWRITING MOVEMENT-WALLPLANE SINGLE STRAIGHT LARGEST", 121133>>,
    <<"SIGNWRITING MOVEMENT-WALLPLANE SINGLE WRIST FLEX", 121134>>,
    <<"SIGNWRITING MOVEMENT-WALLPLANE DOUBLE STRAIGHT", 121135>>,
    <<"SIGNWRITING MOVEMENT-WALLPLANE DOUBLE WRIST FLEX", 121136>>,
    <<"SIGNWRITING MOVEMENT-WALLPLANE DOUBLE ALTERNATING", 121137>>,
    <<"SIGNWRITING MOVEMENT-WALLPLANE DOUBLE ALTERNATING WRIST FLEX", 121138>>,
    <<"SIGNWRITING MOVEMENT-WALLPLANE CROSS", 121139>>,
    <<"SIGNWRITING MOVEMENT-WALLPLANE TRIPLE STRAIGHT MOVEMENT", 121140>>,
    <<"SIGNWRITING MOVEMENT-WALLPLANE TRIPLE WRIST FLEX", 121141>>,
    <<"SIGNWRITING MOVEMENT-WALLPLANE TRIPLE ALTERNATING", 121142>>,
    <<"SIGNWRITING MOVEMENT-WALLPLANE TRIPLE ALTERNATING WRIST FLEX", 121143>>,
    <<"SIGNWRITING MOVEMENT-WALLPLANE BEND SMALL", 121144>>,
    <<"SIGNWRITING MOVEMENT-WALLPLANE BEND MEDIUM", 121145>>,
    <<"SIGNWRITING MOVEMENT-WALLPLANE BEND LARGE", 121146>>,
    <<"SIGNWRITING MOVEMENT-WALLPLANE CORNER SMALL", 121147>>,
    <<"SIGNWRITING MOVEMENT-WALLPLANE CORNER MEDIUM", 121148>>,
    <<"SIGNWRITING MOVEMENT-WALLPLANE CORNER LARGE", 121149>>,
    <<"SIGNWRITING MOVEMENT-WALLPLANE CORNER ROTATION", 121150>>,
    <<"SIGNWRITING MOVEMENT-WALLPLANE CHECK SMALL", 121151>>,
    <<"SIGNWRITING MOVEMENT-WALLPLANE CHECK MEDIUM", 121152>>,
    <<"SIGNWRITING MOVEMENT-WALLPLANE CHECK LARGE", 121153>>,
    <<"SIGNWRITING MOVEMENT-WALLPLANE BOX SMALL", 121154>>,
    <<"SIGNWRITING MOVEMENT-WALLPLANE BOX MEDIUM", 121155>>,
    <<"SIGNWRITING MOVEMENT-WALLPLANE BOX LARGE", 121156>>,
    <<"SIGNWRITING MOVEMENT-WALLPLANE ZIGZAG SMALL", 121157>>,
    <<"SIGNWRITING MOVEMENT-WALLPLANE ZIGZAG MEDIUM", 121158>>,
    <<"SIGNWRITING MOVEMENT-WALLPLANE ZIGZAG LARGE", 121159>>,
    <<"SIGNWRITING MOVEMENT-WALLPLANE PEAKS SMALL", 121160>>,
    <<"SIGNWRITING MOVEMENT-WALLPLANE PEAKS MEDIUM", 121161>>,
    <<"SIGNWRITING MOVEMENT-WALLPLANE PEAKS LARGE", 121162>>,
    <<"SIGNWRITING TRAVEL-WALLPLANE ROTATION-WALLPLANE SINGLE", 121163>>,
    <<"SIGNWRITING TRAVEL-WALLPLANE ROTATION-WALLPLANE DOUBLE", 121164>>,
    <<"SIGNWRITING TRAVEL-WALLPLANE ROTATION-WALLPLANE ALTERNATING", 121165>>,
    <<"SIGNWRITING TRAVEL-WALLPLANE ROTATION-FLOORPLANE SINGLE", 121166>>,
    <<"SIGNWRITING TRAVEL-WALLPLANE ROTATION-FLOORPLANE DOUBLE", 121167>>,
    <<"SIGNWRITING TRAVEL-WALLPLANE ROTATION-FLOORPLANE ALTERNATING", 121168>>,
    <<"SIGNWRITING TRAVEL-WALLPLANE SHAKING", 121169>>,
    <<"SIGNWRITING TRAVEL-WALLPLANE ARM SPIRAL SINGLE", 121170>>,
    <<"SIGNWRITING TRAVEL-WALLPLANE ARM SPIRAL DOUBLE", 121171>>,
    <<"SIGNWRITING TRAVEL-WALLPLANE ARM SPIRAL TRIPLE", 121172>>,
    <<"SIGNWRITING MOVEMENT-DIAGONAL AWAY SMALL", 121173>>,
    <<"SIGNWRITING MOVEMENT-DIAGONAL AWAY MEDIUM", 121174>>,
    <<"SIGNWRITING MOVEMENT-DIAGONAL AWAY LARGE", 121175>>,
    <<"SIGNWRITING MOVEMENT-DIAGONAL AWAY LARGEST", 121176>>,
    <<"SIGNWRITING MOVEMENT-DIAGONAL TOWARDS SMALL", 121177>>,
    <<"SIGNWRITING MOVEMENT-DIAGONAL TOWARDS MEDIUM", 121178>>,
    <<"SIGNWRITING MOVEMENT-DIAGONAL TOWARDS LARGE", 121179>>,
    <<"SIGNWRITING MOVEMENT-DIAGONAL TOWARDS LARGEST", 121180>>,
    <<"SIGNWRITING MOVEMENT-DIAGONAL BETWEEN AWAY SMALL", 121181>>,
    <<"SIGNWRITING MOVEMENT-DIAGONAL BETWEEN AWAY MEDIUM", 121182>>,
    <<"SIGNWRITING MOVEMENT-DIAGONAL BETWEEN AWAY LARGE", 121183>>,
    <<"SIGNWRITING MOVEMENT-DIAGONAL BETWEEN AWAY LARGEST", 121184>>,
    <<"SIGNWRITING MOVEMENT-DIAGONAL BETWEEN TOWARDS SMALL", 121185>>,
    <<"SIGNWRITING MOVEMENT-DIAGONAL BETWEEN TOWARDS MEDIUM", 121186>>,
    <<"SIGNWRITING MOVEMENT-DIAGONAL BETWEEN TOWARDS LARGE", 121187>>,
    <<"SIGNWRITING MOVEMENT-DIAGONAL BETWEEN TOWARDS LARGEST", 121188>>,
    <<"SIGNWRITING MOVEMENT-FLOORPLANE SINGLE STRAIGHT SMALL", 121189>>,
    <<"SIGNWRITING MOVEMENT-FLOORPLANE SINGLE STRAIGHT MEDIUM", 121190>>,
    <<"SIGNWRITING MOVEMENT-FLOORPLANE SINGLE STRAIGHT LARGE", 121191>>,
    <<"SIGNWRITING MOVEMENT-FLOORPLANE SINGLE STRAIGHT LARGEST", 121192>>,
    <<"SIGNWRITING MOVEMENT-FLOORPLANE SINGLE WRIST FLEX", 121193>>,
    <<"SIGNWRITING MOVEMENT-FLOORPLANE DOUBLE STRAIGHT", 121194>>,
    <<"SIGNWRITING MOVEMENT-FLOORPLANE DOUBLE WRIST FLEX", 121195>>,
    <<"SIGNWRITING MOVEMENT-FLOORPLANE DOUBLE ALTERNATING", 121196>>,
    <<"SIGNWRITING MOVEMENT-FLOORPLANE DOUBLE ALTERNATING WRIST FLEX", 121197>>,
    <<"SIGNWRITING MOVEMENT-FLOORPLANE CROSS", 121198>>,
    <<"SIGNWRITING MOVEMENT-FLOORPLANE TRIPLE STRAIGHT MOVEMENT", 121199>>,
    <<"SIGNWRITING MOVEMENT-FLOORPLANE TRIPLE WRIST FLEX", 121200>>,
    <<"SIGNWRITING MOVEMENT-FLOORPLANE TRIPLE ALTERNATING MOVEMENT", 121201>>,
    <<"SIGNWRITING MOVEMENT-FLOORPLANE TRIPLE ALTERNATING WRIST FLEX", 121202>>,
    <<"SIGNWRITING MOVEMENT-FLOORPLANE BEND", 121203>>,
    <<"SIGNWRITING MOVEMENT-FLOORPLANE CORNER SMALL", 121204>>,
    <<"SIGNWRITING MOVEMENT-FLOORPLANE CORNER MEDIUM", 121205>>,
    <<"SIGNWRITING MOVEMENT-FLOORPLANE CORNER LARGE", 121206>>,
    <<"SIGNWRITING MOVEMENT-FLOORPLANE CHECK", 121207>>,
    <<"SIGNWRITING MOVEMENT-FLOORPLANE BOX SMALL", 121208>>,
    <<"SIGNWRITING MOVEMENT-FLOORPLANE BOX MEDIUM", 121209>>,
    <<"SIGNWRITING MOVEMENT-FLOORPLANE BOX LARGE", 121210>>,
    <<"SIGNWRITING MOVEMENT-FLOORPLANE ZIGZAG SMALL", 121211>>,
    <<"SIGNWRITING MOVEMENT-FLOORPLANE ZIGZAG MEDIUM", 121212>>,
    <<"SIGNWRITING MOVEMENT-FLOORPLANE ZIGZAG LARGE", 121213>>,
    <<"SIGNWRITING MOVEMENT-FLOORPLANE PEAKS SMALL", 121214>>,
    <<"SIGNWRITING MOVEMENT-FLOORPLANE PEAKS MEDIUM", 121215>>,
    <<"SIGNWRITING MOVEMENT-FLOORPLANE PEAKS LARGE", 121216>>,
    <<"SIGNWRITING TRAVEL-FLOORPLANE ROTATION-FLOORPLANE SINGLE", 121217>>,
    <<"SIGNWRITING TRAVEL-FLOORPLANE ROTATION-FLOORPLANE DOUBLE", 121218>>,
    <<"SIGNWRITING TRAVEL-FLOORPLANE ROTATION-FLOORPLANE ALTERNATING", 121219>>,
    <<"SIGNWRITING TRAVEL-FLOORPLANE ROTATION-WALLPLANE SINGLE", 121220>>,
    <<"SIGNWRITING TRAVEL-FLOORPLANE ROTATION-WALLPLANE DOUBLE", 121221>>,
    <<"SIGNWRITING TRAVEL-FLOORPLANE ROTATION-WALLPLANE ALTERNATING", 121222>>,
    <<"SIGNWRITING TRAVEL-FLOORPLANE SHAKING", 121223>>,
    <<"SIGNWRITING MOVEMENT-WALLPLANE CURVE QUARTER SMALL", 121224>>,
    <<"SIGNWRITING MOVEMENT-WALLPLANE CURVE QUARTER MEDIUM", 121225>>,
    <<"SIGNWRITING MOVEMENT-WALLPLANE CURVE QUARTER LARGE", 121226>>,
    <<"SIGNWRITING MOVEMENT-WALLPLANE CURVE QUARTER LARGEST", 121227>>,
    <<"SIGNWRITING MOVEMENT-WALLPLANE CURVE HALF-CIRCLE SMALL", 121228>>,
    <<"SIGNWRITING MOVEMENT-WALLPLANE CURVE HALF-CIRCLE MEDIUM", 121229>>,
    <<"SIGNWRITING MOVEMENT-WALLPLANE CURVE HALF-CIRCLE LARGE", 121230>>,
    <<"SIGNWRITING MOVEMENT-WALLPLANE CURVE HALF-CIRCLE LARGEST", 121231>>,
    <<"SIGNWRITING MOVEMENT-WALLPLANE CURVE THREE-QUARTER CIRCLE SMALL", 121232>>,
    <<"SIGNWRITING MOVEMENT-WALLPLANE CURVE THREE-QUARTER CIRCLE MEDIUM", 121233>>,
    <<"SIGNWRITING MOVEMENT-WALLPLANE HUMP SMALL", 121234>>,
    <<"SIGNWRITING MOVEMENT-WALLPLANE HUMP MEDIUM", 121235>>,
    <<"SIGNWRITING MOVEMENT-WALLPLANE HUMP LARGE", 121236>>,
    <<"SIGNWRITING MOVEMENT-WALLPLANE LOOP SMALL", 121237>>,
    <<"SIGNWRITING MOVEMENT-WALLPLANE LOOP MEDIUM", 121238>>,
    <<"SIGNWRITING MOVEMENT-WALLPLANE LOOP LARGE", 121239>>,
    <<"SIGNWRITING MOVEMENT-WALLPLANE LOOP SMALL DOUBLE", 121240>>,
    <<"SIGNWRITING MOVEMENT-WALLPLANE WAVE CURVE DOUBLE SMALL", 121241>>,
    <<"SIGNWRITING MOVEMENT-WALLPLANE WAVE CURVE DOUBLE MEDIUM", 121242>>,
    <<"SIGNWRITING MOVEMENT-WALLPLANE WAVE CURVE DOUBLE LARGE", 121243>>,
    <<"SIGNWRITING MOVEMENT-WALLPLANE WAVE CURVE TRIPLE SMALL", 121244>>,
    <<"SIGNWRITING MOVEMENT-WALLPLANE WAVE CURVE TRIPLE MEDIUM", 121245>>,
    <<"SIGNWRITING MOVEMENT-WALLPLANE WAVE CURVE TRIPLE LARGE", 121246>>,
    <<"SIGNWRITING MOVEMENT-WALLPLANE CURVE THEN STRAIGHT", 121247>>,
    <<"SIGNWRITING MOVEMENT-WALLPLANE CURVED CROSS SMALL", 121248>>,
    <<"SIGNWRITING MOVEMENT-WALLPLANE CURVED CROSS MEDIUM", 121249>>,
    <<"SIGNWRITING ROTATION-WALLPLANE SINGLE", 121250>>,
    <<"SIGNWRITING ROTATION-WALLPLANE DOUBLE", 121251>>,
    <<"SIGNWRITING ROTATION-WALLPLANE ALTERNATE", 121252>>,
    <<"SIGNWRITING MOVEMENT-WALLPLANE SHAKING", 121253>>,
    <<"SIGNWRITING MOVEMENT-WALLPLANE CURVE HITTING FRONT WALL", 121254>>,
    <<"SIGNWRITING MOVEMENT-WALLPLANE HUMP HITTING FRONT WALL", 121255>>,
    <<"SIGNWRITING MOVEMENT-WALLPLANE LOOP HITTING FRONT WALL", 121256>>,
    <<"SIGNWRITING MOVEMENT-WALLPLANE WAVE HITTING FRONT WALL", 121257>>,
    <<"SIGNWRITING ROTATION-WALLPLANE SINGLE HITTING FRONT WALL", 121258>>,
    <<"SIGNWRITING ROTATION-WALLPLANE DOUBLE HITTING FRONT WALL", 121259>>,
    <<"SIGNWRITING ROTATION-WALLPLANE ALTERNATING HITTING FRONT WALL", 121260>>,
    <<"SIGNWRITING MOVEMENT-WALLPLANE CURVE HITTING CHEST", 121261>>,
    <<"SIGNWRITING MOVEMENT-WALLPLANE HUMP HITTING CHEST", 121262>>,
    <<"SIGNWRITING MOVEMENT-WALLPLANE LOOP HITTING CHEST", 121263>>,
    <<"SIGNWRITING MOVEMENT-WALLPLANE WAVE HITTING CHEST", 121264>>,
    <<"SIGNWRITING ROTATION-WALLPLANE SINGLE HITTING CHEST", 121265>>,
    <<"SIGNWRITING ROTATION-WALLPLANE DOUBLE HITTING CHEST", 121266>>,
    <<"SIGNWRITING ROTATION-WALLPLANE ALTERNATING HITTING CHEST", 121267>>,
    <<"SIGNWRITING MOVEMENT-WALLPLANE WAVE DIAGONAL PATH SMALL", 121268>>,
    <<"SIGNWRITING MOVEMENT-WALLPLANE WAVE DIAGONAL PATH MEDIUM", 121269>>,
    <<"SIGNWRITING MOVEMENT-WALLPLANE WAVE DIAGONAL PATH LARGE", 121270>>,
    <<"SIGNWRITING MOVEMENT-FLOORPLANE CURVE HITTING CEILING SMALL", 121271>>,
    <<"SIGNWRITING MOVEMENT-FLOORPLANE CURVE HITTING CEILING LARGE", 121272>>,
    <<"SIGNWRITING MOVEMENT-FLOORPLANE HUMP HITTING CEILING SMALL DOUBLE", 121273>>,
    <<"SIGNWRITING MOVEMENT-FLOORPLANE HUMP HITTING CEILING LARGE DOUBLE", 121274>>,
    <<"SIGNWRITING MOVEMENT-FLOORPLANE HUMP HITTING CEILING SMALL TRIPLE", 121275>>,
    <<"SIGNWRITING MOVEMENT-FLOORPLANE HUMP HITTING CEILING LARGE TRIPLE", 121276>>,
    <<"SIGNWRITING MOVEMENT-FLOORPLANE LOOP HITTING CEILING SMALL SINGLE", 121277>>,
    <<"SIGNWRITING MOVEMENT-FLOORPLANE LOOP HITTING CEILING LARGE SINGLE", 121278>>,
    <<"SIGNWRITING MOVEMENT-FLOORPLANE LOOP HITTING CEILING SMALL DOUBLE", 121279>>,
    <<"SIGNWRITING MOVEMENT-FLOORPLANE LOOP HITTING CEILING LARGE DOUBLE", 121280>>,
    <<"SIGNWRITING MOVEMENT-FLOORPLANE WAVE HITTING CEILING SMALL", 121281>>,
    <<"SIGNWRITING MOVEMENT-FLOORPLANE WAVE HITTING CEILING LARGE", 121282>>,
    <<"SIGNWRITING ROTATION-FLOORPLANE SINGLE HITTING CEILING", 121283>>,
    <<"SIGNWRITING ROTATION-FLOORPLANE DOUBLE HITTING CEILING", 121284>>,
    <<"SIGNWRITING ROTATION-FLOORPLANE ALTERNATING HITTING CEILING", 121285>>,
    <<"SIGNWRITING MOVEMENT-FLOORPLANE CURVE HITTING FLOOR SMALL", 121286>>,
    <<"SIGNWRITING MOVEMENT-FLOORPLANE CURVE HITTING FLOOR LARGE", 121287>>,
    <<"SIGNWRITING MOVEMENT-FLOORPLANE HUMP HITTING FLOOR SMALL DOUBLE", 121288>>,
    <<"SIGNWRITING MOVEMENT-FLOORPLANE HUMP HITTING FLOOR LARGE DOUBLE", 121289>>,
    <<"SIGNWRITING MOVEMENT-FLOORPLANE HUMP HITTING FLOOR TRIPLE SMALL TRIPLE", 121290>>,
    <<"SIGNWRITING MOVEMENT-FLOORPLANE HUMP HITTING FLOOR TRIPLE LARGE TRIPLE", 121291>>,
    <<"SIGNWRITING MOVEMENT-FLOORPLANE LOOP HITTING FLOOR SMALL SINGLE", 121292>>,
    <<"SIGNWRITING MOVEMENT-FLOORPLANE LOOP HITTING FLOOR LARGE SINGLE", 121293>>,
    <<"SIGNWRITING MOVEMENT-FLOORPLANE LOOP HITTING FLOOR SMALL DOUBLE", 121294>>,
    <<"SIGNWRITING MOVEMENT-FLOORPLANE LOOP HITTING FLOOR LARGE DOUBLE", 121295>>,
    <<"SIGNWRITING MOVEMENT-FLOORPLANE WAVE HITTING FLOOR SMALL", 121296>>,
    <<"SIGNWRITING MOVEMENT-FLOORPLANE WAVE HITTING FLOOR LARGE", 121297>>,
    <<"SIGNWRITING ROTATION-FLOORPLANE SINGLE HITTING FLOOR", 121298>>,
    <<"SIGNWRITING ROTATION-FLOORPLANE DOUBLE HITTING FLOOR", 121299>>,
    <<"SIGNWRITING ROTATION-FLOORPLANE ALTERNATING HITTING FLOOR", 121300>>,
    <<"SIGNWRITING MOVEMENT-FLOORPLANE CURVE SMALL", 121301>>,
    <<"SIGNWRITING MOVEMENT-FLOORPLANE CURVE MEDIUM", 121302>>,
    <<"SIGNWRITING MOVEMENT-FLOORPLANE CURVE LARGE", 121303>>,
    <<"SIGNWRITING MOVEMENT-FLOORPLANE CURVE LARGEST", 121304>>,
    <<"SIGNWRITING MOVEMENT-FLOORPLANE CURVE COMBINED", 121305>>,
    <<"SIGNWRITING MOVEMENT-FLOORPLANE HUMP SMALL", 121306>>,
    <<"SIGNWRITING MOVEMENT-FLOORPLANE LOOP SMALL", 121307>>,
    <<"SIGNWRITING MOVEMENT-FLOORPLANE WAVE SNAKE", 121308>>,
    <<"SIGNWRITING MOVEMENT-FLOORPLANE WAVE SMALL", 121309>>,
    <<"SIGNWRITING MOVEMENT-FLOORPLANE WAVE LARGE", 121310>>,
    <<"SIGNWRITING ROTATION-FLOORPLANE SINGLE", 121311>>,
    <<"SIGNWRITING ROTATION-FLOORPLANE DOUBLE", 121312>>,
    <<"SIGNWRITING ROTATION-FLOORPLANE ALTERNATING", 121313>>,
    <<"SIGNWRITING MOVEMENT-FLOORPLANE SHAKING PARALLEL", 121314>>,
    <<"SIGNWRITING MOVEMENT-WALLPLANE ARM CIRCLE SMALL SINGLE", 121315>>,
    <<"SIGNWRITING MOVEMENT-WALLPLANE ARM CIRCLE MEDIUM SINGLE", 121316>>,
    <<"SIGNWRITING MOVEMENT-WALLPLANE ARM CIRCLE SMALL DOUBLE", 121317>>,
    <<"SIGNWRITING MOVEMENT-WALLPLANE ARM CIRCLE MEDIUM DOUBLE", 121318>>,
    <<"SIGNWRITING MOVEMENT-FLOORPLANE ARM CIRCLE HITTING WALL SMALL SINGLE", 121319>>,
    <<"SIGNWRITING MOVEMENT-FLOORPLANE ARM CIRCLE HITTING WALL MEDIUM SINGLE", 121320>>,
    <<"SIGNWRITING MOVEMENT-FLOORPLANE ARM CIRCLE HITTING WALL LARGE SINGLE", 121321>>,
    <<"SIGNWRITING MOVEMENT-FLOORPLANE ARM CIRCLE HITTING WALL SMALL DOUBLE", 121322>>,
    <<"SIGNWRITING MOVEMENT-FLOORPLANE ARM CIRCLE HITTING WALL MEDIUM DOUBLE", 121323>>,
    <<"SIGNWRITING MOVEMENT-FLOORPLANE ARM CIRCLE HITTING WALL LARGE DOUBLE", 121324>>,
    <<"SIGNWRITING MOVEMENT-WALLPLANE WRIST CIRCLE FRONT SINGLE", 121325>>,
    <<"SIGNWRITING MOVEMENT-WALLPLANE WRIST CIRCLE FRONT DOUBLE", 121326>>,
    <<"SIGNWRITING MOVEMENT-FLOORPLANE WRIST CIRCLE HITTING WALL SINGLE", 121327>>,
    <<"SIGNWRITING MOVEMENT-FLOORPLANE WRIST CIRCLE HITTING WALL DOUBLE", 121328>>,
    <<"SIGNWRITING MOVEMENT-WALLPLANE FINGER CIRCLES SINGLE", 121329>>,
    <<"SIGNWRITING MOVEMENT-WALLPLANE FINGER CIRCLES DOUBLE", 121330>>,
    <<"SIGNWRITING MOVEMENT-FLOORPLANE FINGER CIRCLES HITTING WALL SINGLE", 121331>>,
    <<"SIGNWRITING MOVEMENT-FLOORPLANE FINGER CIRCLES HITTING WALL DOUBLE", 121332>>,
    <<"SIGNWRITING DYNAMIC ARROWHEAD SMALL", 121333>>,
    <<"SIGNWRITING DYNAMIC ARROWHEAD LARGE", 121334>>, <<"SIGNWRITING DYNAMIC FAST", 121335>>,
    <<"SIGNWRITING DYNAMIC SLOW", 121336>>, <<"SIGNWRITING DYNAMIC TENSE", 121337>>,
    <<"SIGNWRITING DYNAMIC RELAXED", 121338>>, <<"SIGNWRITING DYNAMIC SIMULTANEOUS", 121339>>,
    <<"SIGNWRITING DYNAMIC SIMULTANEOUS ALTERNATING", 121340>>,
    <<"SIGNWRITING DYNAMIC EVERY OTHER TIME", 121341>>, <<"SIGNWRITING DYNAMIC GRADUAL", 121342>>,
    <<"SIGNWRITING HEAD", 121343>>, <<"SIGNWRITING HEAD RIM", 121344>>,
    <<"SIGNWRITING HEAD MOVEMENT-WALLPLANE STRAIGHT", 121345>>,
    <<"SIGNWRITING HEAD MOVEMENT-WALLPLANE TILT", 121346>>,
    <<"SIGNWRITING HEAD MOVEMENT-FLOORPLANE STRAIGHT", 121347>>,
    <<"SIGNWRITING HEAD MOVEMENT-WALLPLANE CURVE", 121348>>,
    <<"SIGNWRITING HEAD MOVEMENT-FLOORPLANE CURVE", 121349>>,
    <<"SIGNWRITING HEAD MOVEMENT CIRCLE", 121350>>,
    <<"SIGNWRITING FACE DIRECTION POSITION NOSE FORWARD TILTING", 121351>>,
    <<"SIGNWRITING FACE DIRECTION POSITION NOSE UP OR DOWN", 121352>>,
    <<"SIGNWRITING FACE DIRECTION POSITION NOSE UP OR DOWN TILTING", 121353>>,
    <<"SIGNWRITING EYEBROWS STRAIGHT UP", 121354>>,
    <<"SIGNWRITING EYEBROWS STRAIGHT NEUTRAL", 121355>>,
    <<"SIGNWRITING EYEBROWS STRAIGHT DOWN", 121356>>,
    <<"SIGNWRITING DREAMY EYEBROWS NEUTRAL DOWN", 121357>>,
    <<"SIGNWRITING DREAMY EYEBROWS DOWN NEUTRAL", 121358>>,
    <<"SIGNWRITING DREAMY EYEBROWS UP NEUTRAL", 121359>>,
    <<"SIGNWRITING DREAMY EYEBROWS NEUTRAL UP", 121360>>, <<"SIGNWRITING FOREHEAD NEUTRAL", 121361>>,
    <<"SIGNWRITING FOREHEAD CONTACT", 121362>>, <<"SIGNWRITING FOREHEAD WRINKLED", 121363>>,
    <<"SIGNWRITING EYES OPEN", 121364>>, <<"SIGNWRITING EYES SQUEEZED", 121365>>,
    <<"SIGNWRITING EYES CLOSED", 121366>>, <<"SIGNWRITING EYE BLINK SINGLE", 121367>>,
    <<"SIGNWRITING EYE BLINK MULTIPLE", 121368>>, <<"SIGNWRITING EYES HALF OPEN", 121369>>,
    <<"SIGNWRITING EYES WIDE OPEN", 121370>>, <<"SIGNWRITING EYES HALF CLOSED", 121371>>,
    <<"SIGNWRITING EYES WIDENING MOVEMENT", 121372>>, <<"SIGNWRITING EYE WINK", 121373>>,
    <<"SIGNWRITING EYELASHES UP", 121374>>, <<"SIGNWRITING EYELASHES DOWN", 121375>>,
    <<"SIGNWRITING EYELASHES FLUTTERING", 121376>>,
    <<"SIGNWRITING EYEGAZE-WALLPLANE STRAIGHT", 121377>>,
    <<"SIGNWRITING EYEGAZE-WALLPLANE STRAIGHT DOUBLE", 121378>>,
    <<"SIGNWRITING EYEGAZE-WALLPLANE STRAIGHT ALTERNATING", 121379>>,
    <<"SIGNWRITING EYEGAZE-FLOORPLANE STRAIGHT", 121380>>,
    <<"SIGNWRITING EYEGAZE-FLOORPLANE STRAIGHT DOUBLE", 121381>>,
    <<"SIGNWRITING EYEGAZE-FLOORPLANE STRAIGHT ALTERNATING", 121382>>,
    <<"SIGNWRITING EYEGAZE-WALLPLANE CURVED", 121383>>,
    <<"SIGNWRITING EYEGAZE-FLOORPLANE CURVED", 121384>>,
    <<"SIGNWRITING EYEGAZE-WALLPLANE CIRCLING", 121385>>, <<"SIGNWRITING CHEEKS PUFFED", 121386>>,
    <<"SIGNWRITING CHEEKS NEUTRAL", 121387>>, <<"SIGNWRITING CHEEKS SUCKED", 121388>>,
    <<"SIGNWRITING TENSE CHEEKS HIGH", 121389>>, <<"SIGNWRITING TENSE CHEEKS MIDDLE", 121390>>,
    <<"SIGNWRITING TENSE CHEEKS LOW", 121391>>, <<"SIGNWRITING EARS", 121392>>,
    <<"SIGNWRITING NOSE NEUTRAL", 121393>>, <<"SIGNWRITING NOSE CONTACT", 121394>>,
    <<"SIGNWRITING NOSE WRINKLES", 121395>>, <<"SIGNWRITING NOSE WIGGLES", 121396>>,
    <<"SIGNWRITING AIR BLOWING OUT", 121397>>, <<"SIGNWRITING AIR SUCKING IN", 121398>>,
    <<"SIGNWRITING AIR BLOW SMALL ROTATIONS", 121399>>,
    <<"SIGNWRITING AIR SUCK SMALL ROTATIONS", 121400>>, <<"SIGNWRITING BREATH INHALE", 121401>>,
    <<"SIGNWRITING BREATH EXHALE", 121402>>, <<"SIGNWRITING MOUTH CLOSED NEUTRAL", 121403>>,
    <<"SIGNWRITING MOUTH CLOSED FORWARD", 121404>>, <<"SIGNWRITING MOUTH CLOSED CONTACT", 121405>>,
    <<"SIGNWRITING MOUTH SMILE", 121406>>, <<"SIGNWRITING MOUTH SMILE WRINKLED", 121407>>,
    <<"SIGNWRITING MOUTH SMILE OPEN", 121408>>, <<"SIGNWRITING MOUTH FROWN", 121409>>,
    <<"SIGNWRITING MOUTH FROWN WRINKLED", 121410>>, <<"SIGNWRITING MOUTH FROWN OPEN", 121411>>,
    <<"SIGNWRITING MOUTH OPEN CIRCLE", 121412>>, <<"SIGNWRITING MOUTH OPEN FORWARD", 121413>>,
    <<"SIGNWRITING MOUTH OPEN WRINKLED", 121414>>, <<"SIGNWRITING MOUTH OPEN OVAL", 121415>>,
    <<"SIGNWRITING MOUTH OPEN OVAL WRINKLED", 121416>>, <<"SIGNWRITING MOUTH OPEN OVAL YAWN", 121417>>,
    <<"SIGNWRITING MOUTH OPEN RECTANGLE", 121418>>,
    <<"SIGNWRITING MOUTH OPEN RECTANGLE WRINKLED", 121419>>,
    <<"SIGNWRITING MOUTH OPEN RECTANGLE YAWN", 121420>>, <<"SIGNWRITING MOUTH KISS", 121421>>,
    <<"SIGNWRITING MOUTH KISS FORWARD", 121422>>, <<"SIGNWRITING MOUTH KISS WRINKLED", 121423>>,
    <<"SIGNWRITING MOUTH TENSE", 121424>>, <<"SIGNWRITING MOUTH TENSE FORWARD", 121425>>,
    <<"SIGNWRITING MOUTH TENSE SUCKED", 121426>>, <<"SIGNWRITING LIPS PRESSED TOGETHER", 121427>>,
    <<"SIGNWRITING LIP LOWER OVER UPPER", 121428>>, <<"SIGNWRITING LIP UPPER OVER LOWER", 121429>>,
    <<"SIGNWRITING MOUTH CORNERS", 121430>>, <<"SIGNWRITING MOUTH WRINKLES SINGLE", 121431>>,
    <<"SIGNWRITING MOUTH WRINKLES DOUBLE", 121432>>, <<"SIGNWRITING TONGUE STICKING OUT FAR", 121433>>,
    <<"SIGNWRITING TONGUE LICKING LIPS", 121434>>, <<"SIGNWRITING TONGUE TIP BETWEEN LIPS", 121435>>,
    <<"SIGNWRITING TONGUE TIP TOUCHING INSIDE MOUTH", 121436>>,
    <<"SIGNWRITING TONGUE INSIDE MOUTH RELAXED", 121437>>,
    <<"SIGNWRITING TONGUE MOVES AGAINST CHEEK", 121438>>,
    <<"SIGNWRITING TONGUE CENTRE STICKING OUT", 121439>>,
    <<"SIGNWRITING TONGUE CENTRE INSIDE MOUTH", 121440>>, <<"SIGNWRITING TEETH", 121441>>,
    <<"SIGNWRITING TEETH MOVEMENT", 121442>>, <<"SIGNWRITING TEETH ON TONGUE", 121443>>,
    <<"SIGNWRITING TEETH ON TONGUE MOVEMENT", 121444>>, <<"SIGNWRITING TEETH ON LIPS", 121445>>,
    <<"SIGNWRITING TEETH ON LIPS MOVEMENT", 121446>>, <<"SIGNWRITING TEETH BITE LIPS", 121447>>,
    <<"SIGNWRITING MOVEMENT-WALLPLANE JAW", 121448>>,
    <<"SIGNWRITING MOVEMENT-FLOORPLANE JAW", 121449>>, <<"SIGNWRITING NECK", 121450>>,
    <<"SIGNWRITING HAIR", 121451>>, <<"SIGNWRITING EXCITEMENT", 121452>>,
    <<"SIGNWRITING SHOULDER HIP SPINE", 121453>>, <<"SIGNWRITING SHOULDER HIP POSITIONS", 121454>>,
    <<"SIGNWRITING WALLPLANE SHOULDER HIP MOVE", 121455>>,
    <<"SIGNWRITING FLOORPLANE SHOULDER HIP MOVE", 121456>>,
    <<"SIGNWRITING SHOULDER TILTING FROM WAIST", 121457>>,
    <<"SIGNWRITING TORSO-WALLPLANE STRAIGHT STRETCH", 121458>>,
    <<"SIGNWRITING TORSO-WALLPLANE CURVED BEND", 121459>>,
    <<"SIGNWRITING TORSO-FLOORPLANE TWISTING", 121460>>,
    <<"SIGNWRITING UPPER BODY TILTING FROM HIP JOINTS", 121461>>,
    <<"SIGNWRITING LIMB COMBINATION", 121462>>, <<"SIGNWRITING LIMB LENGTH-1", 121463>>,
    <<"SIGNWRITING LIMB LENGTH-2", 121464>>, <<"SIGNWRITING LIMB LENGTH-3", 121465>>,
    <<"SIGNWRITING LIMB LENGTH-4", 121466>>, <<"SIGNWRITING LIMB LENGTH-5", 121467>>,
    <<"SIGNWRITING LIMB LENGTH-6", 121468>>, <<"SIGNWRITING LIMB LENGTH-7", 121469>>,
    <<"SIGNWRITING FINGER", 121470>>, <<"SIGNWRITING LOCATION-WALLPLANE SPACE", 121471>>,
    <<"SIGNWRITING LOCATION-FLOORPLANE SPACE", 121472>>, <<"SIGNWRITING LOCATION HEIGHT", 121473>>,
    <<"SIGNWRITING LOCATION WIDTH", 121474>>, <<"SIGNWRITING LOCATION DEPTH", 121475>>,
    <<"SIGNWRITING LOCATION HEAD NECK", 121476>>, <<"SIGNWRITING LOCATION TORSO", 121477>>,
    <<"SIGNWRITING LOCATION LIMBS DIGITS", 121478>>, <<"SIGNWRITING COMMA", 121479>>,
    <<"SIGNWRITING FULL STOP", 121480>>, <<"SIGNWRITING SEMICOLON", 121481>>,
    <<"SIGNWRITING COLON", 121482>>, <<"SIGNWRITING PARENTHESIS", 121483>>,
    <<"SIGNWRITING FILL MODIFIER-2", 121499>>, <<"SIGNWRITING FILL MODIFIER-3", 121500>>,
    <<"SIGNWRITING FILL MODIFIER-4", 121501>>, <<"SIGNWRITING FILL MODIFIER-5", 121502>>,
    <<"SIGNWRITING FILL MODIFIER-6", 121503>>, <<"SIGNWRITING ROTATION MODIFIER-2", 121505>>,
    <<"SIGNWRITING ROTATION MODIFIER-3", 121506>>, <<"SIGNWRITING ROTATION MODIFIER-4", 121507>>,
    <<"SIGNWRITING ROTATION MODIFIER-5", 121508>>, <<"SIGNWRITING ROTATION MODIFIER-6", 121509>>,
    <<"SIGNWRITING ROTATION MODIFIER-7", 121510>>, <<"SIGNWRITING ROTATION MODIFIER-8", 121511>>,
    <<"SIGNWRITING ROTATION MODIFIER-9", 121512>>, <<"SIGNWRITING ROTATION MODIFIER-10", 121513>>,
    <<"SIGNWRITING ROTATION MODIFIER-11", 121514>>, <<"SIGNWRITING ROTATION MODIFIER-12", 121515>>,
    <<"SIGNWRITING ROTATION MODIFIER-13", 121516>>, <<"SIGNWRITING ROTATION MODIFIER-14", 121517>>,
    <<"SIGNWRITING ROTATION MODIFIER-15", 121518>>, <<"SIGNWRITING ROTATION MODIFIER-16", 121519>>,
    <<"LATIN SMALL LETTER FENG DIGRAPH WITH TRILL", 122624>>,
    <<"LATIN SMALL LETTER REVERSED SCRIPT G", 122625>>,
    <<"LATIN LETTER SMALL CAPITAL TURNED G", 122626>>, <<"LATIN SMALL LETTER REVERSED K", 122627>>,
    <<"LATIN LETTER SMALL CAPITAL L WITH BELT", 122628>>,
    <<"LATIN SMALL LETTER LEZH WITH RETROFLEX HOOK", 122629>>,
    <<"LATIN SMALL LETTER TURNED Y WITH BELT", 122630>>, <<"LATIN SMALL LETTER REVERSED ENG", 122631>>,
    <<"LATIN SMALL LETTER TURNED R WITH LONG LEG AND RETROFLEX HOOK", 122632>>,
    <<"LATIN SMALL LETTER T WITH HOOK AND RETROFLEX HOOK", 122633>>,
    <<"LATIN LETTER RETROFLEX CLICK WITH RETROFLEX HOOK", 122634>>,
    <<"LATIN SMALL LETTER ESH WITH DOUBLE BAR", 122635>>,
    <<"LATIN SMALL LETTER ESH WITH DOUBLE BAR AND CURL", 122636>>,
    <<"LATIN SMALL LETTER TURNED T WITH CURL", 122637>>,
    <<"LATIN LETTER INVERTED GLOTTAL STOP WITH CURL", 122638>>,
    <<"LATIN LETTER STRETCHED C WITH CURL", 122639>>,
    <<"LATIN LETTER SMALL CAPITAL TURNED K", 122640>>,
    <<"LATIN SMALL LETTER L WITH FISHHOOK", 122641>>,
    <<"LATIN SMALL LETTER DEZH DIGRAPH WITH PALATAL HOOK", 122642>>,
    <<"LATIN SMALL LETTER L WITH BELT AND PALATAL HOOK", 122643>>,
    <<"LATIN SMALL LETTER ENG WITH PALATAL HOOK", 122644>>,
    <<"LATIN SMALL LETTER TURNED R WITH PALATAL HOOK", 122645>>,
    <<"LATIN SMALL LETTER R WITH FISHHOOK AND PALATAL HOOK", 122646>>,
    <<"LATIN SMALL LETTER TESH DIGRAPH WITH PALATAL HOOK", 122647>>,
    <<"LATIN SMALL LETTER EZH WITH PALATAL HOOK", 122648>>,
    <<"LATIN SMALL LETTER DEZH DIGRAPH WITH RETROFLEX HOOK", 122649>>,
    <<"LATIN SMALL LETTER I WITH STROKE AND RETROFLEX HOOK", 122650>>,
    <<"LATIN SMALL LETTER O WITH RETROFLEX HOOK", 122651>>,
    <<"LATIN SMALL LETTER TESH DIGRAPH WITH RETROFLEX HOOK", 122652>>,
    <<"LATIN SMALL LETTER C WITH RETROFLEX HOOK", 122653>>,
    <<"LATIN SMALL LETTER S WITH CURL", 122654>>, <<"COMBINING GLAGOLITIC LETTER AZU", 122880>>,
    <<"COMBINING GLAGOLITIC LETTER BUKY", 122881>>, <<"COMBINING GLAGOLITIC LETTER VEDE", 122882>>,
    <<"COMBINING GLAGOLITIC LETTER GLAGOLI", 122883>>, <<"COMBINING GLAGOLITIC LETTER DOBRO", 122884>>,
    <<"COMBINING GLAGOLITIC LETTER YESTU", 122885>>, <<"COMBINING GLAGOLITIC LETTER ZHIVETE", 122886>>,
    <<"COMBINING GLAGOLITIC LETTER ZEMLJA", 122888>>, <<"COMBINING GLAGOLITIC LETTER IZHE", 122889>>,
    <<"COMBINING GLAGOLITIC LETTER INITIAL IZHE", 122890>>,
    <<"COMBINING GLAGOLITIC LETTER I", 122891>>, <<"COMBINING GLAGOLITIC LETTER DJERVI", 122892>>,
    <<"COMBINING GLAGOLITIC LETTER KAKO", 122893>>, <<"COMBINING GLAGOLITIC LETTER LJUDIJE", 122894>>,
    <<"COMBINING GLAGOLITIC LETTER MYSLITE", 122895>>, <<"COMBINING GLAGOLITIC LETTER NASHI", 122896>>,
    <<"COMBINING GLAGOLITIC LETTER ONU", 122897>>, <<"COMBINING GLAGOLITIC LETTER POKOJI", 122898>>,
    <<"COMBINING GLAGOLITIC LETTER RITSI", 122899>>, <<"COMBINING GLAGOLITIC LETTER SLOVO", 122900>>,
    <<"COMBINING GLAGOLITIC LETTER TVRIDO", 122901>>, <<"COMBINING GLAGOLITIC LETTER UKU", 122902>>,
    <<"COMBINING GLAGOLITIC LETTER FRITU", 122903>>, <<"COMBINING GLAGOLITIC LETTER HERU", 122904>>,
    <<"COMBINING GLAGOLITIC LETTER SHTA", 122907>>, <<"COMBINING GLAGOLITIC LETTER TSI", 122908>>,
    <<"COMBINING GLAGOLITIC LETTER CHRIVI", 122909>>, <<"COMBINING GLAGOLITIC LETTER SHA", 122910>>,
    <<"COMBINING GLAGOLITIC LETTER YERU", 122911>>, <<"COMBINING GLAGOLITIC LETTER YERI", 122912>>,
    <<"COMBINING GLAGOLITIC LETTER YATI", 122913>>, <<"COMBINING GLAGOLITIC LETTER YU", 122915>>,
    <<"COMBINING GLAGOLITIC LETTER SMALL YUS", 122916>>, <<"COMBINING GLAGOLITIC LETTER YO", 122918>>,
    <<"COMBINING GLAGOLITIC LETTER IOTATED SMALL YUS", 122919>>,
    <<"COMBINING GLAGOLITIC LETTER BIG YUS", 122920>>,
    <<"COMBINING GLAGOLITIC LETTER IOTATED BIG YUS", 122921>>,
    <<"COMBINING GLAGOLITIC LETTER FITA", 122922>>, <<"NYIAKENG PUACHUE HMONG LETTER MA", 123136>>,
    <<"NYIAKENG PUACHUE HMONG LETTER TSA", 123137>>, <<"NYIAKENG PUACHUE HMONG LETTER NTA", 123138>>,
    <<"NYIAKENG PUACHUE HMONG LETTER TA", 123139>>, <<"NYIAKENG PUACHUE HMONG LETTER HA", 123140>>,
    <<"NYIAKENG PUACHUE HMONG LETTER NA", 123141>>, <<"NYIAKENG PUACHUE HMONG LETTER XA", 123142>>,
    <<"NYIAKENG PUACHUE HMONG LETTER NKA", 123143>>, <<"NYIAKENG PUACHUE HMONG LETTER CA", 123144>>,
    <<"NYIAKENG PUACHUE HMONG LETTER LA", 123145>>, <<"NYIAKENG PUACHUE HMONG LETTER SA", 123146>>,
    <<"NYIAKENG PUACHUE HMONG LETTER ZA", 123147>>, <<"NYIAKENG PUACHUE HMONG LETTER NCA", 123148>>,
    <<"NYIAKENG PUACHUE HMONG LETTER NTSA", 123149>>, <<"NYIAKENG PUACHUE HMONG LETTER KA", 123150>>,
    <<"NYIAKENG PUACHUE HMONG LETTER DA", 123151>>, <<"NYIAKENG PUACHUE HMONG LETTER NYA", 123152>>,
    <<"NYIAKENG PUACHUE HMONG LETTER NRA", 123153>>, <<"NYIAKENG PUACHUE HMONG LETTER VA", 123154>>,
    <<"NYIAKENG PUACHUE HMONG LETTER NTXA", 123155>>, <<"NYIAKENG PUACHUE HMONG LETTER TXA", 123156>>,
    <<"NYIAKENG PUACHUE HMONG LETTER FA", 123157>>, <<"NYIAKENG PUACHUE HMONG LETTER RA", 123158>>,
    <<"NYIAKENG PUACHUE HMONG LETTER QA", 123159>>, <<"NYIAKENG PUACHUE HMONG LETTER YA", 123160>>,
    <<"NYIAKENG PUACHUE HMONG LETTER NQA", 123161>>, <<"NYIAKENG PUACHUE HMONG LETTER PA", 123162>>,
    <<"NYIAKENG PUACHUE HMONG LETTER XYA", 123163>>, <<"NYIAKENG PUACHUE HMONG LETTER NPA", 123164>>,
    <<"NYIAKENG PUACHUE HMONG LETTER DLA", 123165>>, <<"NYIAKENG PUACHUE HMONG LETTER NPLA", 123166>>,
    <<"NYIAKENG PUACHUE HMONG LETTER HAH", 123167>>, <<"NYIAKENG PUACHUE HMONG LETTER MLA", 123168>>,
    <<"NYIAKENG PUACHUE HMONG LETTER PLA", 123169>>, <<"NYIAKENG PUACHUE HMONG LETTER GA", 123170>>,
    <<"NYIAKENG PUACHUE HMONG LETTER RRA", 123171>>, <<"NYIAKENG PUACHUE HMONG LETTER A", 123172>>,
    <<"NYIAKENG PUACHUE HMONG LETTER AA", 123173>>, <<"NYIAKENG PUACHUE HMONG LETTER I", 123174>>,
    <<"NYIAKENG PUACHUE HMONG LETTER U", 123175>>, <<"NYIAKENG PUACHUE HMONG LETTER O", 123176>>,
    <<"NYIAKENG PUACHUE HMONG LETTER OO", 123177>>, <<"NYIAKENG PUACHUE HMONG LETTER E", 123178>>,
    <<"NYIAKENG PUACHUE HMONG LETTER EE", 123179>>, <<"NYIAKENG PUACHUE HMONG LETTER W", 123180>>,
    <<"NYIAKENG PUACHUE HMONG TONE-B", 123184>>, <<"NYIAKENG PUACHUE HMONG TONE-M", 123185>>,
    <<"NYIAKENG PUACHUE HMONG TONE-J", 123186>>, <<"NYIAKENG PUACHUE HMONG TONE-V", 123187>>,
    <<"NYIAKENG PUACHUE HMONG TONE-S", 123188>>, <<"NYIAKENG PUACHUE HMONG TONE-G", 123189>>,
    <<"NYIAKENG PUACHUE HMONG TONE-D", 123190>>, <<"NYIAKENG PUACHUE HMONG SIGN FOR PERSON", 123191>>,
    <<"NYIAKENG PUACHUE HMONG SIGN FOR THING", 123192>>,
    <<"NYIAKENG PUACHUE HMONG SIGN FOR LOCATION", 123193>>,
    <<"NYIAKENG PUACHUE HMONG SIGN FOR ANIMAL", 123194>>,
    <<"NYIAKENG PUACHUE HMONG SIGN FOR INVERTEBRATE", 123195>>,
    <<"NYIAKENG PUACHUE HMONG SIGN XW XW", 123196>>,
    <<"NYIAKENG PUACHUE HMONG SYLLABLE LENGTHENER", 123197>>,
    <<"NYIAKENG PUACHUE HMONG DIGIT ZERO", 123200>>, <<"NYIAKENG PUACHUE HMONG DIGIT ONE", 123201>>,
    <<"NYIAKENG PUACHUE HMONG DIGIT TWO", 123202>>, <<"NYIAKENG PUACHUE HMONG DIGIT THREE", 123203>>,
    <<"NYIAKENG PUACHUE HMONG DIGIT FOUR", 123204>>, <<"NYIAKENG PUACHUE HMONG DIGIT FIVE", 123205>>,
    <<"NYIAKENG PUACHUE HMONG DIGIT SIX", 123206>>, <<"NYIAKENG PUACHUE HMONG DIGIT SEVEN", 123207>>,
    <<"NYIAKENG PUACHUE HMONG DIGIT EIGHT", 123208>>, <<"NYIAKENG PUACHUE HMONG DIGIT NINE", 123209>>,
    <<"NYIAKENG PUACHUE HMONG LOGOGRAM NYAJ", 123214>>,
    <<"NYIAKENG PUACHUE HMONG CIRCLED CA", 123215>>, <<"TOTO LETTER PA", 123536>>,
    <<"TOTO LETTER BA", 123537>>, <<"TOTO LETTER TA", 123538>>, <<"TOTO LETTER DA", 123539>>,
    <<"TOTO LETTER KA", 123540>>, <<"TOTO LETTER GA", 123541>>, <<"TOTO LETTER MA", 123542>>,
    <<"TOTO LETTER NA", 123543>>, <<"TOTO LETTER NGA", 123544>>, <<"TOTO LETTER SA", 123545>>,
    <<"TOTO LETTER CHA", 123546>>, <<"TOTO LETTER YA", 123547>>, <<"TOTO LETTER WA", 123548>>,
    <<"TOTO LETTER JA", 123549>>, <<"TOTO LETTER HA", 123550>>, <<"TOTO LETTER RA", 123551>>,
    <<"TOTO LETTER LA", 123552>>, <<"TOTO LETTER I", 123553>>, <<"TOTO LETTER BREATHY I", 123554>>,
    <<"TOTO LETTER IU", 123555>>, <<"TOTO LETTER BREATHY IU", 123556>>, <<"TOTO LETTER U", 123557>>,
    <<"TOTO LETTER E", 123558>>, <<"TOTO LETTER BREATHY E", 123559>>, <<"TOTO LETTER EO", 123560>>,
    <<"TOTO LETTER BREATHY EO", 123561>>, <<"TOTO LETTER O", 123562>>, <<"TOTO LETTER AE", 123563>>,
    <<"TOTO LETTER BREATHY AE", 123564>>, <<"TOTO LETTER A", 123565>>,
    <<"TOTO SIGN RISING TONE", 123566>>, <<"WANCHO LETTER AA", 123584>>, <<"WANCHO LETTER A", 123585>>,
    <<"WANCHO LETTER BA", 123586>>, <<"WANCHO LETTER CA", 123587>>, <<"WANCHO LETTER DA", 123588>>,
    <<"WANCHO LETTER GA", 123589>>, <<"WANCHO LETTER YA", 123590>>, <<"WANCHO LETTER PHA", 123591>>,
    <<"WANCHO LETTER LA", 123592>>, <<"WANCHO LETTER NA", 123593>>, <<"WANCHO LETTER PA", 123594>>,
    <<"WANCHO LETTER TA", 123595>>, <<"WANCHO LETTER THA", 123596>>, <<"WANCHO LETTER FA", 123597>>,
    <<"WANCHO LETTER SA", 123598>>, <<"WANCHO LETTER SHA", 123599>>, <<"WANCHO LETTER JA", 123600>>,
    <<"WANCHO LETTER ZA", 123601>>, <<"WANCHO LETTER WA", 123602>>, <<"WANCHO LETTER VA", 123603>>,
    <<"WANCHO LETTER KA", 123604>>, <<"WANCHO LETTER O", 123605>>, <<"WANCHO LETTER AU", 123606>>,
    <<"WANCHO LETTER RA", 123607>>, <<"WANCHO LETTER MA", 123608>>, <<"WANCHO LETTER KHA", 123609>>,
    <<"WANCHO LETTER HA", 123610>>, <<"WANCHO LETTER E", 123611>>, <<"WANCHO LETTER I", 123612>>,
    <<"WANCHO LETTER NGA", 123613>>, <<"WANCHO LETTER U", 123614>>, <<"WANCHO LETTER LLHA", 123615>>,
    <<"WANCHO LETTER TSA", 123616>>, <<"WANCHO LETTER TRA", 123617>>, <<"WANCHO LETTER ONG", 123618>>,
    <<"WANCHO LETTER AANG", 123619>>, <<"WANCHO LETTER ANG", 123620>>, <<"WANCHO LETTER ING", 123621>>,
    <<"WANCHO LETTER ON", 123622>>, <<"WANCHO LETTER EN", 123623>>, <<"WANCHO LETTER AAN", 123624>>,
    <<"WANCHO LETTER NYA", 123625>>, <<"WANCHO LETTER UEN", 123626>>, <<"WANCHO LETTER YIH", 123627>>,
    <<"WANCHO TONE TUP", 123628>>, <<"WANCHO TONE TUPNI", 123629>>, <<"WANCHO TONE KOI", 123630>>,
    <<"WANCHO TONE KOINI", 123631>>, <<"WANCHO DIGIT ZERO", 123632>>, <<"WANCHO DIGIT ONE", 123633>>,
    <<"WANCHO DIGIT TWO", 123634>>, <<"WANCHO DIGIT THREE", 123635>>, <<"WANCHO DIGIT FOUR", 123636>>,
    <<"WANCHO DIGIT FIVE", 123637>>, <<"WANCHO DIGIT SIX", 123638>>, <<"WANCHO DIGIT SEVEN", 123639>>,
    <<"WANCHO DIGIT EIGHT", 123640>>, <<"WANCHO DIGIT NINE", 123641>>, <<"WANCHO NGUN SIGN", 123647>>,
    <<"ETHIOPIC SYLLABLE HHYA", 124896>>, <<"ETHIOPIC SYLLABLE HHYU", 124897>>,
    <<"ETHIOPIC SYLLABLE HHYI", 124898>>, <<"ETHIOPIC SYLLABLE HHYAA", 124899>>,
    <<"ETHIOPIC SYLLABLE HHYEE", 124900>>, <<"ETHIOPIC SYLLABLE HHYE", 124901>>,
    <<"ETHIOPIC SYLLABLE HHYO", 124902>>, <<"ETHIOPIC SYLLABLE GURAGE HHWA", 124904>>,
    <<"ETHIOPIC SYLLABLE HHWI", 124905>>, <<"ETHIOPIC SYLLABLE HHWEE", 124906>>,
    <<"ETHIOPIC SYLLABLE HHWE", 124907>>, <<"ETHIOPIC SYLLABLE GURAGE MWI", 124909>>,
    <<"ETHIOPIC SYLLABLE GURAGE MWEE", 124910>>, <<"ETHIOPIC SYLLABLE GURAGE QWI", 124912>>,
    <<"ETHIOPIC SYLLABLE GURAGE QWEE", 124913>>, <<"ETHIOPIC SYLLABLE GURAGE QWE", 124914>>,
    <<"ETHIOPIC SYLLABLE GURAGE BWI", 124915>>, <<"ETHIOPIC SYLLABLE GURAGE BWEE", 124916>>,
    <<"ETHIOPIC SYLLABLE GURAGE KWI", 124917>>, <<"ETHIOPIC SYLLABLE GURAGE KWEE", 124918>>,
    <<"ETHIOPIC SYLLABLE GURAGE KWE", 124919>>, <<"ETHIOPIC SYLLABLE GURAGE GWI", 124920>>,
    <<"ETHIOPIC SYLLABLE GURAGE GWEE", 124921>>, <<"ETHIOPIC SYLLABLE GURAGE GWE", 124922>>,
    <<"ETHIOPIC SYLLABLE GURAGE FWI", 124923>>, <<"ETHIOPIC SYLLABLE GURAGE FWEE", 124924>>,
    <<"ETHIOPIC SYLLABLE GURAGE PWI", 124925>>, <<"ETHIOPIC SYLLABLE GURAGE PWEE", 124926>>,
    <<"MENDE KIKAKUI SYLLABLE M001 KI", 124928>>, <<"MENDE KIKAKUI SYLLABLE M002 KA", 124929>>,
    <<"MENDE KIKAKUI SYLLABLE M003 KU", 124930>>, <<"MENDE KIKAKUI SYLLABLE M065 KEE", 124931>>,
    <<"MENDE KIKAKUI SYLLABLE M095 KE", 124932>>, <<"MENDE KIKAKUI SYLLABLE M076 KOO", 124933>>,
    <<"MENDE KIKAKUI SYLLABLE M048 KO", 124934>>, <<"MENDE KIKAKUI SYLLABLE M179 KUA", 124935>>,
    <<"MENDE KIKAKUI SYLLABLE M004 WI", 124936>>, <<"MENDE KIKAKUI SYLLABLE M005 WA", 124937>>,
    <<"MENDE KIKAKUI SYLLABLE M006 WU", 124938>>, <<"MENDE KIKAKUI SYLLABLE M126 WEE", 124939>>,
    <<"MENDE KIKAKUI SYLLABLE M118 WE", 124940>>, <<"MENDE KIKAKUI SYLLABLE M114 WOO", 124941>>,
    <<"MENDE KIKAKUI SYLLABLE M045 WO", 124942>>, <<"MENDE KIKAKUI SYLLABLE M194 WUI", 124943>>,
    <<"MENDE KIKAKUI SYLLABLE M143 WEI", 124944>>, <<"MENDE KIKAKUI SYLLABLE M061 WVI", 124945>>,
    <<"MENDE KIKAKUI SYLLABLE M049 WVA", 124946>>, <<"MENDE KIKAKUI SYLLABLE M139 WVE", 124947>>,
    <<"MENDE KIKAKUI SYLLABLE M007 MIN", 124948>>, <<"MENDE KIKAKUI SYLLABLE M008 MAN", 124949>>,
    <<"MENDE KIKAKUI SYLLABLE M009 MUN", 124950>>, <<"MENDE KIKAKUI SYLLABLE M059 MEN", 124951>>,
    <<"MENDE KIKAKUI SYLLABLE M094 MON", 124952>>, <<"MENDE KIKAKUI SYLLABLE M154 MUAN", 124953>>,
    <<"MENDE KIKAKUI SYLLABLE M189 MUEN", 124954>>, <<"MENDE KIKAKUI SYLLABLE M010 BI", 124955>>,
    <<"MENDE KIKAKUI SYLLABLE M011 BA", 124956>>, <<"MENDE KIKAKUI SYLLABLE M012 BU", 124957>>,
    <<"MENDE KIKAKUI SYLLABLE M150 BEE", 124958>>, <<"MENDE KIKAKUI SYLLABLE M097 BE", 124959>>,
    <<"MENDE KIKAKUI SYLLABLE M103 BOO", 124960>>, <<"MENDE KIKAKUI SYLLABLE M138 BO", 124961>>,
    <<"MENDE KIKAKUI SYLLABLE M013 I", 124962>>, <<"MENDE KIKAKUI SYLLABLE M014 A", 124963>>,
    <<"MENDE KIKAKUI SYLLABLE M015 U", 124964>>, <<"MENDE KIKAKUI SYLLABLE M163 EE", 124965>>,
    <<"MENDE KIKAKUI SYLLABLE M100 E", 124966>>, <<"MENDE KIKAKUI SYLLABLE M165 OO", 124967>>,
    <<"MENDE KIKAKUI SYLLABLE M147 O", 124968>>, <<"MENDE KIKAKUI SYLLABLE M137 EI", 124969>>,
    <<"MENDE KIKAKUI SYLLABLE M131 IN", 124970>>, <<"MENDE KIKAKUI SYLLABLE M135 IN", 124971>>,
    <<"MENDE KIKAKUI SYLLABLE M195 AN", 124972>>, <<"MENDE KIKAKUI SYLLABLE M178 EN", 124973>>,
    <<"MENDE KIKAKUI SYLLABLE M019 SI", 124974>>, <<"MENDE KIKAKUI SYLLABLE M020 SA", 124975>>,
    <<"MENDE KIKAKUI SYLLABLE M021 SU", 124976>>, <<"MENDE KIKAKUI SYLLABLE M162 SEE", 124977>>,
    <<"MENDE KIKAKUI SYLLABLE M116 SE", 124978>>, <<"MENDE KIKAKUI SYLLABLE M136 SOO", 124979>>,
    <<"MENDE KIKAKUI SYLLABLE M079 SO", 124980>>, <<"MENDE KIKAKUI SYLLABLE M196 SIA", 124981>>,
    <<"MENDE KIKAKUI SYLLABLE M025 LI", 124982>>, <<"MENDE KIKAKUI SYLLABLE M026 LA", 124983>>,
    <<"MENDE KIKAKUI SYLLABLE M027 LU", 124984>>, <<"MENDE KIKAKUI SYLLABLE M084 LEE", 124985>>,
    <<"MENDE KIKAKUI SYLLABLE M073 LE", 124986>>, <<"MENDE KIKAKUI SYLLABLE M054 LOO", 124987>>,
    <<"MENDE KIKAKUI SYLLABLE M153 LO", 124988>>, <<"MENDE KIKAKUI SYLLABLE M110 LONG LE", 124989>>,
    <<"MENDE KIKAKUI SYLLABLE M016 DI", 124990>>, <<"MENDE KIKAKUI SYLLABLE M017 DA", 124991>>,
    <<"MENDE KIKAKUI SYLLABLE M018 DU", 124992>>, <<"MENDE KIKAKUI SYLLABLE M089 DEE", 124993>>,
    <<"MENDE KIKAKUI SYLLABLE M180 DOO", 124994>>, <<"MENDE KIKAKUI SYLLABLE M181 DO", 124995>>,
    <<"MENDE KIKAKUI SYLLABLE M022 TI", 124996>>, <<"MENDE KIKAKUI SYLLABLE M023 TA", 124997>>,
    <<"MENDE KIKAKUI SYLLABLE M024 TU", 124998>>, <<"MENDE KIKAKUI SYLLABLE M091 TEE", 124999>>,
    <<"MENDE KIKAKUI SYLLABLE M055 TE", 125000>>, <<"MENDE KIKAKUI SYLLABLE M104 TOO", 125001>>,
    <<"MENDE KIKAKUI SYLLABLE M069 TO", 125002>>, <<"MENDE KIKAKUI SYLLABLE M028 JI", 125003>>,
    <<"MENDE KIKAKUI SYLLABLE M029 JA", 125004>>, <<"MENDE KIKAKUI SYLLABLE M030 JU", 125005>>,
    <<"MENDE KIKAKUI SYLLABLE M157 JEE", 125006>>, <<"MENDE KIKAKUI SYLLABLE M113 JE", 125007>>,
    <<"MENDE KIKAKUI SYLLABLE M160 JOO", 125008>>, <<"MENDE KIKAKUI SYLLABLE M063 JO", 125009>>,
    <<"MENDE KIKAKUI SYLLABLE M175 LONG JO", 125010>>, <<"MENDE KIKAKUI SYLLABLE M031 YI", 125011>>,
    <<"MENDE KIKAKUI SYLLABLE M032 YA", 125012>>, <<"MENDE KIKAKUI SYLLABLE M033 YU", 125013>>,
    <<"MENDE KIKAKUI SYLLABLE M109 YEE", 125014>>, <<"MENDE KIKAKUI SYLLABLE M080 YE", 125015>>,
    <<"MENDE KIKAKUI SYLLABLE M141 YOO", 125016>>, <<"MENDE KIKAKUI SYLLABLE M121 YO", 125017>>,
    <<"MENDE KIKAKUI SYLLABLE M034 FI", 125018>>, <<"MENDE KIKAKUI SYLLABLE M035 FA", 125019>>,
    <<"MENDE KIKAKUI SYLLABLE M036 FU", 125020>>, <<"MENDE KIKAKUI SYLLABLE M078 FEE", 125021>>,
    <<"MENDE KIKAKUI SYLLABLE M075 FE", 125022>>, <<"MENDE KIKAKUI SYLLABLE M133 FOO", 125023>>,
    <<"MENDE KIKAKUI SYLLABLE M088 FO", 125024>>, <<"MENDE KIKAKUI SYLLABLE M197 FUA", 125025>>,
    <<"MENDE KIKAKUI SYLLABLE M101 FAN", 125026>>, <<"MENDE KIKAKUI SYLLABLE M037 NIN", 125027>>,
    <<"MENDE KIKAKUI SYLLABLE M038 NAN", 125028>>, <<"MENDE KIKAKUI SYLLABLE M039 NUN", 125029>>,
    <<"MENDE KIKAKUI SYLLABLE M117 NEN", 125030>>, <<"MENDE KIKAKUI SYLLABLE M169 NON", 125031>>,
    <<"MENDE KIKAKUI SYLLABLE M176 HI", 125032>>, <<"MENDE KIKAKUI SYLLABLE M041 HA", 125033>>,
    <<"MENDE KIKAKUI SYLLABLE M186 HU", 125034>>, <<"MENDE KIKAKUI SYLLABLE M040 HEE", 125035>>,
    <<"MENDE KIKAKUI SYLLABLE M096 HE", 125036>>, <<"MENDE KIKAKUI SYLLABLE M042 HOO", 125037>>,
    <<"MENDE KIKAKUI SYLLABLE M140 HO", 125038>>, <<"MENDE KIKAKUI SYLLABLE M083 HEEI", 125039>>,
    <<"MENDE KIKAKUI SYLLABLE M128 HOOU", 125040>>, <<"MENDE KIKAKUI SYLLABLE M053 HIN", 125041>>,
    <<"MENDE KIKAKUI SYLLABLE M130 HAN", 125042>>, <<"MENDE KIKAKUI SYLLABLE M087 HUN", 125043>>,
    <<"MENDE KIKAKUI SYLLABLE M052 HEN", 125044>>, <<"MENDE KIKAKUI SYLLABLE M193 HON", 125045>>,
    <<"MENDE KIKAKUI SYLLABLE M046 HUAN", 125046>>, <<"MENDE KIKAKUI SYLLABLE M090 NGGI", 125047>>,
    <<"MENDE KIKAKUI SYLLABLE M043 NGGA", 125048>>, <<"MENDE KIKAKUI SYLLABLE M082 NGGU", 125049>>,
    <<"MENDE KIKAKUI SYLLABLE M115 NGGEE", 125050>>, <<"MENDE KIKAKUI SYLLABLE M146 NGGE", 125051>>,
    <<"MENDE KIKAKUI SYLLABLE M156 NGGOO", 125052>>, <<"MENDE KIKAKUI SYLLABLE M120 NGGO", 125053>>,
    <<"MENDE KIKAKUI SYLLABLE M159 NGGAA", 125054>>, <<"MENDE KIKAKUI SYLLABLE M127 NGGUA", 125055>>,
    <<"MENDE KIKAKUI SYLLABLE M086 LONG NGGE", 125056>>,
    <<"MENDE KIKAKUI SYLLABLE M106 LONG NGGOO", 125057>>,
    <<"MENDE KIKAKUI SYLLABLE M183 LONG NGGO", 125058>>, <<"MENDE KIKAKUI SYLLABLE M155 GI", 125059>>,
    <<"MENDE KIKAKUI SYLLABLE M111 GA", 125060>>, <<"MENDE KIKAKUI SYLLABLE M168 GU", 125061>>,
    <<"MENDE KIKAKUI SYLLABLE M190 GEE", 125062>>, <<"MENDE KIKAKUI SYLLABLE M166 GUEI", 125063>>,
    <<"MENDE KIKAKUI SYLLABLE M167 GUAN", 125064>>, <<"MENDE KIKAKUI SYLLABLE M184 NGEN", 125065>>,
    <<"MENDE KIKAKUI SYLLABLE M057 NGON", 125066>>, <<"MENDE KIKAKUI SYLLABLE M177 NGUAN", 125067>>,
    <<"MENDE KIKAKUI SYLLABLE M068 PI", 125068>>, <<"MENDE KIKAKUI SYLLABLE M099 PA", 125069>>,
    <<"MENDE KIKAKUI SYLLABLE M050 PU", 125070>>, <<"MENDE KIKAKUI SYLLABLE M081 PEE", 125071>>,
    <<"MENDE KIKAKUI SYLLABLE M051 PE", 125072>>, <<"MENDE KIKAKUI SYLLABLE M102 POO", 125073>>,
    <<"MENDE KIKAKUI SYLLABLE M066 PO", 125074>>, <<"MENDE KIKAKUI SYLLABLE M145 MBI", 125075>>,
    <<"MENDE KIKAKUI SYLLABLE M062 MBA", 125076>>, <<"MENDE KIKAKUI SYLLABLE M122 MBU", 125077>>,
    <<"MENDE KIKAKUI SYLLABLE M047 MBEE", 125078>>, <<"MENDE KIKAKUI SYLLABLE M188 MBEE", 125079>>,
    <<"MENDE KIKAKUI SYLLABLE M072 MBE", 125080>>, <<"MENDE KIKAKUI SYLLABLE M172 MBOO", 125081>>,
    <<"MENDE KIKAKUI SYLLABLE M174 MBO", 125082>>, <<"MENDE KIKAKUI SYLLABLE M187 MBUU", 125083>>,
    <<"MENDE KIKAKUI SYLLABLE M161 LONG MBE", 125084>>,
    <<"MENDE KIKAKUI SYLLABLE M105 LONG MBOO", 125085>>,
    <<"MENDE KIKAKUI SYLLABLE M142 LONG MBO", 125086>>, <<"MENDE KIKAKUI SYLLABLE M132 KPI", 125087>>,
    <<"MENDE KIKAKUI SYLLABLE M092 KPA", 125088>>, <<"MENDE KIKAKUI SYLLABLE M074 KPU", 125089>>,
    <<"MENDE KIKAKUI SYLLABLE M044 KPEE", 125090>>, <<"MENDE KIKAKUI SYLLABLE M108 KPE", 125091>>,
    <<"MENDE KIKAKUI SYLLABLE M112 KPOO", 125092>>, <<"MENDE KIKAKUI SYLLABLE M158 KPO", 125093>>,
    <<"MENDE KIKAKUI SYLLABLE M124 GBI", 125094>>, <<"MENDE KIKAKUI SYLLABLE M056 GBA", 125095>>,
    <<"MENDE KIKAKUI SYLLABLE M148 GBU", 125096>>, <<"MENDE KIKAKUI SYLLABLE M093 GBEE", 125097>>,
    <<"MENDE KIKAKUI SYLLABLE M107 GBE", 125098>>, <<"MENDE KIKAKUI SYLLABLE M071 GBOO", 125099>>,
    <<"MENDE KIKAKUI SYLLABLE M070 GBO", 125100>>, <<"MENDE KIKAKUI SYLLABLE M171 RA", 125101>>,
    <<"MENDE KIKAKUI SYLLABLE M123 NDI", 125102>>, <<"MENDE KIKAKUI SYLLABLE M129 NDA", 125103>>,
    <<"MENDE KIKAKUI SYLLABLE M125 NDU", 125104>>, <<"MENDE KIKAKUI SYLLABLE M191 NDEE", 125105>>,
    <<"MENDE KIKAKUI SYLLABLE M119 NDE", 125106>>, <<"MENDE KIKAKUI SYLLABLE M067 NDOO", 125107>>,
    <<"MENDE KIKAKUI SYLLABLE M064 NDO", 125108>>, <<"MENDE KIKAKUI SYLLABLE M152 NJA", 125109>>,
    <<"MENDE KIKAKUI SYLLABLE M192 NJU", 125110>>, <<"MENDE KIKAKUI SYLLABLE M149 NJEE", 125111>>,
    <<"MENDE KIKAKUI SYLLABLE M134 NJOO", 125112>>, <<"MENDE KIKAKUI SYLLABLE M182 VI", 125113>>,
    <<"MENDE KIKAKUI SYLLABLE M185 VA", 125114>>, <<"MENDE KIKAKUI SYLLABLE M151 VU", 125115>>,
    <<"MENDE KIKAKUI SYLLABLE M173 VEE", 125116>>, <<"MENDE KIKAKUI SYLLABLE M085 VE", 125117>>,
    <<"MENDE KIKAKUI SYLLABLE M144 VOO", 125118>>, <<"MENDE KIKAKUI SYLLABLE M077 VO", 125119>>,
    <<"MENDE KIKAKUI SYLLABLE M164 NYIN", 125120>>, <<"MENDE KIKAKUI SYLLABLE M058 NYAN", 125121>>,
    <<"MENDE KIKAKUI SYLLABLE M170 NYUN", 125122>>, <<"MENDE KIKAKUI SYLLABLE M098 NYEN", 125123>>,
    <<"MENDE KIKAKUI SYLLABLE M060 NYON", 125124>>, <<"MENDE KIKAKUI DIGIT ONE", 125127>>,
    <<"MENDE KIKAKUI DIGIT TWO", 125128>>, <<"MENDE KIKAKUI DIGIT THREE", 125129>>,
    <<"MENDE KIKAKUI DIGIT FOUR", 125130>>, <<"MENDE KIKAKUI DIGIT FIVE", 125131>>,
    <<"MENDE KIKAKUI DIGIT SIX", 125132>>, <<"MENDE KIKAKUI DIGIT SEVEN", 125133>>,
    <<"MENDE KIKAKUI DIGIT EIGHT", 125134>>, <<"MENDE KIKAKUI DIGIT NINE", 125135>>,
    <<"MENDE KIKAKUI COMBINING NUMBER TEENS", 125136>>,
    <<"MENDE KIKAKUI COMBINING NUMBER TENS", 125137>>,
    <<"MENDE KIKAKUI COMBINING NUMBER HUNDREDS", 125138>>,
    <<"MENDE KIKAKUI COMBINING NUMBER THOUSANDS", 125139>>,
    <<"MENDE KIKAKUI COMBINING NUMBER TEN THOUSANDS", 125140>>,
    <<"MENDE KIKAKUI COMBINING NUMBER HUNDRED THOUSANDS", 125141>>,
    <<"MENDE KIKAKUI COMBINING NUMBER MILLIONS", 125142>>, <<"ADLAM CAPITAL LETTER ALIF", 125184>>,
    <<"ADLAM CAPITAL LETTER DAALI", 125185>>, <<"ADLAM CAPITAL LETTER LAAM", 125186>>,
    <<"ADLAM CAPITAL LETTER MIIM", 125187>>, <<"ADLAM CAPITAL LETTER BA", 125188>>,
    <<"ADLAM CAPITAL LETTER SINNYIIYHE", 125189>>, <<"ADLAM CAPITAL LETTER PE", 125190>>,
    <<"ADLAM CAPITAL LETTER BHE", 125191>>, <<"ADLAM CAPITAL LETTER RA", 125192>>,
    <<"ADLAM CAPITAL LETTER E", 125193>>, <<"ADLAM CAPITAL LETTER FA", 125194>>,
    <<"ADLAM CAPITAL LETTER I", 125195>>, <<"ADLAM CAPITAL LETTER O", 125196>>,
    <<"ADLAM CAPITAL LETTER DHA", 125197>>, <<"ADLAM CAPITAL LETTER YHE", 125198>>,
    <<"ADLAM CAPITAL LETTER WAW", 125199>>, <<"ADLAM CAPITAL LETTER NUN", 125200>>,
    <<"ADLAM CAPITAL LETTER KAF", 125201>>, <<"ADLAM CAPITAL LETTER YA", 125202>>,
    <<"ADLAM CAPITAL LETTER U", 125203>>, <<"ADLAM CAPITAL LETTER JIIM", 125204>>,
    <<"ADLAM CAPITAL LETTER CHI", 125205>>, <<"ADLAM CAPITAL LETTER HA", 125206>>,
    <<"ADLAM CAPITAL LETTER QAAF", 125207>>, <<"ADLAM CAPITAL LETTER GA", 125208>>,
    <<"ADLAM CAPITAL LETTER NYA", 125209>>, <<"ADLAM CAPITAL LETTER TU", 125210>>,
    <<"ADLAM CAPITAL LETTER NHA", 125211>>, <<"ADLAM CAPITAL LETTER VA", 125212>>,
    <<"ADLAM CAPITAL LETTER KHA", 125213>>, <<"ADLAM CAPITAL LETTER GBE", 125214>>,
    <<"ADLAM CAPITAL LETTER ZAL", 125215>>, <<"ADLAM CAPITAL LETTER KPO", 125216>>,
    <<"ADLAM CAPITAL LETTER SHA", 125217>>, <<"ADLAM SMALL LETTER ALIF", 125218>>,
    <<"ADLAM SMALL LETTER DAALI", 125219>>, <<"ADLAM SMALL LETTER LAAM", 125220>>,
    <<"ADLAM SMALL LETTER MIIM", 125221>>, <<"ADLAM SMALL LETTER BA", 125222>>,
    <<"ADLAM SMALL LETTER SINNYIIYHE", 125223>>, <<"ADLAM SMALL LETTER PE", 125224>>,
    <<"ADLAM SMALL LETTER BHE", 125225>>, <<"ADLAM SMALL LETTER RA", 125226>>,
    <<"ADLAM SMALL LETTER E", 125227>>, <<"ADLAM SMALL LETTER FA", 125228>>,
    <<"ADLAM SMALL LETTER I", 125229>>, <<"ADLAM SMALL LETTER O", 125230>>,
    <<"ADLAM SMALL LETTER DHA", 125231>>, <<"ADLAM SMALL LETTER YHE", 125232>>,
    <<"ADLAM SMALL LETTER WAW", 125233>>, <<"ADLAM SMALL LETTER NUN", 125234>>,
    <<"ADLAM SMALL LETTER KAF", 125235>>, <<"ADLAM SMALL LETTER YA", 125236>>,
    <<"ADLAM SMALL LETTER U", 125237>>, <<"ADLAM SMALL LETTER JIIM", 125238>>,
    <<"ADLAM SMALL LETTER CHI", 125239>>, <<"ADLAM SMALL LETTER HA", 125240>>,
    <<"ADLAM SMALL LETTER QAAF", 125241>>, <<"ADLAM SMALL LETTER GA", 125242>>,
    <<"ADLAM SMALL LETTER NYA", 125243>>, <<"ADLAM SMALL LETTER TU", 125244>>,
    <<"ADLAM SMALL LETTER NHA", 125245>>, <<"ADLAM SMALL LETTER VA", 125246>>,
    <<"ADLAM SMALL LETTER KHA", 125247>>, <<"ADLAM SMALL LETTER GBE", 125248>>,
    <<"ADLAM SMALL LETTER ZAL", 125249>>, <<"ADLAM SMALL LETTER KPO", 125250>>,
    <<"ADLAM SMALL LETTER SHA", 125251>>, <<"ADLAM ALIF LENGTHENER", 125252>>,
    <<"ADLAM VOWEL LENGTHENER", 125253>>, <<"ADLAM GEMINATION MARK", 125254>>,
    <<"ADLAM HAMZA", 125255>>, <<"ADLAM CONSONANT MODIFIER", 125256>>,
    <<"ADLAM GEMINATE CONSONANT MODIFIER", 125257>>, <<"ADLAM NUKTA", 125258>>,
    <<"ADLAM NASALIZATION MARK", 125259>>, <<"ADLAM DIGIT ZERO", 125264>>,
    <<"ADLAM DIGIT ONE", 125265>>, <<"ADLAM DIGIT TWO", 125266>>, <<"ADLAM DIGIT THREE", 125267>>,
    <<"ADLAM DIGIT FOUR", 125268>>, <<"ADLAM DIGIT FIVE", 125269>>, <<"ADLAM DIGIT SIX", 125270>>,
    <<"ADLAM DIGIT SEVEN", 125271>>, <<"ADLAM DIGIT EIGHT", 125272>>, <<"ADLAM DIGIT NINE", 125273>>,
    <<"ADLAM INITIAL EXCLAMATION MARK", 125278>>, <<"ADLAM INITIAL QUESTION MARK", 125279>>,
    <<"INDIC SIYAQ NUMBER ONE", 126065>>, <<"INDIC SIYAQ NUMBER TWO", 126066>>,
    <<"INDIC SIYAQ NUMBER THREE", 126067>>, <<"INDIC SIYAQ NUMBER FOUR", 126068>>,
    <<"INDIC SIYAQ NUMBER FIVE", 126069>>, <<"INDIC SIYAQ NUMBER SIX", 126070>>,
    <<"INDIC SIYAQ NUMBER SEVEN", 126071>>, <<"INDIC SIYAQ NUMBER EIGHT", 126072>>,
    <<"INDIC SIYAQ NUMBER NINE", 126073>>, <<"INDIC SIYAQ NUMBER TEN", 126074>>,
    <<"INDIC SIYAQ NUMBER TWENTY", 126075>>, <<"INDIC SIYAQ NUMBER THIRTY", 126076>>,
    <<"INDIC SIYAQ NUMBER FORTY", 126077>>, <<"INDIC SIYAQ NUMBER FIFTY", 126078>>,
    <<"INDIC SIYAQ NUMBER SIXTY", 126079>>, <<"INDIC SIYAQ NUMBER SEVENTY", 126080>>,
    <<"INDIC SIYAQ NUMBER EIGHTY", 126081>>, <<"INDIC SIYAQ NUMBER NINETY", 126082>>,
    <<"INDIC SIYAQ NUMBER ONE HUNDRED", 126083>>, <<"INDIC SIYAQ NUMBER TWO HUNDRED", 126084>>,
    <<"INDIC SIYAQ NUMBER THREE HUNDRED", 126085>>, <<"INDIC SIYAQ NUMBER FOUR HUNDRED", 126086>>,
    <<"INDIC SIYAQ NUMBER FIVE HUNDRED", 126087>>, <<"INDIC SIYAQ NUMBER SIX HUNDRED", 126088>>,
    <<"INDIC SIYAQ NUMBER SEVEN HUNDRED", 126089>>, <<"INDIC SIYAQ NUMBER EIGHT HUNDRED", 126090>>,
    <<"INDIC SIYAQ NUMBER NINE HUNDRED", 126091>>, <<"INDIC SIYAQ NUMBER ONE THOUSAND", 126092>>,
    <<"INDIC SIYAQ NUMBER TWO THOUSAND", 126093>>, <<"INDIC SIYAQ NUMBER THREE THOUSAND", 126094>>,
    <<"INDIC SIYAQ NUMBER FOUR THOUSAND", 126095>>, <<"INDIC SIYAQ NUMBER FIVE THOUSAND", 126096>>,
    <<"INDIC SIYAQ NUMBER SIX THOUSAND", 126097>>, <<"INDIC SIYAQ NUMBER SEVEN THOUSAND", 126098>>,
    <<"INDIC SIYAQ NUMBER EIGHT THOUSAND", 126099>>, <<"INDIC SIYAQ NUMBER NINE THOUSAND", 126100>>,
    <<"INDIC SIYAQ NUMBER TEN THOUSAND", 126101>>, <<"INDIC SIYAQ NUMBER TWENTY THOUSAND", 126102>>,
    <<"INDIC SIYAQ NUMBER THIRTY THOUSAND", 126103>>, <<"INDIC SIYAQ NUMBER FORTY THOUSAND", 126104>>,
    <<"INDIC SIYAQ NUMBER FIFTY THOUSAND", 126105>>, <<"INDIC SIYAQ NUMBER SIXTY THOUSAND", 126106>>,
    <<"INDIC SIYAQ NUMBER SEVENTY THOUSAND", 126107>>,
    <<"INDIC SIYAQ NUMBER EIGHTY THOUSAND", 126108>>, <<"INDIC SIYAQ NUMBER NINETY THOUSAND", 126109>>,
    <<"INDIC SIYAQ NUMBER LAKH", 126110>>, <<"INDIC SIYAQ NUMBER LAKHAN", 126111>>,
    <<"INDIC SIYAQ LAKH MARK", 126112>>, <<"INDIC SIYAQ NUMBER KAROR", 126113>>,
    <<"INDIC SIYAQ NUMBER KARORAN", 126114>>, <<"INDIC SIYAQ NUMBER PREFIXED ONE", 126115>>,
    <<"INDIC SIYAQ NUMBER PREFIXED TWO", 126116>>, <<"INDIC SIYAQ NUMBER PREFIXED THREE", 126117>>,
    <<"INDIC SIYAQ NUMBER PREFIXED FOUR", 126118>>, <<"INDIC SIYAQ NUMBER PREFIXED FIVE", 126119>>,
    <<"INDIC SIYAQ NUMBER PREFIXED SIX", 126120>>, <<"INDIC SIYAQ NUMBER PREFIXED SEVEN", 126121>>,
    <<"INDIC SIYAQ NUMBER PREFIXED EIGHT", 126122>>, <<"INDIC SIYAQ NUMBER PREFIXED NINE", 126123>>,
    <<"INDIC SIYAQ PLACEHOLDER", 126124>>, <<"INDIC SIYAQ FRACTION ONE QUARTER", 126125>>,
    <<"INDIC SIYAQ FRACTION ONE HALF", 126126>>, <<"INDIC SIYAQ FRACTION THREE QUARTERS", 126127>>,
    <<"INDIC SIYAQ RUPEE MARK", 126128>>, <<"INDIC SIYAQ NUMBER ALTERNATE ONE", 126129>>,
    <<"INDIC SIYAQ NUMBER ALTERNATE TWO", 126130>>,
    <<"INDIC SIYAQ NUMBER ALTERNATE TEN THOUSAND", 126131>>,
    <<"INDIC SIYAQ ALTERNATE LAKH MARK", 126132>>, <<"OTTOMAN SIYAQ NUMBER ONE", 126209>>,
    <<"OTTOMAN SIYAQ NUMBER TWO", 126210>>, <<"OTTOMAN SIYAQ NUMBER THREE", 126211>>,
    <<"OTTOMAN SIYAQ NUMBER FOUR", 126212>>, <<"OTTOMAN SIYAQ NUMBER FIVE", 126213>>,
    <<"OTTOMAN SIYAQ NUMBER SIX", 126214>>, <<"OTTOMAN SIYAQ NUMBER SEVEN", 126215>>,
    <<"OTTOMAN SIYAQ NUMBER EIGHT", 126216>>, <<"OTTOMAN SIYAQ NUMBER NINE", 126217>>,
    <<"OTTOMAN SIYAQ NUMBER TEN", 126218>>, <<"OTTOMAN SIYAQ NUMBER TWENTY", 126219>>,
    <<"OTTOMAN SIYAQ NUMBER THIRTY", 126220>>, <<"OTTOMAN SIYAQ NUMBER FORTY", 126221>>,
    <<"OTTOMAN SIYAQ NUMBER FIFTY", 126222>>, <<"OTTOMAN SIYAQ NUMBER SIXTY", 126223>>,
    <<"OTTOMAN SIYAQ NUMBER SEVENTY", 126224>>, <<"OTTOMAN SIYAQ NUMBER EIGHTY", 126225>>,
    <<"OTTOMAN SIYAQ NUMBER NINETY", 126226>>, <<"OTTOMAN SIYAQ NUMBER ONE HUNDRED", 126227>>,
    <<"OTTOMAN SIYAQ NUMBER TWO HUNDRED", 126228>>, <<"OTTOMAN SIYAQ NUMBER THREE HUNDRED", 126229>>,
    <<"OTTOMAN SIYAQ NUMBER FOUR HUNDRED", 126230>>, <<"OTTOMAN SIYAQ NUMBER FIVE HUNDRED", 126231>>,
    <<"OTTOMAN SIYAQ NUMBER SIX HUNDRED", 126232>>, <<"OTTOMAN SIYAQ NUMBER SEVEN HUNDRED", 126233>>,
    <<"OTTOMAN SIYAQ NUMBER EIGHT HUNDRED", 126234>>, <<"OTTOMAN SIYAQ NUMBER NINE HUNDRED", 126235>>,
    <<"OTTOMAN SIYAQ NUMBER ONE THOUSAND", 126236>>, <<"OTTOMAN SIYAQ NUMBER TWO THOUSAND", 126237>>,
    <<"OTTOMAN SIYAQ NUMBER THREE THOUSAND", 126238>>,
    <<"OTTOMAN SIYAQ NUMBER FOUR THOUSAND", 126239>>, <<"OTTOMAN SIYAQ NUMBER FIVE THOUSAND", 126240>>,
    <<"OTTOMAN SIYAQ NUMBER SIX THOUSAND", 126241>>, <<"OTTOMAN SIYAQ NUMBER SEVEN THOUSAND", 126242>>,
    <<"OTTOMAN SIYAQ NUMBER EIGHT THOUSAND", 126243>>,
    <<"OTTOMAN SIYAQ NUMBER NINE THOUSAND", 126244>>, <<"OTTOMAN SIYAQ NUMBER TEN THOUSAND", 126245>>,
    <<"OTTOMAN SIYAQ NUMBER TWENTY THOUSAND", 126246>>,
    <<"OTTOMAN SIYAQ NUMBER THIRTY THOUSAND", 126247>>,
    <<"OTTOMAN SIYAQ NUMBER FORTY THOUSAND", 126248>>,
    <<"OTTOMAN SIYAQ NUMBER FIFTY THOUSAND", 126249>>,
    <<"OTTOMAN SIYAQ NUMBER SIXTY THOUSAND", 126250>>,
    <<"OTTOMAN SIYAQ NUMBER SEVENTY THOUSAND", 126251>>,
    <<"OTTOMAN SIYAQ NUMBER EIGHTY THOUSAND", 126252>>,
    <<"OTTOMAN SIYAQ NUMBER NINETY THOUSAND", 126253>>, <<"OTTOMAN SIYAQ MARRATAN", 126254>>,
    <<"OTTOMAN SIYAQ ALTERNATE NUMBER TWO", 126255>>,
    <<"OTTOMAN SIYAQ ALTERNATE NUMBER THREE", 126256>>,
    <<"OTTOMAN SIYAQ ALTERNATE NUMBER FOUR", 126257>>,
    <<"OTTOMAN SIYAQ ALTERNATE NUMBER FIVE", 126258>>,
    <<"OTTOMAN SIYAQ ALTERNATE NUMBER SIX", 126259>>,
    <<"OTTOMAN SIYAQ ALTERNATE NUMBER SEVEN", 126260>>,
    <<"OTTOMAN SIYAQ ALTERNATE NUMBER EIGHT", 126261>>,
    <<"OTTOMAN SIYAQ ALTERNATE NUMBER NINE", 126262>>,
    <<"OTTOMAN SIYAQ ALTERNATE NUMBER TEN", 126263>>,
    <<"OTTOMAN SIYAQ ALTERNATE NUMBER FOUR HUNDRED", 126264>>,
    <<"OTTOMAN SIYAQ ALTERNATE NUMBER SIX HUNDRED", 126265>>,
    <<"OTTOMAN SIYAQ ALTERNATE NUMBER TWO THOUSAND", 126266>>,
    <<"OTTOMAN SIYAQ ALTERNATE NUMBER TEN THOUSAND", 126267>>,
    <<"OTTOMAN SIYAQ FRACTION ONE HALF", 126268>>, <<"OTTOMAN SIYAQ FRACTION ONE SIXTH", 126269>>,
    <<"ARABIC MATHEMATICAL ALEF", 126464>>, <<"ARABIC MATHEMATICAL BEH", 126465>>,
    <<"ARABIC MATHEMATICAL JEEM", 126466>>, <<"ARABIC MATHEMATICAL DAL", 126467>>,
    <<"ARABIC MATHEMATICAL WAW", 126469>>, <<"ARABIC MATHEMATICAL ZAIN", 126470>>,
    <<"ARABIC MATHEMATICAL HAH", 126471>>, <<"ARABIC MATHEMATICAL TAH", 126472>>,
    <<"ARABIC MATHEMATICAL YEH", 126473>>, <<"ARABIC MATHEMATICAL KAF", 126474>>,
    <<"ARABIC MATHEMATICAL LAM", 126475>>, <<"ARABIC MATHEMATICAL MEEM", 126476>>,
    <<"ARABIC MATHEMATICAL NOON", 126477>>, <<"ARABIC MATHEMATICAL SEEN", 126478>>,
    <<"ARABIC MATHEMATICAL AIN", 126479>>, <<"ARABIC MATHEMATICAL FEH", 126480>>,
    <<"ARABIC MATHEMATICAL SAD", 126481>>, <<"ARABIC MATHEMATICAL QAF", 126482>>,
    <<"ARABIC MATHEMATICAL REH", 126483>>, <<"ARABIC MATHEMATICAL SHEEN", 126484>>,
    <<"ARABIC MATHEMATICAL TEH", 126485>>, <<"ARABIC MATHEMATICAL THEH", 126486>>,
    <<"ARABIC MATHEMATICAL KHAH", 126487>>, <<"ARABIC MATHEMATICAL THAL", 126488>>,
    <<"ARABIC MATHEMATICAL DAD", 126489>>, <<"ARABIC MATHEMATICAL ZAH", 126490>>,
    <<"ARABIC MATHEMATICAL GHAIN", 126491>>, <<"ARABIC MATHEMATICAL DOTLESS BEH", 126492>>,
    <<"ARABIC MATHEMATICAL DOTLESS NOON", 126493>>, <<"ARABIC MATHEMATICAL DOTLESS FEH", 126494>>,
    <<"ARABIC MATHEMATICAL DOTLESS QAF", 126495>>, <<"ARABIC MATHEMATICAL INITIAL BEH", 126497>>,
    <<"ARABIC MATHEMATICAL INITIAL JEEM", 126498>>, <<"ARABIC MATHEMATICAL INITIAL HEH", 126500>>,
    <<"ARABIC MATHEMATICAL INITIAL HAH", 126503>>, <<"ARABIC MATHEMATICAL INITIAL YEH", 126505>>,
    <<"ARABIC MATHEMATICAL INITIAL KAF", 126506>>, <<"ARABIC MATHEMATICAL INITIAL LAM", 126507>>,
    <<"ARABIC MATHEMATICAL INITIAL MEEM", 126508>>, <<"ARABIC MATHEMATICAL INITIAL NOON", 126509>>,
    <<"ARABIC MATHEMATICAL INITIAL SEEN", 126510>>, <<"ARABIC MATHEMATICAL INITIAL AIN", 126511>>,
    <<"ARABIC MATHEMATICAL INITIAL FEH", 126512>>, <<"ARABIC MATHEMATICAL INITIAL SAD", 126513>>,
    <<"ARABIC MATHEMATICAL INITIAL QAF", 126514>>, <<"ARABIC MATHEMATICAL INITIAL SHEEN", 126516>>,
    <<"ARABIC MATHEMATICAL INITIAL TEH", 126517>>, <<"ARABIC MATHEMATICAL INITIAL THEH", 126518>>,
    <<"ARABIC MATHEMATICAL INITIAL KHAH", 126519>>, <<"ARABIC MATHEMATICAL INITIAL DAD", 126521>>,
    <<"ARABIC MATHEMATICAL INITIAL GHAIN", 126523>>, <<"ARABIC MATHEMATICAL TAILED JEEM", 126530>>,
    <<"ARABIC MATHEMATICAL TAILED HAH", 126535>>, <<"ARABIC MATHEMATICAL TAILED YEH", 126537>>,
    <<"ARABIC MATHEMATICAL TAILED LAM", 126539>>, <<"ARABIC MATHEMATICAL TAILED NOON", 126541>>,
    <<"ARABIC MATHEMATICAL TAILED SEEN", 126542>>, <<"ARABIC MATHEMATICAL TAILED AIN", 126543>>,
    <<"ARABIC MATHEMATICAL TAILED SAD", 126545>>, <<"ARABIC MATHEMATICAL TAILED QAF", 126546>>,
    <<"ARABIC MATHEMATICAL TAILED SHEEN", 126548>>, <<"ARABIC MATHEMATICAL TAILED KHAH", 126551>>,
    <<"ARABIC MATHEMATICAL TAILED DAD", 126553>>, <<"ARABIC MATHEMATICAL TAILED GHAIN", 126555>>,
    <<"ARABIC MATHEMATICAL TAILED DOTLESS NOON", 126557>>,
    <<"ARABIC MATHEMATICAL TAILED DOTLESS QAF", 126559>>,
    <<"ARABIC MATHEMATICAL STRETCHED BEH", 126561>>, <<"ARABIC MATHEMATICAL STRETCHED JEEM", 126562>>,
    <<"ARABIC MATHEMATICAL STRETCHED HEH", 126564>>, <<"ARABIC MATHEMATICAL STRETCHED HAH", 126567>>,
    <<"ARABIC MATHEMATICAL STRETCHED TAH", 126568>>, <<"ARABIC MATHEMATICAL STRETCHED YEH", 126569>>,
    <<"ARABIC MATHEMATICAL STRETCHED KAF", 126570>>, <<"ARABIC MATHEMATICAL STRETCHED MEEM", 126572>>,
    <<"ARABIC MATHEMATICAL STRETCHED NOON", 126573>>, <<"ARABIC MATHEMATICAL STRETCHED SEEN", 126574>>,
    <<"ARABIC MATHEMATICAL STRETCHED AIN", 126575>>, <<"ARABIC MATHEMATICAL STRETCHED FEH", 126576>>,
    <<"ARABIC MATHEMATICAL STRETCHED SAD", 126577>>, <<"ARABIC MATHEMATICAL STRETCHED QAF", 126578>>,
    <<"ARABIC MATHEMATICAL STRETCHED SHEEN", 126580>>, <<"ARABIC MATHEMATICAL STRETCHED TEH", 126581>>,
    <<"ARABIC MATHEMATICAL STRETCHED THEH", 126582>>, <<"ARABIC MATHEMATICAL STRETCHED KHAH", 126583>>,
    <<"ARABIC MATHEMATICAL STRETCHED DAD", 126585>>, <<"ARABIC MATHEMATICAL STRETCHED ZAH", 126586>>,
    <<"ARABIC MATHEMATICAL STRETCHED GHAIN", 126587>>,
    <<"ARABIC MATHEMATICAL STRETCHED DOTLESS BEH", 126588>>,
    <<"ARABIC MATHEMATICAL STRETCHED DOTLESS FEH", 126590>>,
    <<"ARABIC MATHEMATICAL LOOPED ALEF", 126592>>, <<"ARABIC MATHEMATICAL LOOPED BEH", 126593>>,
    <<"ARABIC MATHEMATICAL LOOPED JEEM", 126594>>, <<"ARABIC MATHEMATICAL LOOPED DAL", 126595>>,
    <<"ARABIC MATHEMATICAL LOOPED HEH", 126596>>, <<"ARABIC MATHEMATICAL LOOPED WAW", 126597>>,
    <<"ARABIC MATHEMATICAL LOOPED ZAIN", 126598>>, <<"ARABIC MATHEMATICAL LOOPED HAH", 126599>>,
    <<"ARABIC MATHEMATICAL LOOPED TAH", 126600>>, <<"ARABIC MATHEMATICAL LOOPED YEH", 126601>>,
    <<"ARABIC MATHEMATICAL LOOPED LAM", 126603>>, <<"ARABIC MATHEMATICAL LOOPED MEEM", 126604>>,
    <<"ARABIC MATHEMATICAL LOOPED NOON", 126605>>, <<"ARABIC MATHEMATICAL LOOPED SEEN", 126606>>,
    <<"ARABIC MATHEMATICAL LOOPED AIN", 126607>>, <<"ARABIC MATHEMATICAL LOOPED FEH", 126608>>,
    <<"ARABIC MATHEMATICAL LOOPED SAD", 126609>>, <<"ARABIC MATHEMATICAL LOOPED QAF", 126610>>,
    <<"ARABIC MATHEMATICAL LOOPED REH", 126611>>, <<"ARABIC MATHEMATICAL LOOPED SHEEN", 126612>>,
    <<"ARABIC MATHEMATICAL LOOPED TEH", 126613>>, <<"ARABIC MATHEMATICAL LOOPED THEH", 126614>>,
    <<"ARABIC MATHEMATICAL LOOPED KHAH", 126615>>, <<"ARABIC MATHEMATICAL LOOPED THAL", 126616>>,
    <<"ARABIC MATHEMATICAL LOOPED DAD", 126617>>, <<"ARABIC MATHEMATICAL LOOPED ZAH", 126618>>,
    <<"ARABIC MATHEMATICAL LOOPED GHAIN", 126619>>,
    <<"ARABIC MATHEMATICAL DOUBLE-STRUCK BEH", 126625>>,
    <<"ARABIC MATHEMATICAL DOUBLE-STRUCK JEEM", 126626>>,
    <<"ARABIC MATHEMATICAL DOUBLE-STRUCK DAL", 126627>>,
    <<"ARABIC MATHEMATICAL DOUBLE-STRUCK WAW", 126629>>,
    <<"ARABIC MATHEMATICAL DOUBLE-STRUCK ZAIN", 126630>>,
    <<"ARABIC MATHEMATICAL DOUBLE-STRUCK HAH", 126631>>,
    <<"ARABIC MATHEMATICAL DOUBLE-STRUCK TAH", 126632>>,
    <<"ARABIC MATHEMATICAL DOUBLE-STRUCK YEH", 126633>>,
    <<"ARABIC MATHEMATICAL DOUBLE-STRUCK LAM", 126635>>,
    <<"ARABIC MATHEMATICAL DOUBLE-STRUCK MEEM", 126636>>,
    <<"ARABIC MATHEMATICAL DOUBLE-STRUCK NOON", 126637>>,
    <<"ARABIC MATHEMATICAL DOUBLE-STRUCK SEEN", 126638>>,
    <<"ARABIC MATHEMATICAL DOUBLE-STRUCK AIN", 126639>>,
    <<"ARABIC MATHEMATICAL DOUBLE-STRUCK FEH", 126640>>,
    <<"ARABIC MATHEMATICAL DOUBLE-STRUCK SAD", 126641>>,
    <<"ARABIC MATHEMATICAL DOUBLE-STRUCK QAF", 126642>>,
    <<"ARABIC MATHEMATICAL DOUBLE-STRUCK REH", 126643>>,
    <<"ARABIC MATHEMATICAL DOUBLE-STRUCK SHEEN", 126644>>,
    <<"ARABIC MATHEMATICAL DOUBLE-STRUCK TEH", 126645>>,
    <<"ARABIC MATHEMATICAL DOUBLE-STRUCK THEH", 126646>>,
    <<"ARABIC MATHEMATICAL DOUBLE-STRUCK KHAH", 126647>>,
    <<"ARABIC MATHEMATICAL DOUBLE-STRUCK THAL", 126648>>,
    <<"ARABIC MATHEMATICAL DOUBLE-STRUCK DAD", 126649>>,
    <<"ARABIC MATHEMATICAL DOUBLE-STRUCK ZAH", 126650>>,
    <<"ARABIC MATHEMATICAL DOUBLE-STRUCK GHAIN", 126651>>,
    <<"ARABIC MATHEMATICAL OPERATOR MEEM WITH HAH WITH TATWEEL", 126704>>,
    <<"ARABIC MATHEMATICAL OPERATOR HAH WITH DAL", 126705>>, <<"MAHJONG TILE EAST WIND", 126976>>,
    <<"MAHJONG TILE SOUTH WIND", 126977>>, <<"MAHJONG TILE WEST WIND", 126978>>,
    <<"MAHJONG TILE NORTH WIND", 126979>>, <<"MAHJONG TILE RED DRAGON", 126980>>,
    <<"MAHJONG TILE GREEN DRAGON", 126981>>, <<"MAHJONG TILE WHITE DRAGON", 126982>>,
    <<"MAHJONG TILE ONE OF CHARACTERS", 126983>>, <<"MAHJONG TILE TWO OF CHARACTERS", 126984>>,
    <<"MAHJONG TILE THREE OF CHARACTERS", 126985>>, <<"MAHJONG TILE FOUR OF CHARACTERS", 126986>>,
    <<"MAHJONG TILE FIVE OF CHARACTERS", 126987>>, <<"MAHJONG TILE SIX OF CHARACTERS", 126988>>,
    <<"MAHJONG TILE SEVEN OF CHARACTERS", 126989>>, <<"MAHJONG TILE EIGHT OF CHARACTERS", 126990>>,
    <<"MAHJONG TILE NINE OF CHARACTERS", 126991>>, <<"MAHJONG TILE ONE OF BAMBOOS", 126992>>,
    <<"MAHJONG TILE TWO OF BAMBOOS", 126993>>, <<"MAHJONG TILE THREE OF BAMBOOS", 126994>>,
    <<"MAHJONG TILE FOUR OF BAMBOOS", 126995>>, <<"MAHJONG TILE FIVE OF BAMBOOS", 126996>>,
    <<"MAHJONG TILE SIX OF BAMBOOS", 126997>>, <<"MAHJONG TILE SEVEN OF BAMBOOS", 126998>>,
    <<"MAHJONG TILE EIGHT OF BAMBOOS", 126999>>, <<"MAHJONG TILE NINE OF BAMBOOS", 127000>>,
    <<"MAHJONG TILE ONE OF CIRCLES", 127001>>, <<"MAHJONG TILE TWO OF CIRCLES", 127002>>,
    <<"MAHJONG TILE THREE OF CIRCLES", 127003>>, <<"MAHJONG TILE FOUR OF CIRCLES", 127004>>,
    <<"MAHJONG TILE FIVE OF CIRCLES", 127005>>, <<"MAHJONG TILE SIX OF CIRCLES", 127006>>,
    <<"MAHJONG TILE SEVEN OF CIRCLES", 127007>>, <<"MAHJONG TILE EIGHT OF CIRCLES", 127008>>,
    <<"MAHJONG TILE NINE OF CIRCLES", 127009>>, <<"MAHJONG TILE PLUM", 127010>>,
    <<"MAHJONG TILE ORCHID", 127011>>, <<"MAHJONG TILE BAMBOO", 127012>>,
    <<"MAHJONG TILE CHRYSANTHEMUM", 127013>>, <<"MAHJONG TILE SPRING", 127014>>,
    <<"MAHJONG TILE SUMMER", 127015>>, <<"MAHJONG TILE AUTUMN", 127016>>,
    <<"MAHJONG TILE WINTER", 127017>>, <<"MAHJONG TILE JOKER", 127018>>,
    <<"MAHJONG TILE BACK", 127019>>, <<"DOMINO TILE HORIZONTAL BACK", 127024>>,
    <<"DOMINO TILE HORIZONTAL-00-00", 127025>>, <<"DOMINO TILE HORIZONTAL-00-01", 127026>>,
    <<"DOMINO TILE HORIZONTAL-00-02", 127027>>, <<"DOMINO TILE HORIZONTAL-00-03", 127028>>,
    <<"DOMINO TILE HORIZONTAL-00-04", 127029>>, <<"DOMINO TILE HORIZONTAL-00-05", 127030>>,
    <<"DOMINO TILE HORIZONTAL-00-06", 127031>>, <<"DOMINO TILE HORIZONTAL-01-00", 127032>>,
    <<"DOMINO TILE HORIZONTAL-01-01", 127033>>, <<"DOMINO TILE HORIZONTAL-01-02", 127034>>,
    <<"DOMINO TILE HORIZONTAL-01-03", 127035>>, <<"DOMINO TILE HORIZONTAL-01-04", 127036>>,
    <<"DOMINO TILE HORIZONTAL-01-05", 127037>>, <<"DOMINO TILE HORIZONTAL-01-06", 127038>>,
    <<"DOMINO TILE HORIZONTAL-02-00", 127039>>, <<"DOMINO TILE HORIZONTAL-02-01", 127040>>,
    <<"DOMINO TILE HORIZONTAL-02-02", 127041>>, <<"DOMINO TILE HORIZONTAL-02-03", 127042>>,
    <<"DOMINO TILE HORIZONTAL-02-04", 127043>>, <<"DOMINO TILE HORIZONTAL-02-05", 127044>>,
    <<"DOMINO TILE HORIZONTAL-02-06", 127045>>, <<"DOMINO TILE HORIZONTAL-03-00", 127046>>,
    <<"DOMINO TILE HORIZONTAL-03-01", 127047>>, <<"DOMINO TILE HORIZONTAL-03-02", 127048>>,
    <<"DOMINO TILE HORIZONTAL-03-03", 127049>>, <<"DOMINO TILE HORIZONTAL-03-04", 127050>>,
    <<"DOMINO TILE HORIZONTAL-03-05", 127051>>, <<"DOMINO TILE HORIZONTAL-03-06", 127052>>,
    <<"DOMINO TILE HORIZONTAL-04-00", 127053>>, <<"DOMINO TILE HORIZONTAL-04-01", 127054>>,
    <<"DOMINO TILE HORIZONTAL-04-02", 127055>>, <<"DOMINO TILE HORIZONTAL-04-03", 127056>>,
    <<"DOMINO TILE HORIZONTAL-04-04", 127057>>, <<"DOMINO TILE HORIZONTAL-04-05", 127058>>,
    <<"DOMINO TILE HORIZONTAL-04-06", 127059>>, <<"DOMINO TILE HORIZONTAL-05-00", 127060>>,
    <<"DOMINO TILE HORIZONTAL-05-01", 127061>>, <<"DOMINO TILE HORIZONTAL-05-02", 127062>>,
    <<"DOMINO TILE HORIZONTAL-05-03", 127063>>, <<"DOMINO TILE HORIZONTAL-05-04", 127064>>,
    <<"DOMINO TILE HORIZONTAL-05-05", 127065>>, <<"DOMINO TILE HORIZONTAL-05-06", 127066>>,
    <<"DOMINO TILE HORIZONTAL-06-00", 127067>>, <<"DOMINO TILE HORIZONTAL-06-01", 127068>>,
    <<"DOMINO TILE HORIZONTAL-06-02", 127069>>, <<"DOMINO TILE HORIZONTAL-06-03", 127070>>,
    <<"DOMINO TILE HORIZONTAL-06-04", 127071>>, <<"DOMINO TILE HORIZONTAL-06-05", 127072>>,
    <<"DOMINO TILE HORIZONTAL-06-06", 127073>>, <<"DOMINO TILE VERTICAL BACK", 127074>>,
    <<"DOMINO TILE VERTICAL-00-00", 127075>>, <<"DOMINO TILE VERTICAL-00-01", 127076>>,
    <<"DOMINO TILE VERTICAL-00-02", 127077>>, <<"DOMINO TILE VERTICAL-00-03", 127078>>,
    <<"DOMINO TILE VERTICAL-00-04", 127079>>, <<"DOMINO TILE VERTICAL-00-05", 127080>>,
    <<"DOMINO TILE VERTICAL-00-06", 127081>>, <<"DOMINO TILE VERTICAL-01-00", 127082>>,
    <<"DOMINO TILE VERTICAL-01-01", 127083>>, <<"DOMINO TILE VERTICAL-01-02", 127084>>,
    <<"DOMINO TILE VERTICAL-01-03", 127085>>, <<"DOMINO TILE VERTICAL-01-04", 127086>>,
    <<"DOMINO TILE VERTICAL-01-05", 127087>>, <<"DOMINO TILE VERTICAL-01-06", 127088>>,
    <<"DOMINO TILE VERTICAL-02-00", 127089>>, <<"DOMINO TILE VERTICAL-02-01", 127090>>,
    <<"DOMINO TILE VERTICAL-02-02", 127091>>, <<"DOMINO TILE VERTICAL-02-03", 127092>>,
    <<"DOMINO TILE VERTICAL-02-04", 127093>>, <<"DOMINO TILE VERTICAL-02-05", 127094>>,
    <<"DOMINO TILE VERTICAL-02-06", 127095>>, <<"DOMINO TILE VERTICAL-03-00", 127096>>,
    <<"DOMINO TILE VERTICAL-03-01", 127097>>, <<"DOMINO TILE VERTICAL-03-02", 127098>>,
    <<"DOMINO TILE VERTICAL-03-03", 127099>>, <<"DOMINO TILE VERTICAL-03-04", 127100>>,
    <<"DOMINO TILE VERTICAL-03-05", 127101>>, <<"DOMINO TILE VERTICAL-03-06", 127102>>,
    <<"DOMINO TILE VERTICAL-04-00", 127103>>, <<"DOMINO TILE VERTICAL-04-01", 127104>>,
    <<"DOMINO TILE VERTICAL-04-02", 127105>>, <<"DOMINO TILE VERTICAL-04-03", 127106>>,
    <<"DOMINO TILE VERTICAL-04-04", 127107>>, <<"DOMINO TILE VERTICAL-04-05", 127108>>,
    <<"DOMINO TILE VERTICAL-04-06", 127109>>, <<"DOMINO TILE VERTICAL-05-00", 127110>>,
    <<"DOMINO TILE VERTICAL-05-01", 127111>>, <<"DOMINO TILE VERTICAL-05-02", 127112>>,
    <<"DOMINO TILE VERTICAL-05-03", 127113>>, <<"DOMINO TILE VERTICAL-05-04", 127114>>,
    <<"DOMINO TILE VERTICAL-05-05", 127115>>, <<"DOMINO TILE VERTICAL-05-06", 127116>>,
    <<"DOMINO TILE VERTICAL-06-00", 127117>>, <<"DOMINO TILE VERTICAL-06-01", 127118>>,
    <<"DOMINO TILE VERTICAL-06-02", 127119>>, <<"DOMINO TILE VERTICAL-06-03", 127120>>,
    <<"DOMINO TILE VERTICAL-06-04", 127121>>, <<"DOMINO TILE VERTICAL-06-05", 127122>>,
    <<"DOMINO TILE VERTICAL-06-06", 127123>>, <<"PLAYING CARD BACK", 127136>>,
    <<"PLAYING CARD ACE OF SPADES", 127137>>, <<"PLAYING CARD TWO OF SPADES", 127138>>,
    <<"PLAYING CARD THREE OF SPADES", 127139>>, <<"PLAYING CARD FOUR OF SPADES", 127140>>,
    <<"PLAYING CARD FIVE OF SPADES", 127141>>, <<"PLAYING CARD SIX OF SPADES", 127142>>,
    <<"PLAYING CARD SEVEN OF SPADES", 127143>>, <<"PLAYING CARD EIGHT OF SPADES", 127144>>,
    <<"PLAYING CARD NINE OF SPADES", 127145>>, <<"PLAYING CARD TEN OF SPADES", 127146>>,
    <<"PLAYING CARD JACK OF SPADES", 127147>>, <<"PLAYING CARD KNIGHT OF SPADES", 127148>>,
    <<"PLAYING CARD QUEEN OF SPADES", 127149>>, <<"PLAYING CARD KING OF SPADES", 127150>>,
    <<"PLAYING CARD ACE OF HEARTS", 127153>>, <<"PLAYING CARD TWO OF HEARTS", 127154>>,
    <<"PLAYING CARD THREE OF HEARTS", 127155>>, <<"PLAYING CARD FOUR OF HEARTS", 127156>>,
    <<"PLAYING CARD FIVE OF HEARTS", 127157>>, <<"PLAYING CARD SIX OF HEARTS", 127158>>,
    <<"PLAYING CARD SEVEN OF HEARTS", 127159>>, <<"PLAYING CARD EIGHT OF HEARTS", 127160>>,
    <<"PLAYING CARD NINE OF HEARTS", 127161>>, <<"PLAYING CARD TEN OF HEARTS", 127162>>,
    <<"PLAYING CARD JACK OF HEARTS", 127163>>, <<"PLAYING CARD KNIGHT OF HEARTS", 127164>>,
    <<"PLAYING CARD QUEEN OF HEARTS", 127165>>, <<"PLAYING CARD KING OF HEARTS", 127166>>,
    <<"PLAYING CARD RED JOKER", 127167>>, <<"PLAYING CARD ACE OF DIAMONDS", 127169>>,
    <<"PLAYING CARD TWO OF DIAMONDS", 127170>>, <<"PLAYING CARD THREE OF DIAMONDS", 127171>>,
    <<"PLAYING CARD FOUR OF DIAMONDS", 127172>>, <<"PLAYING CARD FIVE OF DIAMONDS", 127173>>,
    <<"PLAYING CARD SIX OF DIAMONDS", 127174>>, <<"PLAYING CARD SEVEN OF DIAMONDS", 127175>>,
    <<"PLAYING CARD EIGHT OF DIAMONDS", 127176>>, <<"PLAYING CARD NINE OF DIAMONDS", 127177>>,
    <<"PLAYING CARD TEN OF DIAMONDS", 127178>>, <<"PLAYING CARD JACK OF DIAMONDS", 127179>>,
    <<"PLAYING CARD KNIGHT OF DIAMONDS", 127180>>, <<"PLAYING CARD QUEEN OF DIAMONDS", 127181>>,
    <<"PLAYING CARD KING OF DIAMONDS", 127182>>, <<"PLAYING CARD BLACK JOKER", 127183>>,
    <<"PLAYING CARD ACE OF CLUBS", 127185>>, <<"PLAYING CARD TWO OF CLUBS", 127186>>,
    <<"PLAYING CARD THREE OF CLUBS", 127187>>, <<"PLAYING CARD FOUR OF CLUBS", 127188>>,
    <<"PLAYING CARD FIVE OF CLUBS", 127189>>, <<"PLAYING CARD SIX OF CLUBS", 127190>>,
    <<"PLAYING CARD SEVEN OF CLUBS", 127191>>, <<"PLAYING CARD EIGHT OF CLUBS", 127192>>,
    <<"PLAYING CARD NINE OF CLUBS", 127193>>, <<"PLAYING CARD TEN OF CLUBS", 127194>>,
    <<"PLAYING CARD JACK OF CLUBS", 127195>>, <<"PLAYING CARD KNIGHT OF CLUBS", 127196>>,
    <<"PLAYING CARD QUEEN OF CLUBS", 127197>>, <<"PLAYING CARD KING OF CLUBS", 127198>>,
    <<"PLAYING CARD WHITE JOKER", 127199>>, <<"PLAYING CARD FOOL", 127200>>,
    <<"PLAYING CARD TRUMP-1", 127201>>, <<"PLAYING CARD TRUMP-2", 127202>>,
    <<"PLAYING CARD TRUMP-3", 127203>>, <<"PLAYING CARD TRUMP-4", 127204>>,
    <<"PLAYING CARD TRUMP-5", 127205>>, <<"PLAYING CARD TRUMP-6", 127206>>,
    <<"PLAYING CARD TRUMP-7", 127207>>, <<"PLAYING CARD TRUMP-8", 127208>>,
    <<"PLAYING CARD TRUMP-9", 127209>>, <<"PLAYING CARD TRUMP-10", 127210>>,
    <<"PLAYING CARD TRUMP-11", 127211>>, <<"PLAYING CARD TRUMP-12", 127212>>,
    <<"PLAYING CARD TRUMP-13", 127213>>, <<"PLAYING CARD TRUMP-14", 127214>>,
    <<"PLAYING CARD TRUMP-15", 127215>>, <<"PLAYING CARD TRUMP-16", 127216>>,
    <<"PLAYING CARD TRUMP-17", 127217>>, <<"PLAYING CARD TRUMP-18", 127218>>,
    <<"PLAYING CARD TRUMP-19", 127219>>, <<"PLAYING CARD TRUMP-20", 127220>>,
    <<"PLAYING CARD TRUMP-21", 127221>>, <<"DIGIT ZERO FULL STOP", 127232>>,
    <<"DIGIT ZERO COMMA", 127233>>, <<"DIGIT ONE COMMA", 127234>>, <<"DIGIT TWO COMMA", 127235>>,
    <<"DIGIT THREE COMMA", 127236>>, <<"DIGIT FOUR COMMA", 127237>>, <<"DIGIT FIVE COMMA", 127238>>,
    <<"DIGIT SIX COMMA", 127239>>, <<"DIGIT SEVEN COMMA", 127240>>, <<"DIGIT EIGHT COMMA", 127241>>,
    <<"DIGIT NINE COMMA", 127242>>, <<"DINGBAT CIRCLED SANS-SERIF DIGIT ZERO", 127243>>,
    <<"DINGBAT NEGATIVE CIRCLED SANS-SERIF DIGIT ZERO", 127244>>,
    <<"CIRCLED ZERO WITH SLASH", 127245>>, <<"CIRCLED ANTICLOCKWISE ARROW", 127246>>,
    <<"CIRCLED DOLLAR SIGN WITH OVERLAID BACKSLASH", 127247>>,
    <<"PARENTHESIZED LATIN CAPITAL LETTER A", 127248>>,
    <<"PARENTHESIZED LATIN CAPITAL LETTER B", 127249>>,
    <<"PARENTHESIZED LATIN CAPITAL LETTER C", 127250>>,
    <<"PARENTHESIZED LATIN CAPITAL LETTER D", 127251>>,
    <<"PARENTHESIZED LATIN CAPITAL LETTER E", 127252>>,
    <<"PARENTHESIZED LATIN CAPITAL LETTER F", 127253>>,
    <<"PARENTHESIZED LATIN CAPITAL LETTER G", 127254>>,
    <<"PARENTHESIZED LATIN CAPITAL LETTER H", 127255>>,
    <<"PARENTHESIZED LATIN CAPITAL LETTER I", 127256>>,
    <<"PARENTHESIZED LATIN CAPITAL LETTER J", 127257>>,
    <<"PARENTHESIZED LATIN CAPITAL LETTER K", 127258>>,
    <<"PARENTHESIZED LATIN CAPITAL LETTER L", 127259>>,
    <<"PARENTHESIZED LATIN CAPITAL LETTER M", 127260>>,
    <<"PARENTHESIZED LATIN CAPITAL LETTER N", 127261>>,
    <<"PARENTHESIZED LATIN CAPITAL LETTER O", 127262>>,
    <<"PARENTHESIZED LATIN CAPITAL LETTER P", 127263>>,
    <<"PARENTHESIZED LATIN CAPITAL LETTER Q", 127264>>,
    <<"PARENTHESIZED LATIN CAPITAL LETTER R", 127265>>,
    <<"PARENTHESIZED LATIN CAPITAL LETTER S", 127266>>,
    <<"PARENTHESIZED LATIN CAPITAL LETTER T", 127267>>,
    <<"PARENTHESIZED LATIN CAPITAL LETTER U", 127268>>,
    <<"PARENTHESIZED LATIN CAPITAL LETTER V", 127269>>,
    <<"PARENTHESIZED LATIN CAPITAL LETTER W", 127270>>,
    <<"PARENTHESIZED LATIN CAPITAL LETTER X", 127271>>,
    <<"PARENTHESIZED LATIN CAPITAL LETTER Y", 127272>>,
    <<"PARENTHESIZED LATIN CAPITAL LETTER Z", 127273>>,
    <<"TORTOISE SHELL BRACKETED LATIN CAPITAL LETTER S", 127274>>,
    <<"CIRCLED ITALIC LATIN CAPITAL LETTER C", 127275>>,
    <<"CIRCLED ITALIC LATIN CAPITAL LETTER R", 127276>>, <<"CIRCLED CD", 127277>>,
    <<"CIRCLED WZ", 127278>>, <<"COPYLEFT SYMBOL", 127279>>,
    <<"SQUARED LATIN CAPITAL LETTER A", 127280>>, <<"SQUARED LATIN CAPITAL LETTER B", 127281>>,
    <<"SQUARED LATIN CAPITAL LETTER C", 127282>>, <<"SQUARED LATIN CAPITAL LETTER D", 127283>>,
    <<"SQUARED LATIN CAPITAL LETTER E", 127284>>, <<"SQUARED LATIN CAPITAL LETTER F", 127285>>,
    <<"SQUARED LATIN CAPITAL LETTER G", 127286>>, <<"SQUARED LATIN CAPITAL LETTER H", 127287>>,
    <<"SQUARED LATIN CAPITAL LETTER I", 127288>>, <<"SQUARED LATIN CAPITAL LETTER J", 127289>>,
    <<"SQUARED LATIN CAPITAL LETTER K", 127290>>, <<"SQUARED LATIN CAPITAL LETTER L", 127291>>,
    <<"SQUARED LATIN CAPITAL LETTER M", 127292>>, <<"SQUARED LATIN CAPITAL LETTER N", 127293>>,
    <<"SQUARED LATIN CAPITAL LETTER O", 127294>>, <<"SQUARED LATIN CAPITAL LETTER P", 127295>>,
    <<"SQUARED LATIN CAPITAL LETTER Q", 127296>>, <<"SQUARED LATIN CAPITAL LETTER R", 127297>>,
    <<"SQUARED LATIN CAPITAL LETTER S", 127298>>, <<"SQUARED LATIN CAPITAL LETTER T", 127299>>,
    <<"SQUARED LATIN CAPITAL LETTER U", 127300>>, <<"SQUARED LATIN CAPITAL LETTER V", 127301>>,
    <<"SQUARED LATIN CAPITAL LETTER W", 127302>>, <<"SQUARED LATIN CAPITAL LETTER X", 127303>>,
    <<"SQUARED LATIN CAPITAL LETTER Y", 127304>>, <<"SQUARED LATIN CAPITAL LETTER Z", 127305>>,
    <<"SQUARED HV", 127306>>, <<"SQUARED MV", 127307>>, <<"SQUARED SD", 127308>>,
    <<"SQUARED SS", 127309>>, <<"SQUARED PPV", 127310>>, <<"SQUARED WC", 127311>>,
    <<"NEGATIVE CIRCLED LATIN CAPITAL LETTER A", 127312>>,
    <<"NEGATIVE CIRCLED LATIN CAPITAL LETTER B", 127313>>,
    <<"NEGATIVE CIRCLED LATIN CAPITAL LETTER C", 127314>>,
    <<"NEGATIVE CIRCLED LATIN CAPITAL LETTER D", 127315>>,
    <<"NEGATIVE CIRCLED LATIN CAPITAL LETTER E", 127316>>,
    <<"NEGATIVE CIRCLED LATIN CAPITAL LETTER F", 127317>>,
    <<"NEGATIVE CIRCLED LATIN CAPITAL LETTER G", 127318>>,
    <<"NEGATIVE CIRCLED LATIN CAPITAL LETTER H", 127319>>,
    <<"NEGATIVE CIRCLED LATIN CAPITAL LETTER I", 127320>>,
    <<"NEGATIVE CIRCLED LATIN CAPITAL LETTER J", 127321>>,
    <<"NEGATIVE CIRCLED LATIN CAPITAL LETTER K", 127322>>,
    <<"NEGATIVE CIRCLED LATIN CAPITAL LETTER L", 127323>>,
    <<"NEGATIVE CIRCLED LATIN CAPITAL LETTER M", 127324>>,
    <<"NEGATIVE CIRCLED LATIN CAPITAL LETTER N", 127325>>,
    <<"NEGATIVE CIRCLED LATIN CAPITAL LETTER O", 127326>>,
    <<"NEGATIVE CIRCLED LATIN CAPITAL LETTER P", 127327>>,
    <<"NEGATIVE CIRCLED LATIN CAPITAL LETTER Q", 127328>>,
    <<"NEGATIVE CIRCLED LATIN CAPITAL LETTER R", 127329>>,
    <<"NEGATIVE CIRCLED LATIN CAPITAL LETTER S", 127330>>,
    <<"NEGATIVE CIRCLED LATIN CAPITAL LETTER T", 127331>>,
    <<"NEGATIVE CIRCLED LATIN CAPITAL LETTER U", 127332>>,
    <<"NEGATIVE CIRCLED LATIN CAPITAL LETTER V", 127333>>,
    <<"NEGATIVE CIRCLED LATIN CAPITAL LETTER W", 127334>>,
    <<"NEGATIVE CIRCLED LATIN CAPITAL LETTER X", 127335>>,
    <<"NEGATIVE CIRCLED LATIN CAPITAL LETTER Y", 127336>>,
    <<"NEGATIVE CIRCLED LATIN CAPITAL LETTER Z", 127337>>, <<"RAISED MC SIGN", 127338>>,
    <<"RAISED MD SIGN", 127339>>, <<"RAISED MR SIGN", 127340>>, <<"CIRCLED CC", 127341>>,
    <<"CIRCLED C WITH OVERLAID BACKSLASH", 127342>>, <<"CIRCLED HUMAN FIGURE", 127343>>,
    <<"NEGATIVE SQUARED LATIN CAPITAL LETTER A", 127344>>,
    <<"NEGATIVE SQUARED LATIN CAPITAL LETTER B", 127345>>,
    <<"NEGATIVE SQUARED LATIN CAPITAL LETTER C", 127346>>,
    <<"NEGATIVE SQUARED LATIN CAPITAL LETTER D", 127347>>,
    <<"NEGATIVE SQUARED LATIN CAPITAL LETTER E", 127348>>,
    <<"NEGATIVE SQUARED LATIN CAPITAL LETTER F", 127349>>,
    <<"NEGATIVE SQUARED LATIN CAPITAL LETTER G", 127350>>,
    <<"NEGATIVE SQUARED LATIN CAPITAL LETTER H", 127351>>,
    <<"NEGATIVE SQUARED LATIN CAPITAL LETTER I", 127352>>,
    <<"NEGATIVE SQUARED LATIN CAPITAL LETTER J", 127353>>,
    <<"NEGATIVE SQUARED LATIN CAPITAL LETTER K", 127354>>,
    <<"NEGATIVE SQUARED LATIN CAPITAL LETTER L", 127355>>,
    <<"NEGATIVE SQUARED LATIN CAPITAL LETTER M", 127356>>,
    <<"NEGATIVE SQUARED LATIN CAPITAL LETTER N", 127357>>,
    <<"NEGATIVE SQUARED LATIN CAPITAL LETTER O", 127358>>,
    <<"NEGATIVE SQUARED LATIN CAPITAL LETTER P", 127359>>,
    <<"NEGATIVE SQUARED LATIN CAPITAL LETTER Q", 127360>>,
    <<"NEGATIVE SQUARED LATIN CAPITAL LETTER R", 127361>>,
    <<"NEGATIVE SQUARED LATIN CAPITAL LETTER S", 127362>>,
    <<"NEGATIVE SQUARED LATIN CAPITAL LETTER T", 127363>>,
    <<"NEGATIVE SQUARED LATIN CAPITAL LETTER U", 127364>>,
    <<"NEGATIVE SQUARED LATIN CAPITAL LETTER V", 127365>>,
    <<"NEGATIVE SQUARED LATIN CAPITAL LETTER W", 127366>>,
    <<"NEGATIVE SQUARED LATIN CAPITAL LETTER X", 127367>>,
    <<"NEGATIVE SQUARED LATIN CAPITAL LETTER Y", 127368>>,
    <<"NEGATIVE SQUARED LATIN CAPITAL LETTER Z", 127369>>,
    <<"CROSSED NEGATIVE SQUARED LATIN CAPITAL LETTER P", 127370>>, <<"NEGATIVE SQUARED IC", 127371>>,
    <<"NEGATIVE SQUARED PA", 127372>>, <<"NEGATIVE SQUARED SA", 127373>>,
    <<"NEGATIVE SQUARED AB", 127374>>, <<"NEGATIVE SQUARED WC", 127375>>, <<"SQUARE DJ", 127376>>,
    <<"SQUARED CL", 127377>>, <<"SQUARED COOL", 127378>>, <<"SQUARED FREE", 127379>>,
    <<"SQUARED ID", 127380>>, <<"SQUARED NEW", 127381>>, <<"SQUARED NG", 127382>>,
    <<"SQUARED OK", 127383>>, <<"SQUARED SOS", 127384>>,
    <<"SQUARED UP WITH EXCLAMATION MARK", 127385>>, <<"SQUARED VS", 127386>>,
    <<"SQUARED THREE D", 127387>>, <<"SQUARED SECOND SCREEN", 127388>>, <<"SQUARED TWO K", 127389>>,
    <<"SQUARED FOUR K", 127390>>, <<"SQUARED EIGHT K", 127391>>, <<"SQUARED FIVE POINT ONE", 127392>>,
    <<"SQUARED SEVEN POINT ONE", 127393>>, <<"SQUARED TWENTY-TWO POINT TWO", 127394>>,
    <<"SQUARED SIXTY P", 127395>>, <<"SQUARED ONE HUNDRED TWENTY P", 127396>>,
    <<"SQUARED LATIN SMALL LETTER D", 127397>>, <<"SQUARED HC", 127398>>, <<"SQUARED HDR", 127399>>,
    <<"SQUARED HI-RES", 127400>>, <<"SQUARED LOSSLESS", 127401>>, <<"SQUARED SHV", 127402>>,
    <<"SQUARED UHD", 127403>>, <<"SQUARED VOD", 127404>>, <<"MASK WORK SYMBOL", 127405>>,
    <<"REGIONAL INDICATOR SYMBOL LETTER A", 127462>>, <<"REGIONAL INDICATOR SYMBOL LETTER B", 127463>>,
    <<"REGIONAL INDICATOR SYMBOL LETTER C", 127464>>, <<"REGIONAL INDICATOR SYMBOL LETTER D", 127465>>,
    <<"REGIONAL INDICATOR SYMBOL LETTER E", 127466>>, <<"REGIONAL INDICATOR SYMBOL LETTER F", 127467>>,
    <<"REGIONAL INDICATOR SYMBOL LETTER G", 127468>>, <<"REGIONAL INDICATOR SYMBOL LETTER H", 127469>>,
    <<"REGIONAL INDICATOR SYMBOL LETTER I", 127470>>, <<"REGIONAL INDICATOR SYMBOL LETTER J", 127471>>,
    <<"REGIONAL INDICATOR SYMBOL LETTER K", 127472>>, <<"REGIONAL INDICATOR SYMBOL LETTER L", 127473>>,
    <<"REGIONAL INDICATOR SYMBOL LETTER M", 127474>>, <<"REGIONAL INDICATOR SYMBOL LETTER N", 127475>>,
    <<"REGIONAL INDICATOR SYMBOL LETTER O", 127476>>, <<"REGIONAL INDICATOR SYMBOL LETTER P", 127477>>,
    <<"REGIONAL INDICATOR SYMBOL LETTER Q", 127478>>, <<"REGIONAL INDICATOR SYMBOL LETTER R", 127479>>,
    <<"REGIONAL INDICATOR SYMBOL LETTER S", 127480>>, <<"REGIONAL INDICATOR SYMBOL LETTER T", 127481>>,
    <<"REGIONAL INDICATOR SYMBOL LETTER U", 127482>>, <<"REGIONAL INDICATOR SYMBOL LETTER V", 127483>>,
    <<"REGIONAL INDICATOR SYMBOL LETTER W", 127484>>, <<"REGIONAL INDICATOR SYMBOL LETTER X", 127485>>,
    <<"REGIONAL INDICATOR SYMBOL LETTER Y", 127486>>, <<"REGIONAL INDICATOR SYMBOL LETTER Z", 127487>>,
    <<"SQUARE HIRAGANA HOKA", 127488>>, <<"SQUARED KATAKANA KOKO", 127489>>,
    <<"SQUARED KATAKANA SA", 127490>>, <<"SQUARED CJK UNIFIED IDEOGRAPH-624B", 127504>>,
    <<"SQUARED CJK UNIFIED IDEOGRAPH-5B57", 127505>>, <<"SQUARED CJK UNIFIED IDEOGRAPH-53CC", 127506>>,
    <<"SQUARED KATAKANA DE", 127507>>, <<"SQUARED CJK UNIFIED IDEOGRAPH-4E8C", 127508>>,
    <<"SQUARED CJK UNIFIED IDEOGRAPH-591A", 127509>>, <<"SQUARED CJK UNIFIED IDEOGRAPH-89E3", 127510>>,
    <<"SQUARED CJK UNIFIED IDEOGRAPH-5929", 127511>>, <<"SQUARED CJK UNIFIED IDEOGRAPH-4EA4", 127512>>,
    <<"SQUARED CJK UNIFIED IDEOGRAPH-6620", 127513>>, <<"SQUARED CJK UNIFIED IDEOGRAPH-7121", 127514>>,
    <<"SQUARED CJK UNIFIED IDEOGRAPH-6599", 127515>>, <<"SQUARED CJK UNIFIED IDEOGRAPH-524D", 127516>>,
    <<"SQUARED CJK UNIFIED IDEOGRAPH-5F8C", 127517>>, <<"SQUARED CJK UNIFIED IDEOGRAPH-518D", 127518>>,
    <<"SQUARED CJK UNIFIED IDEOGRAPH-65B0", 127519>>, <<"SQUARED CJK UNIFIED IDEOGRAPH-521D", 127520>>,
    <<"SQUARED CJK UNIFIED IDEOGRAPH-7D42", 127521>>, <<"SQUARED CJK UNIFIED IDEOGRAPH-751F", 127522>>,
    <<"SQUARED CJK UNIFIED IDEOGRAPH-8CA9", 127523>>, <<"SQUARED CJK UNIFIED IDEOGRAPH-58F0", 127524>>,
    <<"SQUARED CJK UNIFIED IDEOGRAPH-5439", 127525>>, <<"SQUARED CJK UNIFIED IDEOGRAPH-6F14", 127526>>,
    <<"SQUARED CJK UNIFIED IDEOGRAPH-6295", 127527>>, <<"SQUARED CJK UNIFIED IDEOGRAPH-6355", 127528>>,
    <<"SQUARED CJK UNIFIED IDEOGRAPH-4E00", 127529>>, <<"SQUARED CJK UNIFIED IDEOGRAPH-4E09", 127530>>,
    <<"SQUARED CJK UNIFIED IDEOGRAPH-904A", 127531>>, <<"SQUARED CJK UNIFIED IDEOGRAPH-5DE6", 127532>>,
    <<"SQUARED CJK UNIFIED IDEOGRAPH-4E2D", 127533>>, <<"SQUARED CJK UNIFIED IDEOGRAPH-53F3", 127534>>,
    <<"SQUARED CJK UNIFIED IDEOGRAPH-6307", 127535>>, <<"SQUARED CJK UNIFIED IDEOGRAPH-8D70", 127536>>,
    <<"SQUARED CJK UNIFIED IDEOGRAPH-6253", 127537>>, <<"SQUARED CJK UNIFIED IDEOGRAPH-7981", 127538>>,
    <<"SQUARED CJK UNIFIED IDEOGRAPH-7A7A", 127539>>, <<"SQUARED CJK UNIFIED IDEOGRAPH-5408", 127540>>,
    <<"SQUARED CJK UNIFIED IDEOGRAPH-6E80", 127541>>, <<"SQUARED CJK UNIFIED IDEOGRAPH-6709", 127542>>,
    <<"SQUARED CJK UNIFIED IDEOGRAPH-6708", 127543>>, <<"SQUARED CJK UNIFIED IDEOGRAPH-7533", 127544>>,
    <<"SQUARED CJK UNIFIED IDEOGRAPH-5272", 127545>>, <<"SQUARED CJK UNIFIED IDEOGRAPH-55B6", 127546>>,
    <<"SQUARED CJK UNIFIED IDEOGRAPH-914D", 127547>>,
    <<"TORTOISE SHELL BRACKETED CJK UNIFIED IDEOGRAPH-672C", 127552>>,
    <<"TORTOISE SHELL BRACKETED CJK UNIFIED IDEOGRAPH-4E09", 127553>>,
    <<"TORTOISE SHELL BRACKETED CJK UNIFIED IDEOGRAPH-4E8C", 127554>>,
    <<"TORTOISE SHELL BRACKETED CJK UNIFIED IDEOGRAPH-5B89", 127555>>,
    <<"TORTOISE SHELL BRACKETED CJK UNIFIED IDEOGRAPH-70B9", 127556>>,
    <<"TORTOISE SHELL BRACKETED CJK UNIFIED IDEOGRAPH-6253", 127557>>,
    <<"TORTOISE SHELL BRACKETED CJK UNIFIED IDEOGRAPH-76D7", 127558>>,
    <<"TORTOISE SHELL BRACKETED CJK UNIFIED IDEOGRAPH-52DD", 127559>>,
    <<"TORTOISE SHELL BRACKETED CJK UNIFIED IDEOGRAPH-6557", 127560>>,
    <<"CIRCLED IDEOGRAPH ADVANTAGE", 127568>>, <<"CIRCLED IDEOGRAPH ACCEPT", 127569>>,
    <<"ROUNDED SYMBOL FOR FU", 127584>>, <<"ROUNDED SYMBOL FOR LU", 127585>>,
    <<"ROUNDED SYMBOL FOR SHOU", 127586>>, <<"ROUNDED SYMBOL FOR XI", 127587>>,
    <<"ROUNDED SYMBOL FOR SHUANGXI", 127588>>, <<"ROUNDED SYMBOL FOR CAI", 127589>>,
    <<"CYCLONE", 127744>>, <<"FOGGY", 127745>>, <<"CLOSED UMBRELLA", 127746>>,
    <<"NIGHT WITH STARS", 127747>>, <<"SUNRISE OVER MOUNTAINS", 127748>>, <<"SUNRISE", 127749>>,
    <<"CITYSCAPE AT DUSK", 127750>>, <<"SUNSET OVER BUILDINGS", 127751>>, <<"RAINBOW", 127752>>,
    <<"BRIDGE AT NIGHT", 127753>>, <<"WATER WAVE", 127754>>, <<"VOLCANO", 127755>>,
    <<"MILKY WAY", 127756>>, <<"EARTH GLOBE EUROPE-AFRICA", 127757>>,
    <<"EARTH GLOBE AMERICAS", 127758>>, <<"EARTH GLOBE ASIA-AUSTRALIA", 127759>>,
    <<"GLOBE WITH MERIDIANS", 127760>>, <<"NEW MOON SYMBOL", 127761>>,
    <<"WAXING CRESCENT MOON SYMBOL", 127762>>, <<"FIRST QUARTER MOON SYMBOL", 127763>>,
    <<"WAXING GIBBOUS MOON SYMBOL", 127764>>, <<"FULL MOON SYMBOL", 127765>>,
    <<"WANING GIBBOUS MOON SYMBOL", 127766>>, <<"LAST QUARTER MOON SYMBOL", 127767>>,
    <<"WANING CRESCENT MOON SYMBOL", 127768>>, <<"CRESCENT MOON", 127769>>,
    <<"NEW MOON WITH FACE", 127770>>, <<"FIRST QUARTER MOON WITH FACE", 127771>>,
    <<"LAST QUARTER MOON WITH FACE", 127772>>, <<"FULL MOON WITH FACE", 127773>>,
    <<"SUN WITH FACE", 127774>>, <<"GLOWING STAR", 127775>>, <<"SHOOTING STAR", 127776>>,
    <<"THERMOMETER", 127777>>, <<"BLACK DROPLET", 127778>>, <<"WHITE SUN", 127779>>,
    <<"WHITE SUN WITH SMALL CLOUD", 127780>>, <<"WHITE SUN BEHIND CLOUD", 127781>>,
    <<"WHITE SUN BEHIND CLOUD WITH RAIN", 127782>>, <<"CLOUD WITH RAIN", 127783>>,
    <<"CLOUD WITH SNOW", 127784>>, <<"CLOUD WITH LIGHTNING", 127785>>,
    <<"CLOUD WITH TORNADO", 127786>>, <<"FOG", 127787>>, <<"WIND BLOWING FACE", 127788>>,
    <<"HOT DOG", 127789>>, <<"TACO", 127790>>, <<"BURRITO", 127791>>, <<"CHESTNUT", 127792>>,
    <<"SEEDLING", 127793>>, <<"EVERGREEN TREE", 127794>>, <<"DECIDUOUS TREE", 127795>>,
    <<"PALM TREE", 127796>>, <<"CACTUS", 127797>>, <<"HOT PEPPER", 127798>>, <<"TULIP", 127799>>,
    <<"CHERRY BLOSSOM", 127800>>, <<"ROSE", 127801>>, <<"HIBISCUS", 127802>>, <<"SUNFLOWER", 127803>>,
    <<"BLOSSOM", 127804>>, <<"EAR OF MAIZE", 127805>>, <<"EAR OF RICE", 127806>>, <<"HERB", 127807>>,
    <<"FOUR LEAF CLOVER", 127808>>, <<"MAPLE LEAF", 127809>>, <<"FALLEN LEAF", 127810>>,
    <<"LEAF FLUTTERING IN WIND", 127811>>, <<"MUSHROOM", 127812>>, <<"TOMATO", 127813>>,
    <<"AUBERGINE", 127814>>, <<"GRAPES", 127815>>, <<"MELON", 127816>>, <<"WATERMELON", 127817>>,
    <<"TANGERINE", 127818>>, <<"LEMON", 127819>>, <<"BANANA", 127820>>, <<"PINEAPPLE", 127821>>,
    <<"RED APPLE", 127822>>, <<"GREEN APPLE", 127823>>, <<"PEAR", 127824>>, <<"PEACH", 127825>>,
    <<"CHERRIES", 127826>>, <<"STRAWBERRY", 127827>>, <<"HAMBURGER", 127828>>,
    <<"SLICE OF PIZZA", 127829>>, <<"MEAT ON BONE", 127830>>, <<"POULTRY LEG", 127831>>,
    <<"RICE CRACKER", 127832>>, <<"RICE BALL", 127833>>, <<"COOKED RICE", 127834>>,
    <<"CURRY AND RICE", 127835>>, <<"STEAMING BOWL", 127836>>, <<"SPAGHETTI", 127837>>,
    <<"BREAD", 127838>>, <<"FRENCH FRIES", 127839>>, <<"ROASTED SWEET POTATO", 127840>>,
    <<"DANGO", 127841>>, <<"ODEN", 127842>>, <<"SUSHI", 127843>>, <<"FRIED SHRIMP", 127844>>,
    <<"FISH CAKE WITH SWIRL DESIGN", 127845>>, <<"SOFT ICE CREAM", 127846>>, <<"SHAVED ICE", 127847>>,
    <<"ICE CREAM", 127848>>, <<"DOUGHNUT", 127849>>, <<"COOKIE", 127850>>, <<"CHOCOLATE BAR", 127851>>,
    <<"CANDY", 127852>>, <<"LOLLIPOP", 127853>>, <<"CUSTARD", 127854>>, <<"HONEY POT", 127855>>,
    <<"SHORTCAKE", 127856>>, <<"BENTO BOX", 127857>>, <<"POT OF FOOD", 127858>>, <<"COOKING", 127859>>,
    <<"FORK AND KNIFE", 127860>>, <<"TEACUP WITHOUT HANDLE", 127861>>,
    <<"SAKE BOTTLE AND CUP", 127862>>, <<"WINE GLASS", 127863>>, <<"COCKTAIL GLASS", 127864>>,
    <<"TROPICAL DRINK", 127865>>, <<"BEER MUG", 127866>>, <<"CLINKING BEER MUGS", 127867>>,
    <<"BABY BOTTLE", 127868>>, <<"FORK AND KNIFE WITH PLATE", 127869>>,
    <<"BOTTLE WITH POPPING CORK", 127870>>, <<"POPCORN", 127871>>, <<"RIBBON", 127872>>,
    <<"WRAPPED PRESENT", 127873>>, <<"BIRTHDAY CAKE", 127874>>, <<"JACK-O-LANTERN", 127875>>,
    <<"CHRISTMAS TREE", 127876>>, <<"FATHER CHRISTMAS", 127877>>, <<"FIREWORKS", 127878>>,
    <<"FIREWORK SPARKLER", 127879>>, <<"BALLOON", 127880>>, <<"PARTY POPPER", 127881>>,
    <<"CONFETTI BALL", 127882>>, <<"TANABATA TREE", 127883>>, <<"CROSSED FLAGS", 127884>>,
    <<"PINE DECORATION", 127885>>, <<"JAPANESE DOLLS", 127886>>, <<"CARP STREAMER", 127887>>,
    <<"WIND CHIME", 127888>>, <<"MOON VIEWING CEREMONY", 127889>>, <<"SCHOOL SATCHEL", 127890>>,
    <<"GRADUATION CAP", 127891>>, <<"HEART WITH TIP ON THE LEFT", 127892>>,
    <<"BOUQUET OF FLOWERS", 127893>>, <<"MILITARY MEDAL", 127894>>, <<"REMINDER RIBBON", 127895>>,
    <<"MUSICAL KEYBOARD WITH JACKS", 127896>>, <<"STUDIO MICROPHONE", 127897>>,
    <<"LEVEL SLIDER", 127898>>, <<"CONTROL KNOBS", 127899>>,
    <<"BEAMED ASCENDING MUSICAL NOTES", 127900>>, <<"BEAMED DESCENDING MUSICAL NOTES", 127901>>,
    <<"FILM FRAMES", 127902>>, <<"ADMISSION TICKETS", 127903>>, <<"CAROUSEL HORSE", 127904>>,
    <<"FERRIS WHEEL", 127905>>, <<"ROLLER COASTER", 127906>>, <<"FISHING POLE AND FISH", 127907>>,
    <<"MICROPHONE", 127908>>, <<"MOVIE CAMERA", 127909>>, <<"CINEMA", 127910>>,
    <<"HEADPHONE", 127911>>, <<"ARTIST PALETTE", 127912>>, <<"TOP HAT", 127913>>,
    <<"CIRCUS TENT", 127914>>, <<"TICKET", 127915>>, <<"CLAPPER BOARD", 127916>>,
    <<"PERFORMING ARTS", 127917>>, <<"VIDEO GAME", 127918>>, <<"DIRECT HIT", 127919>>,
    <<"SLOT MACHINE", 127920>>, <<"BILLIARDS", 127921>>, <<"GAME DIE", 127922>>, <<"BOWLING", 127923>>,
    <<"FLOWER PLAYING CARDS", 127924>>, <<"MUSICAL NOTE", 127925>>,
    <<"MULTIPLE MUSICAL NOTES", 127926>>, <<"SAXOPHONE", 127927>>, <<"GUITAR", 127928>>,
    <<"MUSICAL KEYBOARD", 127929>>, <<"TRUMPET", 127930>>, <<"VIOLIN", 127931>>,
    <<"MUSICAL SCORE", 127932>>, <<"RUNNING SHIRT WITH SASH", 127933>>,
    <<"TENNIS RACQUET AND BALL", 127934>>, <<"SKI AND SKI BOOT", 127935>>,
    <<"BASKETBALL AND HOOP", 127936>>, <<"CHEQUERED FLAG", 127937>>, <<"SNOWBOARDER", 127938>>,
    <<"RUNNER", 127939>>, <<"SURFER", 127940>>, <<"SPORTS MEDAL", 127941>>, <<"TROPHY", 127942>>,
    <<"HORSE RACING", 127943>>, <<"AMERICAN FOOTBALL", 127944>>, <<"RUGBY FOOTBALL", 127945>>,
    <<"SWIMMER", 127946>>, <<"WEIGHT LIFTER", 127947>>, <<"GOLFER", 127948>>,
    <<"RACING MOTORCYCLE", 127949>>, <<"RACING CAR", 127950>>, <<"CRICKET BAT AND BALL", 127951>>,
    <<"VOLLEYBALL", 127952>>, <<"FIELD HOCKEY STICK AND BALL", 127953>>,
    <<"ICE HOCKEY STICK AND PUCK", 127954>>, <<"TABLE TENNIS PADDLE AND BALL", 127955>>,
    <<"SNOW CAPPED MOUNTAIN", 127956>>, <<"CAMPING", 127957>>, <<"BEACH WITH UMBRELLA", 127958>>,
    <<"BUILDING CONSTRUCTION", 127959>>, <<"HOUSE BUILDINGS", 127960>>, <<"CITYSCAPE", 127961>>,
    <<"DERELICT HOUSE BUILDING", 127962>>, <<"CLASSICAL BUILDING", 127963>>, <<"DESERT", 127964>>,
    <<"DESERT ISLAND", 127965>>, <<"NATIONAL PARK", 127966>>, <<"STADIUM", 127967>>,
    <<"HOUSE BUILDING", 127968>>, <<"HOUSE WITH GARDEN", 127969>>, <<"OFFICE BUILDING", 127970>>,
    <<"JAPANESE POST OFFICE", 127971>>, <<"EUROPEAN POST OFFICE", 127972>>, <<"HOSPITAL", 127973>>,
    <<"BANK", 127974>>, <<"AUTOMATED TELLER MACHINE", 127975>>, <<"HOTEL", 127976>>,
    <<"LOVE HOTEL", 127977>>, <<"CONVENIENCE STORE", 127978>>, <<"SCHOOL", 127979>>,
    <<"DEPARTMENT STORE", 127980>>, <<"FACTORY", 127981>>, <<"IZAKAYA LANTERN", 127982>>,
    <<"JAPANESE CASTLE", 127983>>, <<"EUROPEAN CASTLE", 127984>>, <<"WHITE PENNANT", 127985>>,
    <<"BLACK PENNANT", 127986>>, <<"WAVING WHITE FLAG", 127987>>, <<"WAVING BLACK FLAG", 127988>>,
    <<"ROSETTE", 127989>>, <<"BLACK ROSETTE", 127990>>, <<"LABEL", 127991>>,
    <<"BADMINTON RACQUET AND SHUTTLECOCK", 127992>>, <<"BOW AND ARROW", 127993>>,
    <<"AMPHORA", 127994>>, <<"EMOJI MODIFIER FITZPATRICK TYPE-1-2", 127995>>,
    <<"EMOJI MODIFIER FITZPATRICK TYPE-3", 127996>>, <<"EMOJI MODIFIER FITZPATRICK TYPE-4", 127997>>,
    <<"EMOJI MODIFIER FITZPATRICK TYPE-5", 127998>>, <<"EMOJI MODIFIER FITZPATRICK TYPE-6", 127999>>,
    <<"RAT", 128000>>, <<"MOUSE", 128001>>, <<"OX", 128002>>, <<"WATER BUFFALO", 128003>>,
    <<"COW", 128004>>, <<"TIGER", 128005>>, <<"LEOPARD", 128006>>, <<"RABBIT", 128007>>,
    <<"CAT", 128008>>, <<"DRAGON", 128009>>, <<"CROCODILE", 128010>>, <<"WHALE", 128011>>,
    <<"SNAIL", 128012>>, <<"SNAKE", 128013>>, <<"HORSE", 128014>>, <<"RAM", 128015>>,
    <<"GOAT", 128016>>, <<"SHEEP", 128017>>, <<"MONKEY", 128018>>, <<"ROOSTER", 128019>>,
    <<"CHICKEN", 128020>>, <<"DOG", 128021>>, <<"PIG", 128022>>, <<"BOAR", 128023>>,
    <<"ELEPHANT", 128024>>, <<"OCTOPUS", 128025>>, <<"SPIRAL SHELL", 128026>>, <<"BUG", 128027>>,
    <<"ANT", 128028>>, <<"HONEYBEE", 128029>>, <<"LADY BEETLE", 128030>>, <<"FISH", 128031>>,
    <<"TROPICAL FISH", 128032>>, <<"BLOWFISH", 128033>>, <<"TURTLE", 128034>>,
    <<"HATCHING CHICK", 128035>>, <<"BABY CHICK", 128036>>, <<"FRONT-FACING BABY CHICK", 128037>>,
    <<"BIRD", 128038>>, <<"PENGUIN", 128039>>, <<"KOALA", 128040>>, <<"POODLE", 128041>>,
    <<"DROMEDARY CAMEL", 128042>>, <<"BACTRIAN CAMEL", 128043>>, <<"DOLPHIN", 128044>>,
    <<"MOUSE FACE", 128045>>, <<"COW FACE", 128046>>, <<"TIGER FACE", 128047>>,
    <<"RABBIT FACE", 128048>>, <<"CAT FACE", 128049>>, <<"DRAGON FACE", 128050>>,
    <<"SPOUTING WHALE", 128051>>, <<"HORSE FACE", 128052>>, <<"MONKEY FACE", 128053>>,
    <<"DOG FACE", 128054>>, <<"PIG FACE", 128055>>, <<"FROG FACE", 128056>>,
    <<"HAMSTER FACE", 128057>>, <<"WOLF FACE", 128058>>, <<"BEAR FACE", 128059>>,
    <<"PANDA FACE", 128060>>, <<"PIG NOSE", 128061>>, <<"PAW PRINTS", 128062>>, <<"CHIPMUNK", 128063>>,
    <<"EYES", 128064>>, <<"EYE", 128065>>, <<"EAR", 128066>>, <<"NOSE", 128067>>, <<"MOUTH", 128068>>,
    <<"TONGUE", 128069>>, <<"WHITE UP POINTING BACKHAND INDEX", 128070>>,
    <<"WHITE DOWN POINTING BACKHAND INDEX", 128071>>, <<"WHITE LEFT POINTING BACKHAND INDEX", 128072>>,
    <<"WHITE RIGHT POINTING BACKHAND INDEX", 128073>>, <<"FISTED HAND SIGN", 128074>>,
    <<"WAVING HAND SIGN", 128075>>, <<"OK HAND SIGN", 128076>>, <<"THUMBS UP SIGN", 128077>>,
    <<"THUMBS DOWN SIGN", 128078>>, <<"CLAPPING HANDS SIGN", 128079>>, <<"OPEN HANDS SIGN", 128080>>,
    <<"CROWN", 128081>>, <<"WOMANS HAT", 128082>>, <<"EYEGLASSES", 128083>>, <<"NECKTIE", 128084>>,
    <<"T-SHIRT", 128085>>, <<"JEANS", 128086>>, <<"DRESS", 128087>>, <<"KIMONO", 128088>>,
    <<"BIKINI", 128089>>, <<"WOMANS CLOTHES", 128090>>, <<"PURSE", 128091>>, <<"HANDBAG", 128092>>,
    <<"POUCH", 128093>>, <<"MANS SHOE", 128094>>, <<"ATHLETIC SHOE", 128095>>,
    <<"HIGH-HEELED SHOE", 128096>>, <<"WOMANS SANDAL", 128097>>, <<"WOMANS BOOTS", 128098>>,
    <<"FOOTPRINTS", 128099>>, <<"BUST IN SILHOUETTE", 128100>>, <<"BUSTS IN SILHOUETTE", 128101>>,
    <<"BOY", 128102>>, <<"GIRL", 128103>>, <<"MAN", 128104>>, <<"WOMAN", 128105>>,
    <<"FAMILY", 128106>>, <<"MAN AND WOMAN HOLDING HANDS", 128107>>,
    <<"TWO MEN HOLDING HANDS", 128108>>, <<"TWO WOMEN HOLDING HANDS", 128109>>,
    <<"POLICE OFFICER", 128110>>, <<"WOMAN WITH BUNNY EARS", 128111>>, <<"BRIDE WITH VEIL", 128112>>,
    <<"PERSON WITH BLOND HAIR", 128113>>, <<"MAN WITH GUA PI MAO", 128114>>,
    <<"MAN WITH TURBAN", 128115>>, <<"OLDER MAN", 128116>>, <<"OLDER WOMAN", 128117>>,
    <<"BABY", 128118>>, <<"CONSTRUCTION WORKER", 128119>>, <<"PRINCESS", 128120>>,
    <<"JAPANESE OGRE", 128121>>, <<"JAPANESE GOBLIN", 128122>>, <<"GHOST", 128123>>,
    <<"BABY ANGEL", 128124>>, <<"EXTRATERRESTRIAL ALIEN", 128125>>, <<"ALIEN MONSTER", 128126>>,
    <<"IMP", 128127>>, <<"SKULL", 128128>>, <<"INFORMATION DESK PERSON", 128129>>,
    <<"GUARDSMAN", 128130>>, <<"DANCER", 128131>>, <<"LIPSTICK", 128132>>, <<"NAIL POLISH", 128133>>,
    <<"FACE MASSAGE", 128134>>, <<"HAIRCUT", 128135>>, <<"BARBER POLE", 128136>>,
    <<"SYRINGE", 128137>>, <<"PILL", 128138>>, <<"KISS MARK", 128139>>, <<"LOVE LETTER", 128140>>,
    <<"RING", 128141>>, <<"GEM STONE", 128142>>, <<"KISS", 128143>>, <<"BOUQUET", 128144>>,
    <<"COUPLE WITH HEART", 128145>>, <<"WEDDING", 128146>>, <<"BEATING HEART", 128147>>,
    <<"BROKEN HEART", 128148>>, <<"TWO HEARTS", 128149>>, <<"SPARKLING HEART", 128150>>,
    <<"GROWING HEART", 128151>>, <<"HEART WITH ARROW", 128152>>, <<"BLUE HEART", 128153>>,
    <<"GREEN HEART", 128154>>, <<"YELLOW HEART", 128155>>, <<"PURPLE HEART", 128156>>,
    <<"HEART WITH RIBBON", 128157>>, <<"REVOLVING HEARTS", 128158>>, <<"HEART DECORATION", 128159>>,
    <<"DIAMOND SHAPE WITH A DOT INSIDE", 128160>>, <<"ELECTRIC LIGHT BULB", 128161>>,
    <<"ANGER SYMBOL", 128162>>, <<"BOMB", 128163>>, <<"SLEEPING SYMBOL", 128164>>,
    <<"COLLISION SYMBOL", 128165>>, <<"SPLASHING SWEAT SYMBOL", 128166>>, <<"DROPLET", 128167>>,
    <<"DASH SYMBOL", 128168>>, <<"PILE OF POO", 128169>>, <<"FLEXED BICEPS", 128170>>,
    <<"DIZZY SYMBOL", 128171>>, <<"SPEECH BALLOON", 128172>>, <<"THOUGHT BALLOON", 128173>>,
    <<"WHITE FLOWER", 128174>>, <<"HUNDRED POINTS SYMBOL", 128175>>, <<"MONEY BAG", 128176>>,
    <<"CURRENCY EXCHANGE", 128177>>, <<"HEAVY DOLLAR SIGN", 128178>>, <<"CREDIT CARD", 128179>>,
    <<"BANKNOTE WITH YEN SIGN", 128180>>, <<"BANKNOTE WITH DOLLAR SIGN", 128181>>,
    <<"BANKNOTE WITH EURO SIGN", 128182>>, <<"BANKNOTE WITH POUND SIGN", 128183>>,
    <<"MONEY WITH WINGS", 128184>>, <<"CHART WITH UPWARDS TREND AND YEN SIGN", 128185>>,
    <<"SEAT", 128186>>, <<"PERSONAL COMPUTER", 128187>>, <<"BRIEFCASE", 128188>>,
    <<"MINIDISC", 128189>>, <<"FLOPPY DISK", 128190>>, <<"OPTICAL DISC", 128191>>, <<"DVD", 128192>>,
    <<"FILE FOLDER", 128193>>, <<"OPEN FILE FOLDER", 128194>>, <<"PAGE WITH CURL", 128195>>,
    <<"PAGE FACING UP", 128196>>, <<"CALENDAR", 128197>>, <<"TEAR-OFF CALENDAR", 128198>>,
    <<"CARD INDEX", 128199>>, <<"CHART WITH UPWARDS TREND", 128200>>,
    <<"CHART WITH DOWNWARDS TREND", 128201>>, <<"BAR CHART", 128202>>, <<"CLIPBOARD", 128203>>,
    <<"PUSHPIN", 128204>>, <<"ROUND PUSHPIN", 128205>>, <<"PAPERCLIP", 128206>>,
    <<"STRAIGHT RULER", 128207>>, <<"TRIANGULAR RULER", 128208>>, <<"BOOKMARK TABS", 128209>>,
    <<"LEDGER", 128210>>, <<"NOTEBOOK", 128211>>, <<"NOTEBOOK WITH DECORATIVE COVER", 128212>>,
    <<"CLOSED BOOK", 128213>>, <<"OPEN BOOK", 128214>>, <<"GREEN BOOK", 128215>>,
    <<"BLUE BOOK", 128216>>, <<"ORANGE BOOK", 128217>>, <<"BOOKS", 128218>>, <<"NAME BADGE", 128219>>,
    <<"SCROLL", 128220>>, <<"MEMO", 128221>>, <<"TELEPHONE RECEIVER", 128222>>, <<"PAGER", 128223>>,
    <<"FAX MACHINE", 128224>>, <<"SATELLITE ANTENNA", 128225>>,
    <<"PUBLIC ADDRESS LOUDSPEAKER", 128226>>, <<"CHEERING MEGAPHONE", 128227>>,
    <<"OUTBOX TRAY", 128228>>, <<"INBOX TRAY", 128229>>, <<"PACKAGE", 128230>>,
    <<"E-MAIL SYMBOL", 128231>>, <<"INCOMING ENVELOPE", 128232>>,
    <<"ENVELOPE WITH DOWNWARDS ARROW ABOVE", 128233>>, <<"CLOSED MAILBOX WITH LOWERED FLAG", 128234>>,
    <<"CLOSED MAILBOX WITH RAISED FLAG", 128235>>, <<"OPEN MAILBOX WITH RAISED FLAG", 128236>>,
    <<"OPEN MAILBOX WITH LOWERED FLAG", 128237>>, <<"POSTBOX", 128238>>, <<"POSTAL HORN", 128239>>,
    <<"NEWSPAPER", 128240>>, <<"MOBILE PHONE", 128241>>,
    <<"MOBILE PHONE WITH RIGHTWARDS ARROW AT LEFT", 128242>>, <<"VIBRATION MODE", 128243>>,
    <<"MOBILE PHONE OFF", 128244>>, <<"NO MOBILE PHONES", 128245>>, <<"ANTENNA WITH BARS", 128246>>,
    <<"CAMERA", 128247>>, <<"CAMERA WITH FLASH", 128248>>, <<"VIDEO CAMERA", 128249>>,
    <<"TELEVISION", 128250>>, <<"RADIO", 128251>>, <<"VIDEOCASSETTE", 128252>>,
    <<"FILM PROJECTOR", 128253>>, <<"PORTABLE STEREO", 128254>>, <<"PRAYER BEADS", 128255>>,
    <<"TWISTED RIGHTWARDS ARROWS", 128256>>,
    <<"CLOCKWISE RIGHTWARDS AND LEFTWARDS OPEN CIRCLE ARROWS", 128257>>,
    <<"CLOCKWISE RIGHTWARDS AND LEFTWARDS OPEN CIRCLE ARROWS WITH CIRCLED ONE OVERLAY", 128258>>,
    <<"CLOCKWISE DOWNWARDS AND UPWARDS OPEN CIRCLE ARROWS", 128259>>,
    <<"ANTICLOCKWISE DOWNWARDS AND UPWARDS OPEN CIRCLE ARROWS", 128260>>,
    <<"LOW BRIGHTNESS SYMBOL", 128261>>, <<"HIGH BRIGHTNESS SYMBOL", 128262>>,
    <<"SPEAKER WITH CANCELLATION STROKE", 128263>>, <<"SPEAKER", 128264>>,
    <<"SPEAKER WITH ONE SOUND WAVE", 128265>>, <<"SPEAKER WITH THREE SOUND WAVES", 128266>>,
    <<"BATTERY", 128267>>, <<"ELECTRIC PLUG", 128268>>, <<"LEFT-POINTING MAGNIFYING GLASS", 128269>>,
    <<"RIGHT-POINTING MAGNIFYING GLASS", 128270>>, <<"LOCK WITH INK PEN", 128271>>,
    <<"CLOSED LOCK WITH KEY", 128272>>, <<"KEY", 128273>>, <<"LOCK", 128274>>, <<"OPEN LOCK", 128275>>,
    <<"BELL", 128276>>, <<"BELL WITH CANCELLATION STROKE", 128277>>, <<"BOOKMARK", 128278>>,
    <<"LINK SYMBOL", 128279>>, <<"RADIO BUTTON", 128280>>,
    <<"BACK WITH LEFTWARDS ARROW ABOVE", 128281>>, <<"END WITH LEFTWARDS ARROW ABOVE", 128282>>,
    <<"ON WITH EXCLAMATION MARK WITH LEFT RIGHT ARROW ABOVE", 128283>>,
    <<"SOON WITH RIGHTWARDS ARROW ABOVE", 128284>>, <<"TOP WITH UPWARDS ARROW ABOVE", 128285>>,
    <<"NO ONE UNDER EIGHTEEN SYMBOL", 128286>>, <<"KEYCAP TEN", 128287>>,
    <<"INPUT SYMBOL FOR LATIN CAPITAL LETTERS", 128288>>,
    <<"INPUT SYMBOL FOR LATIN SMALL LETTERS", 128289>>, <<"INPUT SYMBOL FOR NUMBERS", 128290>>,
    <<"INPUT SYMBOL FOR SYMBOLS", 128291>>, <<"INPUT SYMBOL FOR LATIN LETTERS", 128292>>,
    <<"FIRE", 128293>>, <<"ELECTRIC TORCH", 128294>>, <<"WRENCH", 128295>>, <<"HAMMER", 128296>>,
    <<"NUT AND BOLT", 128297>>, <<"HOCHO", 128298>>, <<"PISTOL", 128299>>, <<"MICROSCOPE", 128300>>,
    <<"TELESCOPE", 128301>>, <<"CRYSTAL BALL", 128302>>,
    <<"SIX POINTED STAR WITH MIDDLE DOT", 128303>>, <<"JAPANESE SYMBOL FOR BEGINNER", 128304>>,
    <<"TRIDENT EMBLEM", 128305>>, <<"BLACK SQUARE BUTTON", 128306>>, <<"WHITE SQUARE BUTTON", 128307>>,
    <<"LARGE RED CIRCLE", 128308>>, <<"LARGE BLUE CIRCLE", 128309>>,
    <<"LARGE ORANGE DIAMOND", 128310>>, <<"LARGE BLUE DIAMOND", 128311>>,
    <<"SMALL ORANGE DIAMOND", 128312>>, <<"SMALL BLUE DIAMOND", 128313>>,
    <<"UP-POINTING RED TRIANGLE", 128314>>, <<"DOWN-POINTING RED TRIANGLE", 128315>>,
    <<"UP-POINTING SMALL RED TRIANGLE", 128316>>, <<"DOWN-POINTING SMALL RED TRIANGLE", 128317>>,
    <<"LOWER RIGHT SHADOWED WHITE CIRCLE", 128318>>, <<"UPPER RIGHT SHADOWED WHITE CIRCLE", 128319>>,
    <<"CIRCLED CROSS POMMEE", 128320>>, <<"CROSS POMMEE WITH HALF-CIRCLE BELOW", 128321>>,
    <<"CROSS POMMEE", 128322>>, <<"NOTCHED LEFT SEMICIRCLE WITH THREE DOTS", 128323>>,
    <<"NOTCHED RIGHT SEMICIRCLE WITH THREE DOTS", 128324>>, <<"SYMBOL FOR MARKS CHAPTER", 128325>>,
    <<"WHITE LATIN CROSS", 128326>>, <<"HEAVY LATIN CROSS", 128327>>, <<"CELTIC CROSS", 128328>>,
    <<"OM SYMBOL", 128329>>, <<"DOVE OF PEACE", 128330>>, <<"KAABA", 128331>>, <<"MOSQUE", 128332>>,
    <<"SYNAGOGUE", 128333>>, <<"MENORAH WITH NINE BRANCHES", 128334>>, <<"BOWL OF HYGIEIA", 128335>>,
    <<"CLOCK FACE ONE OCLOCK", 128336>>, <<"CLOCK FACE TWO OCLOCK", 128337>>,
    <<"CLOCK FACE THREE OCLOCK", 128338>>, <<"CLOCK FACE FOUR OCLOCK", 128339>>,
    <<"CLOCK FACE FIVE OCLOCK", 128340>>, <<"CLOCK FACE SIX OCLOCK", 128341>>,
    <<"CLOCK FACE SEVEN OCLOCK", 128342>>, <<"CLOCK FACE EIGHT OCLOCK", 128343>>,
    <<"CLOCK FACE NINE OCLOCK", 128344>>, <<"CLOCK FACE TEN OCLOCK", 128345>>,
    <<"CLOCK FACE ELEVEN OCLOCK", 128346>>, <<"CLOCK FACE TWELVE OCLOCK", 128347>>,
    <<"CLOCK FACE ONE-THIRTY", 128348>>, <<"CLOCK FACE TWO-THIRTY", 128349>>,
    <<"CLOCK FACE THREE-THIRTY", 128350>>, <<"CLOCK FACE FOUR-THIRTY", 128351>>,
    <<"CLOCK FACE FIVE-THIRTY", 128352>>, <<"CLOCK FACE SIX-THIRTY", 128353>>,
    <<"CLOCK FACE SEVEN-THIRTY", 128354>>, <<"CLOCK FACE EIGHT-THIRTY", 128355>>,
    <<"CLOCK FACE NINE-THIRTY", 128356>>, <<"CLOCK FACE TEN-THIRTY", 128357>>,
    <<"CLOCK FACE ELEVEN-THIRTY", 128358>>, <<"CLOCK FACE TWELVE-THIRTY", 128359>>,
    <<"RIGHT SPEAKER", 128360>>, <<"RIGHT SPEAKER WITH ONE SOUND WAVE", 128361>>,
    <<"RIGHT SPEAKER WITH THREE SOUND WAVES", 128362>>, <<"BULLHORN", 128363>>,
    <<"BULLHORN WITH SOUND WAVES", 128364>>, <<"RINGING BELL", 128365>>, <<"BOOK", 128366>>,
    <<"CANDLE", 128367>>, <<"MANTELPIECE CLOCK", 128368>>, <<"BLACK SKULL AND CROSSBONES", 128369>>,
    <<"NO PIRACY", 128370>>, <<"HOLE", 128371>>, <<"MAN IN BUSINESS SUIT LEVITATING", 128372>>,
    <<"SLEUTH OR SPY", 128373>>, <<"DARK SUNGLASSES", 128374>>, <<"SPIDER", 128375>>,
    <<"SPIDER WEB", 128376>>, <<"JOYSTICK", 128377>>, <<"MAN DANCING", 128378>>,
    <<"LEFT HAND TELEPHONE RECEIVER", 128379>>, <<"TELEPHONE RECEIVER WITH PAGE", 128380>>,
    <<"RIGHT HAND TELEPHONE RECEIVER", 128381>>, <<"WHITE TOUCHTONE TELEPHONE", 128382>>,
    <<"BLACK TOUCHTONE TELEPHONE", 128383>>, <<"TELEPHONE ON TOP OF MODEM", 128384>>,
    <<"CLAMSHELL MOBILE PHONE", 128385>>, <<"BACK OF ENVELOPE", 128386>>,
    <<"STAMPED ENVELOPE", 128387>>, <<"ENVELOPE WITH LIGHTNING", 128388>>,
    <<"FLYING ENVELOPE", 128389>>, <<"PEN OVER STAMPED ENVELOPE", 128390>>,
    <<"LINKED PAPERCLIPS", 128391>>, <<"BLACK PUSHPIN", 128392>>, <<"LOWER LEFT PENCIL", 128393>>,
    <<"LOWER LEFT BALLPOINT PEN", 128394>>, <<"LOWER LEFT FOUNTAIN PEN", 128395>>,
    <<"LOWER LEFT PAINTBRUSH", 128396>>, <<"LOWER LEFT CRAYON", 128397>>,
    <<"LEFT WRITING HAND", 128398>>, <<"TURNED OK HAND SIGN", 128399>>,
    <<"RAISED HAND WITH FINGERS SPLAYED", 128400>>,
    <<"REVERSED RAISED HAND WITH FINGERS SPLAYED", 128401>>, <<"REVERSED THUMBS UP SIGN", 128402>>,
    <<"REVERSED THUMBS DOWN SIGN", 128403>>, <<"REVERSED VICTORY HAND", 128404>>,
    <<"REVERSED HAND WITH MIDDLE FINGER EXTENDED", 128405>>,
    <<"RAISED HAND WITH PART BETWEEN MIDDLE AND RING FINGERS", 128406>>,
    <<"WHITE DOWN POINTING LEFT HAND INDEX", 128407>>,
    <<"SIDEWAYS WHITE LEFT POINTING INDEX", 128408>>,
    <<"SIDEWAYS WHITE RIGHT POINTING INDEX", 128409>>,
    <<"SIDEWAYS BLACK LEFT POINTING INDEX", 128410>>,
    <<"SIDEWAYS BLACK RIGHT POINTING INDEX", 128411>>,
    <<"BLACK LEFT POINTING BACKHAND INDEX", 128412>>,
    <<"BLACK RIGHT POINTING BACKHAND INDEX", 128413>>, <<"SIDEWAYS WHITE UP POINTING INDEX", 128414>>,
    <<"SIDEWAYS WHITE DOWN POINTING INDEX", 128415>>, <<"SIDEWAYS BLACK UP POINTING INDEX", 128416>>,
    <<"SIDEWAYS BLACK DOWN POINTING INDEX", 128417>>, <<"BLACK UP POINTING BACKHAND INDEX", 128418>>,
    <<"BLACK DOWN POINTING BACKHAND INDEX", 128419>>, <<"BLACK HEART", 128420>>,
    <<"DESKTOP COMPUTER", 128421>>, <<"KEYBOARD AND MOUSE", 128422>>,
    <<"THREE NETWORKED COMPUTERS", 128423>>, <<"PRINTER", 128424>>, <<"POCKET CALCULATOR", 128425>>,
    <<"BLACK HARD SHELL FLOPPY DISK", 128426>>, <<"WHITE HARD SHELL FLOPPY DISK", 128427>>,
    <<"SOFT SHELL FLOPPY DISK", 128428>>, <<"TAPE CARTRIDGE", 128429>>, <<"WIRED KEYBOARD", 128430>>,
    <<"ONE BUTTON MOUSE", 128431>>, <<"TWO BUTTON MOUSE", 128432>>, <<"THREE BUTTON MOUSE", 128433>>,
    <<"TRACKBALL", 128434>>, <<"OLD PERSONAL COMPUTER", 128435>>, <<"HARD DISK", 128436>>,
    <<"SCREEN", 128437>>, <<"PRINTER ICON", 128438>>, <<"FAX ICON", 128439>>,
    <<"OPTICAL DISC ICON", 128440>>, <<"DOCUMENT WITH TEXT", 128441>>,
    <<"DOCUMENT WITH TEXT AND PICTURE", 128442>>, <<"DOCUMENT WITH PICTURE", 128443>>,
    <<"FRAME WITH PICTURE", 128444>>, <<"FRAME WITH TILES", 128445>>, <<"FRAME WITH AN X", 128446>>,
    <<"BLACK FOLDER", 128447>>, <<"FOLDER", 128448>>, <<"OPEN FOLDER", 128449>>,
    <<"CARD INDEX DIVIDERS", 128450>>, <<"CARD FILE BOX", 128451>>, <<"FILE CABINET", 128452>>,
    <<"EMPTY NOTE", 128453>>, <<"EMPTY NOTE PAGE", 128454>>, <<"EMPTY NOTE PAD", 128455>>,
    <<"NOTE", 128456>>, <<"NOTE PAGE", 128457>>, <<"NOTE PAD", 128458>>, <<"EMPTY DOCUMENT", 128459>>,
    <<"EMPTY PAGE", 128460>>, <<"EMPTY PAGES", 128461>>, <<"DOCUMENT", 128462>>, <<"PAGE", 128463>>,
    <<"PAGES", 128464>>, <<"WASTEBASKET", 128465>>, <<"SPIRAL NOTE PAD", 128466>>,
    <<"SPIRAL CALENDAR PAD", 128467>>, <<"DESKTOP WINDOW", 128468>>, <<"MINIMIZE", 128469>>,
    <<"MAXIMIZE", 128470>>, <<"OVERLAP", 128471>>,
    <<"CLOCKWISE RIGHT AND LEFT SEMICIRCLE ARROWS", 128472>>, <<"CANCELLATION X", 128473>>,
    <<"INCREASE FONT SIZE SYMBOL", 128474>>, <<"DECREASE FONT SIZE SYMBOL", 128475>>,
    <<"COMPRESSION", 128476>>, <<"OLD KEY", 128477>>, <<"ROLLED-UP NEWSPAPER", 128478>>,
    <<"PAGE WITH CIRCLED TEXT", 128479>>, <<"STOCK CHART", 128480>>, <<"DAGGER KNIFE", 128481>>,
    <<"LIPS", 128482>>, <<"SPEAKING HEAD IN SILHOUETTE", 128483>>, <<"THREE RAYS ABOVE", 128484>>,
    <<"THREE RAYS BELOW", 128485>>, <<"THREE RAYS LEFT", 128486>>, <<"THREE RAYS RIGHT", 128487>>,
    <<"LEFT SPEECH BUBBLE", 128488>>, <<"RIGHT SPEECH BUBBLE", 128489>>,
    <<"TWO SPEECH BUBBLES", 128490>>, <<"THREE SPEECH BUBBLES", 128491>>,
    <<"LEFT THOUGHT BUBBLE", 128492>>, <<"RIGHT THOUGHT BUBBLE", 128493>>,
    <<"LEFT ANGER BUBBLE", 128494>>, <<"RIGHT ANGER BUBBLE", 128495>>, <<"MOOD BUBBLE", 128496>>,
    <<"LIGHTNING MOOD BUBBLE", 128497>>, <<"LIGHTNING MOOD", 128498>>,
    <<"BALLOT BOX WITH BALLOT", 128499>>, <<"BALLOT SCRIPT X", 128500>>,
    <<"BALLOT BOX WITH SCRIPT X", 128501>>, <<"BALLOT BOLD SCRIPT X", 128502>>,
    <<"BALLOT BOX WITH BOLD SCRIPT X", 128503>>, <<"LIGHT CHECK MARK", 128504>>,
    <<"BALLOT BOX WITH BOLD CHECK", 128505>>, <<"WORLD MAP", 128506>>, <<"MOUNT FUJI", 128507>>,
    <<"TOKYO TOWER", 128508>>, <<"STATUE OF LIBERTY", 128509>>, <<"SILHOUETTE OF JAPAN", 128510>>,
    <<"MOYAI", 128511>>, <<"GRINNING FACE", 128512>>, <<"GRINNING FACE WITH SMILING EYES", 128513>>,
    <<"FACE WITH TEARS OF JOY", 128514>>, <<"SMILING FACE WITH OPEN MOUTH", 128515>>,
    <<"SMILING FACE WITH OPEN MOUTH AND SMILING EYES", 128516>>,
    <<"SMILING FACE WITH OPEN MOUTH AND COLD SWEAT", 128517>>,
    <<"SMILING FACE WITH OPEN MOUTH AND TIGHTLY-CLOSED EYES", 128518>>,
    <<"SMILING FACE WITH HALO", 128519>>, <<"SMILING FACE WITH HORNS", 128520>>,
    <<"WINKING FACE", 128521>>, <<"SMILING FACE WITH SMILING EYES", 128522>>,
    <<"FACE SAVOURING DELICIOUS FOOD", 128523>>, <<"RELIEVED FACE", 128524>>,
    <<"SMILING FACE WITH HEART-SHAPED EYES", 128525>>, <<"SMILING FACE WITH SUNGLASSES", 128526>>,
    <<"SMIRKING FACE", 128527>>, <<"NEUTRAL FACE", 128528>>, <<"EXPRESSIONLESS FACE", 128529>>,
    <<"UNAMUSED FACE", 128530>>, <<"FACE WITH COLD SWEAT", 128531>>, <<"PENSIVE FACE", 128532>>,
    <<"CONFUSED FACE", 128533>>, <<"CONFOUNDED FACE", 128534>>, <<"KISSING FACE", 128535>>,
    <<"FACE THROWING A KISS", 128536>>, <<"KISSING FACE WITH SMILING EYES", 128537>>,
    <<"KISSING FACE WITH CLOSED EYES", 128538>>, <<"FACE WITH STUCK-OUT TONGUE", 128539>>,
    <<"FACE WITH STUCK-OUT TONGUE AND WINKING EYE", 128540>>,
    <<"FACE WITH STUCK-OUT TONGUE AND TIGHTLY-CLOSED EYES", 128541>>, <<"DISAPPOINTED FACE", 128542>>,
    <<"WORRIED FACE", 128543>>, <<"ANGRY FACE", 128544>>, <<"POUTING FACE", 128545>>,
    <<"CRYING FACE", 128546>>, <<"PERSEVERING FACE", 128547>>, <<"FACE WITH LOOK OF TRIUMPH", 128548>>,
    <<"DISAPPOINTED BUT RELIEVED FACE", 128549>>, <<"FROWNING FACE WITH OPEN MOUTH", 128550>>,
    <<"ANGUISHED FACE", 128551>>, <<"FEARFUL FACE", 128552>>, <<"WEARY FACE", 128553>>,
    <<"SLEEPY FACE", 128554>>, <<"TIRED FACE", 128555>>, <<"GRIMACING FACE", 128556>>,
    <<"LOUDLY CRYING FACE", 128557>>, <<"FACE WITH OPEN MOUTH", 128558>>, <<"HUSHED FACE", 128559>>,
    <<"FACE WITH OPEN MOUTH AND COLD SWEAT", 128560>>, <<"FACE SCREAMING IN FEAR", 128561>>,
    <<"ASTONISHED FACE", 128562>>, <<"FLUSHED FACE", 128563>>, <<"SLEEPING FACE", 128564>>,
    <<"DIZZY FACE", 128565>>, <<"FACE WITHOUT MOUTH", 128566>>, <<"FACE WITH MEDICAL MASK", 128567>>,
    <<"GRINNING CAT FACE WITH SMILING EYES", 128568>>, <<"CAT FACE WITH TEARS OF JOY", 128569>>,
    <<"SMILING CAT FACE WITH OPEN MOUTH", 128570>>,
    <<"SMILING CAT FACE WITH HEART-SHAPED EYES", 128571>>, <<"CAT FACE WITH WRY SMILE", 128572>>,
    <<"KISSING CAT FACE WITH CLOSED EYES", 128573>>, <<"POUTING CAT FACE", 128574>>,
    <<"CRYING CAT FACE", 128575>>, <<"WEARY CAT FACE", 128576>>, <<"SLIGHTLY FROWNING FACE", 128577>>,
    <<"SLIGHTLY SMILING FACE", 128578>>, <<"UPSIDE-DOWN FACE", 128579>>,
    <<"FACE WITH ROLLING EYES", 128580>>, <<"FACE WITH NO GOOD GESTURE", 128581>>,
    <<"FACE WITH OK GESTURE", 128582>>, <<"PERSON BOWING DEEPLY", 128583>>,
    <<"SEE-NO-EVIL MONKEY", 128584>>, <<"HEAR-NO-EVIL MONKEY", 128585>>,
    <<"SPEAK-NO-EVIL MONKEY", 128586>>, <<"HAPPY PERSON RAISING ONE HAND", 128587>>,
    <<"PERSON RAISING BOTH HANDS IN CELEBRATION", 128588>>, <<"PERSON FROWNING", 128589>>,
    <<"PERSON WITH POUTING FACE", 128590>>, <<"PERSON WITH FOLDED HANDS", 128591>>,
    <<"NORTH WEST POINTING LEAF", 128592>>, <<"SOUTH WEST POINTING LEAF", 128593>>,
    <<"NORTH EAST POINTING LEAF", 128594>>, <<"SOUTH EAST POINTING LEAF", 128595>>,
    <<"TURNED NORTH WEST POINTING LEAF", 128596>>, <<"TURNED SOUTH WEST POINTING LEAF", 128597>>,
    <<"TURNED NORTH EAST POINTING LEAF", 128598>>, <<"TURNED SOUTH EAST POINTING LEAF", 128599>>,
    <<"NORTH WEST POINTING VINE LEAF", 128600>>, <<"SOUTH WEST POINTING VINE LEAF", 128601>>,
    <<"NORTH EAST POINTING VINE LEAF", 128602>>, <<"SOUTH EAST POINTING VINE LEAF", 128603>>,
    <<"HEAVY NORTH WEST POINTING VINE LEAF", 128604>>,
    <<"HEAVY SOUTH WEST POINTING VINE LEAF", 128605>>,
    <<"HEAVY NORTH EAST POINTING VINE LEAF", 128606>>,
    <<"HEAVY SOUTH EAST POINTING VINE LEAF", 128607>>, <<"NORTH WEST POINTING BUD", 128608>>,
    <<"SOUTH WEST POINTING BUD", 128609>>, <<"NORTH EAST POINTING BUD", 128610>>,
    <<"SOUTH EAST POINTING BUD", 128611>>, <<"HEAVY NORTH WEST POINTING BUD", 128612>>,
    <<"HEAVY SOUTH WEST POINTING BUD", 128613>>, <<"HEAVY NORTH EAST POINTING BUD", 128614>>,
    <<"HEAVY SOUTH EAST POINTING BUD", 128615>>, <<"HOLLOW QUILT SQUARE ORNAMENT", 128616>>,
    <<"HOLLOW QUILT SQUARE ORNAMENT IN BLACK SQUARE", 128617>>,
    <<"SOLID QUILT SQUARE ORNAMENT", 128618>>,
    <<"SOLID QUILT SQUARE ORNAMENT IN BLACK SQUARE", 128619>>, <<"LEFTWARDS ROCKET", 128620>>,
    <<"UPWARDS ROCKET", 128621>>, <<"RIGHTWARDS ROCKET", 128622>>, <<"DOWNWARDS ROCKET", 128623>>,
    <<"SCRIPT LIGATURE ET ORNAMENT", 128624>>, <<"HEAVY SCRIPT LIGATURE ET ORNAMENT", 128625>>,
    <<"LIGATURE OPEN ET ORNAMENT", 128626>>, <<"HEAVY LIGATURE OPEN ET ORNAMENT", 128627>>,
    <<"HEAVY AMPERSAND ORNAMENT", 128628>>, <<"SWASH AMPERSAND ORNAMENT", 128629>>,
    <<"SANS-SERIF HEAVY DOUBLE TURNED COMMA QUOTATION MARK ORNAMENT", 128630>>,
    <<"SANS-SERIF HEAVY DOUBLE COMMA QUOTATION MARK ORNAMENT", 128631>>,
    <<"SANS-SERIF HEAVY LOW DOUBLE COMMA QUOTATION MARK ORNAMENT", 128632>>,
    <<"HEAVY INTERROBANG ORNAMENT", 128633>>, <<"SANS-SERIF INTERROBANG ORNAMENT", 128634>>,
    <<"HEAVY SANS-SERIF INTERROBANG ORNAMENT", 128635>>, <<"VERY HEAVY SOLIDUS", 128636>>,
    <<"VERY HEAVY REVERSE SOLIDUS", 128637>>, <<"CHECKER BOARD", 128638>>,
    <<"REVERSE CHECKER BOARD", 128639>>, <<"ROCKET", 128640>>, <<"HELICOPTER", 128641>>,
    <<"STEAM LOCOMOTIVE", 128642>>, <<"RAILWAY CAR", 128643>>, <<"HIGH-SPEED TRAIN", 128644>>,
    <<"HIGH-SPEED TRAIN WITH BULLET NOSE", 128645>>, <<"TRAIN", 128646>>, <<"METRO", 128647>>,
    <<"LIGHT RAIL", 128648>>, <<"STATION", 128649>>, <<"TRAM", 128650>>, <<"TRAM CAR", 128651>>,
    <<"BUS", 128652>>, <<"ONCOMING BUS", 128653>>, <<"TROLLEYBUS", 128654>>, <<"BUS STOP", 128655>>,
    <<"MINIBUS", 128656>>, <<"AMBULANCE", 128657>>, <<"FIRE ENGINE", 128658>>,
    <<"POLICE CAR", 128659>>, <<"ONCOMING POLICE CAR", 128660>>, <<"TAXI", 128661>>,
    <<"ONCOMING TAXI", 128662>>, <<"AUTOMOBILE", 128663>>, <<"ONCOMING AUTOMOBILE", 128664>>,
    <<"RECREATIONAL VEHICLE", 128665>>, <<"DELIVERY TRUCK", 128666>>, <<"ARTICULATED LORRY", 128667>>,
    <<"TRACTOR", 128668>>, <<"MONORAIL", 128669>>, <<"MOUNTAIN RAILWAY", 128670>>,
    <<"SUSPENSION RAILWAY", 128671>>, <<"MOUNTAIN CABLEWAY", 128672>>, <<"AERIAL TRAMWAY", 128673>>,
    <<"SHIP", 128674>>, <<"ROWBOAT", 128675>>, <<"SPEEDBOAT", 128676>>,
    <<"HORIZONTAL TRAFFIC LIGHT", 128677>>, <<"VERTICAL TRAFFIC LIGHT", 128678>>,
    <<"CONSTRUCTION SIGN", 128679>>, <<"POLICE CARS REVOLVING LIGHT", 128680>>,
    <<"TRIANGULAR FLAG ON POST", 128681>>, <<"DOOR", 128682>>, <<"NO ENTRY SIGN", 128683>>,
    <<"SMOKING SYMBOL", 128684>>, <<"NO SMOKING SYMBOL", 128685>>,
    <<"PUT LITTER IN ITS PLACE SYMBOL", 128686>>, <<"DO NOT LITTER SYMBOL", 128687>>,
    <<"POTABLE WATER SYMBOL", 128688>>, <<"NON-POTABLE WATER SYMBOL", 128689>>, <<"BICYCLE", 128690>>,
    <<"NO BICYCLES", 128691>>, <<"BICYCLIST", 128692>>, <<"MOUNTAIN BICYCLIST", 128693>>,
    <<"PEDESTRIAN", 128694>>, <<"NO PEDESTRIANS", 128695>>, <<"CHILDREN CROSSING", 128696>>,
    <<"MENS SYMBOL", 128697>>, <<"WOMENS SYMBOL", 128698>>, <<"RESTROOM", 128699>>,
    <<"BABY SYMBOL", 128700>>, <<"TOILET", 128701>>, <<"WATER CLOSET", 128702>>, <<"SHOWER", 128703>>,
    <<"BATH", 128704>>, <<"BATHTUB", 128705>>, <<"PASSPORT CONTROL", 128706>>, <<"CUSTOMS", 128707>>,
    <<"BAGGAGE CLAIM", 128708>>, <<"LEFT LUGGAGE", 128709>>,
    <<"TRIANGLE WITH ROUNDED CORNERS", 128710>>, <<"PROHIBITED SIGN", 128711>>,
    <<"CIRCLED INFORMATION SOURCE", 128712>>, <<"BOYS SYMBOL", 128713>>, <<"GIRLS SYMBOL", 128714>>,
    <<"COUCH AND LAMP", 128715>>, <<"SLEEPING ACCOMMODATION", 128716>>, <<"SHOPPING BAGS", 128717>>,
    <<"BELLHOP BELL", 128718>>, <<"BED", 128719>>, <<"PLACE OF WORSHIP", 128720>>,
    <<"OCTAGONAL SIGN", 128721>>, <<"SHOPPING TROLLEY", 128722>>, <<"STUPA", 128723>>,
    <<"PAGODA", 128724>>, <<"HINDU TEMPLE", 128725>>, <<"HUT", 128726>>, <<"ELEVATOR", 128727>>,
    <<"PLAYGROUND SLIDE", 128733>>, <<"WHEEL", 128734>>, <<"RING BUOY", 128735>>,
    <<"HAMMER AND WRENCH", 128736>>, <<"SHIELD", 128737>>, <<"OIL DRUM", 128738>>,
    <<"MOTORWAY", 128739>>, <<"RAILWAY TRACK", 128740>>, <<"MOTOR BOAT", 128741>>,
    <<"UP-POINTING MILITARY AIRPLANE", 128742>>, <<"UP-POINTING AIRPLANE", 128743>>,
    <<"UP-POINTING SMALL AIRPLANE", 128744>>, <<"SMALL AIRPLANE", 128745>>,
    <<"NORTHEAST-POINTING AIRPLANE", 128746>>, <<"AIRPLANE DEPARTURE", 128747>>,
    <<"AIRPLANE ARRIVING", 128748>>, <<"SATELLITE", 128752>>, <<"ONCOMING FIRE ENGINE", 128753>>,
    <<"DIESEL LOCOMOTIVE", 128754>>, <<"PASSENGER SHIP", 128755>>, <<"SCOOTER", 128756>>,
    <<"MOTOR SCOOTER", 128757>>, <<"CANOE", 128758>>, <<"SLED", 128759>>, <<"FLYING SAUCER", 128760>>,
    <<"SKATEBOARD", 128761>>, <<"AUTO RICKSHAW", 128762>>, <<"PICKUP TRUCK", 128763>>,
    <<"ROLLER SKATE", 128764>>, <<"ALCHEMICAL SYMBOL FOR QUINTESSENCE", 128768>>,
    <<"ALCHEMICAL SYMBOL FOR AIR", 128769>>, <<"ALCHEMICAL SYMBOL FOR FIRE", 128770>>,
    <<"ALCHEMICAL SYMBOL FOR EARTH", 128771>>, <<"ALCHEMICAL SYMBOL FOR WATER", 128772>>,
    <<"ALCHEMICAL SYMBOL FOR AQUAFORTIS", 128773>>, <<"ALCHEMICAL SYMBOL FOR AQUA REGIA", 128774>>,
    <<"ALCHEMICAL SYMBOL FOR AQUA REGIA-2", 128775>>, <<"ALCHEMICAL SYMBOL FOR AQUA VITAE", 128776>>,
    <<"ALCHEMICAL SYMBOL FOR AQUA VITAE-2", 128777>>, <<"ALCHEMICAL SYMBOL FOR VINEGAR", 128778>>,
    <<"ALCHEMICAL SYMBOL FOR VINEGAR-2", 128779>>, <<"ALCHEMICAL SYMBOL FOR VINEGAR-3", 128780>>,
    <<"ALCHEMICAL SYMBOL FOR SULFUR", 128781>>,
    <<"ALCHEMICAL SYMBOL FOR PHILOSOPHERS SULFUR", 128782>>,
    <<"ALCHEMICAL SYMBOL FOR BLACK SULFUR", 128783>>,
    <<"ALCHEMICAL SYMBOL FOR MERCURY SUBLIMATE", 128784>>,
    <<"ALCHEMICAL SYMBOL FOR MERCURY SUBLIMATE-2", 128785>>,
    <<"ALCHEMICAL SYMBOL FOR MERCURY SUBLIMATE-3", 128786>>,
    <<"ALCHEMICAL SYMBOL FOR CINNABAR", 128787>>, <<"ALCHEMICAL SYMBOL FOR SALT", 128788>>,
    <<"ALCHEMICAL SYMBOL FOR NITRE", 128789>>, <<"ALCHEMICAL SYMBOL FOR VITRIOL", 128790>>,
    <<"ALCHEMICAL SYMBOL FOR VITRIOL-2", 128791>>, <<"ALCHEMICAL SYMBOL FOR ROCK SALT", 128792>>,
    <<"ALCHEMICAL SYMBOL FOR ROCK SALT-2", 128793>>, <<"ALCHEMICAL SYMBOL FOR GOLD", 128794>>,
    <<"ALCHEMICAL SYMBOL FOR SILVER", 128795>>, <<"ALCHEMICAL SYMBOL FOR IRON ORE", 128796>>,
    <<"ALCHEMICAL SYMBOL FOR IRON ORE-2", 128797>>, <<"ALCHEMICAL SYMBOL FOR CROCUS OF IRON", 128798>>,
    <<"ALCHEMICAL SYMBOL FOR REGULUS OF IRON", 128799>>,
    <<"ALCHEMICAL SYMBOL FOR COPPER ORE", 128800>>,
    <<"ALCHEMICAL SYMBOL FOR IRON-COPPER ORE", 128801>>,
    <<"ALCHEMICAL SYMBOL FOR SUBLIMATE OF COPPER", 128802>>,
    <<"ALCHEMICAL SYMBOL FOR CROCUS OF COPPER", 128803>>,
    <<"ALCHEMICAL SYMBOL FOR CROCUS OF COPPER-2", 128804>>,
    <<"ALCHEMICAL SYMBOL FOR COPPER ANTIMONIATE", 128805>>,
    <<"ALCHEMICAL SYMBOL FOR SALT OF COPPER ANTIMONIATE", 128806>>,
    <<"ALCHEMICAL SYMBOL FOR SUBLIMATE OF SALT OF COPPER", 128807>>,
    <<"ALCHEMICAL SYMBOL FOR VERDIGRIS", 128808>>, <<"ALCHEMICAL SYMBOL FOR TIN ORE", 128809>>,
    <<"ALCHEMICAL SYMBOL FOR LEAD ORE", 128810>>, <<"ALCHEMICAL SYMBOL FOR ANTIMONY ORE", 128811>>,
    <<"ALCHEMICAL SYMBOL FOR SUBLIMATE OF ANTIMONY", 128812>>,
    <<"ALCHEMICAL SYMBOL FOR SALT OF ANTIMONY", 128813>>,
    <<"ALCHEMICAL SYMBOL FOR SUBLIMATE OF SALT OF ANTIMONY", 128814>>,
    <<"ALCHEMICAL SYMBOL FOR VINEGAR OF ANTIMONY", 128815>>,
    <<"ALCHEMICAL SYMBOL FOR REGULUS OF ANTIMONY", 128816>>,
    <<"ALCHEMICAL SYMBOL FOR REGULUS OF ANTIMONY-2", 128817>>,
    <<"ALCHEMICAL SYMBOL FOR REGULUS", 128818>>, <<"ALCHEMICAL SYMBOL FOR REGULUS-2", 128819>>,
    <<"ALCHEMICAL SYMBOL FOR REGULUS-3", 128820>>, <<"ALCHEMICAL SYMBOL FOR REGULUS-4", 128821>>,
    <<"ALCHEMICAL SYMBOL FOR ALKALI", 128822>>, <<"ALCHEMICAL SYMBOL FOR ALKALI-2", 128823>>,
    <<"ALCHEMICAL SYMBOL FOR MARCASITE", 128824>>, <<"ALCHEMICAL SYMBOL FOR SAL-AMMONIAC", 128825>>,
    <<"ALCHEMICAL SYMBOL FOR ARSENIC", 128826>>, <<"ALCHEMICAL SYMBOL FOR REALGAR", 128827>>,
    <<"ALCHEMICAL SYMBOL FOR REALGAR-2", 128828>>, <<"ALCHEMICAL SYMBOL FOR AURIPIGMENT", 128829>>,
    <<"ALCHEMICAL SYMBOL FOR BISMUTH ORE", 128830>>, <<"ALCHEMICAL SYMBOL FOR TARTAR", 128831>>,
    <<"ALCHEMICAL SYMBOL FOR TARTAR-2", 128832>>, <<"ALCHEMICAL SYMBOL FOR QUICK LIME", 128833>>,
    <<"ALCHEMICAL SYMBOL FOR BORAX", 128834>>, <<"ALCHEMICAL SYMBOL FOR BORAX-2", 128835>>,
    <<"ALCHEMICAL SYMBOL FOR BORAX-3", 128836>>, <<"ALCHEMICAL SYMBOL FOR ALUM", 128837>>,
    <<"ALCHEMICAL SYMBOL FOR OIL", 128838>>, <<"ALCHEMICAL SYMBOL FOR SPIRIT", 128839>>,
    <<"ALCHEMICAL SYMBOL FOR TINCTURE", 128840>>, <<"ALCHEMICAL SYMBOL FOR GUM", 128841>>,
    <<"ALCHEMICAL SYMBOL FOR WAX", 128842>>, <<"ALCHEMICAL SYMBOL FOR POWDER", 128843>>,
    <<"ALCHEMICAL SYMBOL FOR CALX", 128844>>, <<"ALCHEMICAL SYMBOL FOR TUTTY", 128845>>,
    <<"ALCHEMICAL SYMBOL FOR CAPUT MORTUUM", 128846>>,
    <<"ALCHEMICAL SYMBOL FOR SCEPTER OF JOVE", 128847>>, <<"ALCHEMICAL SYMBOL FOR CADUCEUS", 128848>>,
    <<"ALCHEMICAL SYMBOL FOR TRIDENT", 128849>>, <<"ALCHEMICAL SYMBOL FOR STARRED TRIDENT", 128850>>,
    <<"ALCHEMICAL SYMBOL FOR LODESTONE", 128851>>, <<"ALCHEMICAL SYMBOL FOR SOAP", 128852>>,
    <<"ALCHEMICAL SYMBOL FOR URINE", 128853>>, <<"ALCHEMICAL SYMBOL FOR HORSE DUNG", 128854>>,
    <<"ALCHEMICAL SYMBOL FOR ASHES", 128855>>, <<"ALCHEMICAL SYMBOL FOR POT ASHES", 128856>>,
    <<"ALCHEMICAL SYMBOL FOR BRICK", 128857>>, <<"ALCHEMICAL SYMBOL FOR POWDERED BRICK", 128858>>,
    <<"ALCHEMICAL SYMBOL FOR AMALGAM", 128859>>,
    <<"ALCHEMICAL SYMBOL FOR STRATUM SUPER STRATUM", 128860>>,
    <<"ALCHEMICAL SYMBOL FOR STRATUM SUPER STRATUM-2", 128861>>,
    <<"ALCHEMICAL SYMBOL FOR SUBLIMATION", 128862>>, <<"ALCHEMICAL SYMBOL FOR PRECIPITATE", 128863>>,
    <<"ALCHEMICAL SYMBOL FOR DISTILL", 128864>>, <<"ALCHEMICAL SYMBOL FOR DISSOLVE", 128865>>,
    <<"ALCHEMICAL SYMBOL FOR DISSOLVE-2", 128866>>, <<"ALCHEMICAL SYMBOL FOR PURIFY", 128867>>,
    <<"ALCHEMICAL SYMBOL FOR PUTREFACTION", 128868>>, <<"ALCHEMICAL SYMBOL FOR CRUCIBLE", 128869>>,
    <<"ALCHEMICAL SYMBOL FOR CRUCIBLE-2", 128870>>, <<"ALCHEMICAL SYMBOL FOR CRUCIBLE-3", 128871>>,
    <<"ALCHEMICAL SYMBOL FOR CRUCIBLE-4", 128872>>, <<"ALCHEMICAL SYMBOL FOR CRUCIBLE-5", 128873>>,
    <<"ALCHEMICAL SYMBOL FOR ALEMBIC", 128874>>, <<"ALCHEMICAL SYMBOL FOR BATH OF MARY", 128875>>,
    <<"ALCHEMICAL SYMBOL FOR BATH OF VAPOURS", 128876>>, <<"ALCHEMICAL SYMBOL FOR RETORT", 128877>>,
    <<"ALCHEMICAL SYMBOL FOR HOUR", 128878>>, <<"ALCHEMICAL SYMBOL FOR NIGHT", 128879>>,
    <<"ALCHEMICAL SYMBOL FOR DAY-NIGHT", 128880>>, <<"ALCHEMICAL SYMBOL FOR MONTH", 128881>>,
    <<"ALCHEMICAL SYMBOL FOR HALF DRAM", 128882>>, <<"ALCHEMICAL SYMBOL FOR HALF OUNCE", 128883>>,
    <<"BLACK LEFT-POINTING ISOSCELES RIGHT TRIANGLE", 128896>>,
    <<"BLACK UP-POINTING ISOSCELES RIGHT TRIANGLE", 128897>>,
    <<"BLACK RIGHT-POINTING ISOSCELES RIGHT TRIANGLE", 128898>>,
    <<"BLACK DOWN-POINTING ISOSCELES RIGHT TRIANGLE", 128899>>,
    <<"BLACK SLIGHTLY SMALL CIRCLE", 128900>>, <<"MEDIUM BOLD WHITE CIRCLE", 128901>>,
    <<"BOLD WHITE CIRCLE", 128902>>, <<"HEAVY WHITE CIRCLE", 128903>>,
    <<"VERY HEAVY WHITE CIRCLE", 128904>>, <<"EXTREMELY HEAVY WHITE CIRCLE", 128905>>,
    <<"WHITE CIRCLE CONTAINING BLACK SMALL CIRCLE", 128906>>, <<"ROUND TARGET", 128907>>,
    <<"BLACK TINY SQUARE", 128908>>, <<"BLACK SLIGHTLY SMALL SQUARE", 128909>>,
    <<"LIGHT WHITE SQUARE", 128910>>, <<"MEDIUM WHITE SQUARE", 128911>>,
    <<"BOLD WHITE SQUARE", 128912>>, <<"HEAVY WHITE SQUARE", 128913>>,
    <<"VERY HEAVY WHITE SQUARE", 128914>>, <<"EXTREMELY HEAVY WHITE SQUARE", 128915>>,
    <<"WHITE SQUARE CONTAINING BLACK VERY SMALL SQUARE", 128916>>,
    <<"WHITE SQUARE CONTAINING BLACK MEDIUM SQUARE", 128917>>, <<"SQUARE TARGET", 128918>>,
    <<"BLACK TINY DIAMOND", 128919>>, <<"BLACK VERY SMALL DIAMOND", 128920>>,
    <<"BLACK MEDIUM SMALL DIAMOND", 128921>>,
    <<"WHITE DIAMOND CONTAINING BLACK VERY SMALL DIAMOND", 128922>>,
    <<"WHITE DIAMOND CONTAINING BLACK MEDIUM DIAMOND", 128923>>, <<"DIAMOND TARGET", 128924>>,
    <<"BLACK TINY LOZENGE", 128925>>, <<"BLACK VERY SMALL LOZENGE", 128926>>,
    <<"BLACK MEDIUM SMALL LOZENGE", 128927>>,
    <<"WHITE LOZENGE CONTAINING BLACK SMALL LOZENGE", 128928>>, <<"THIN GREEK CROSS", 128929>>,
    <<"LIGHT GREEK CROSS", 128930>>, <<"MEDIUM GREEK CROSS", 128931>>, <<"BOLD GREEK CROSS", 128932>>,
    <<"VERY BOLD GREEK CROSS", 128933>>, <<"VERY HEAVY GREEK CROSS", 128934>>,
    <<"EXTREMELY HEAVY GREEK CROSS", 128935>>, <<"THIN SALTIRE", 128936>>, <<"LIGHT SALTIRE", 128937>>,
    <<"MEDIUM SALTIRE", 128938>>, <<"BOLD SALTIRE", 128939>>, <<"HEAVY SALTIRE", 128940>>,
    <<"VERY HEAVY SALTIRE", 128941>>, <<"EXTREMELY HEAVY SALTIRE", 128942>>,
    <<"LIGHT FIVE SPOKED ASTERISK", 128943>>, <<"MEDIUM FIVE SPOKED ASTERISK", 128944>>,
    <<"BOLD FIVE SPOKED ASTERISK", 128945>>, <<"HEAVY FIVE SPOKED ASTERISK", 128946>>,
    <<"VERY HEAVY FIVE SPOKED ASTERISK", 128947>>, <<"EXTREMELY HEAVY FIVE SPOKED ASTERISK", 128948>>,
    <<"LIGHT SIX SPOKED ASTERISK", 128949>>, <<"MEDIUM SIX SPOKED ASTERISK", 128950>>,
    <<"BOLD SIX SPOKED ASTERISK", 128951>>, <<"HEAVY SIX SPOKED ASTERISK", 128952>>,
    <<"VERY HEAVY SIX SPOKED ASTERISK", 128953>>, <<"EXTREMELY HEAVY SIX SPOKED ASTERISK", 128954>>,
    <<"LIGHT EIGHT SPOKED ASTERISK", 128955>>, <<"MEDIUM EIGHT SPOKED ASTERISK", 128956>>,
    <<"BOLD EIGHT SPOKED ASTERISK", 128957>>, <<"HEAVY EIGHT SPOKED ASTERISK", 128958>>,
    <<"VERY HEAVY EIGHT SPOKED ASTERISK", 128959>>, <<"LIGHT THREE POINTED BLACK STAR", 128960>>,
    <<"MEDIUM THREE POINTED BLACK STAR", 128961>>, <<"THREE POINTED BLACK STAR", 128962>>,
    <<"MEDIUM THREE POINTED PINWHEEL STAR", 128963>>, <<"LIGHT FOUR POINTED BLACK STAR", 128964>>,
    <<"MEDIUM FOUR POINTED BLACK STAR", 128965>>, <<"FOUR POINTED BLACK STAR", 128966>>,
    <<"MEDIUM FOUR POINTED PINWHEEL STAR", 128967>>,
    <<"REVERSE LIGHT FOUR POINTED PINWHEEL STAR", 128968>>,
    <<"LIGHT FIVE POINTED BLACK STAR", 128969>>, <<"HEAVY FIVE POINTED BLACK STAR", 128970>>,
    <<"MEDIUM SIX POINTED BLACK STAR", 128971>>, <<"HEAVY SIX POINTED BLACK STAR", 128972>>,
    <<"SIX POINTED PINWHEEL STAR", 128973>>, <<"MEDIUM EIGHT POINTED BLACK STAR", 128974>>,
    <<"HEAVY EIGHT POINTED BLACK STAR", 128975>>, <<"VERY HEAVY EIGHT POINTED BLACK STAR", 128976>>,
    <<"HEAVY EIGHT POINTED PINWHEEL STAR", 128977>>, <<"LIGHT TWELVE POINTED BLACK STAR", 128978>>,
    <<"HEAVY TWELVE POINTED BLACK STAR", 128979>>, <<"HEAVY TWELVE POINTED PINWHEEL STAR", 128980>>,
    <<"CIRCLED TRIANGLE", 128981>>, <<"NEGATIVE CIRCLED TRIANGLE", 128982>>,
    <<"CIRCLED SQUARE", 128983>>, <<"NEGATIVE CIRCLED SQUARE", 128984>>,
    <<"LARGE ORANGE CIRCLE", 128992>>, <<"LARGE YELLOW CIRCLE", 128993>>,
    <<"LARGE GREEN CIRCLE", 128994>>, <<"LARGE PURPLE CIRCLE", 128995>>,
    <<"LARGE BROWN CIRCLE", 128996>>, <<"LARGE RED SQUARE", 128997>>, <<"LARGE BLUE SQUARE", 128998>>,
    <<"LARGE ORANGE SQUARE", 128999>>, <<"LARGE YELLOW SQUARE", 129000>>,
    <<"LARGE GREEN SQUARE", 129001>>, <<"LARGE PURPLE SQUARE", 129002>>,
    <<"LARGE BROWN SQUARE", 129003>>, <<"HEAVY EQUALS SIGN", 129008>>,
    <<"LEFTWARDS ARROW WITH SMALL TRIANGLE ARROWHEAD", 129024>>,
    <<"UPWARDS ARROW WITH SMALL TRIANGLE ARROWHEAD", 129025>>,
    <<"RIGHTWARDS ARROW WITH SMALL TRIANGLE ARROWHEAD", 129026>>,
    <<"DOWNWARDS ARROW WITH SMALL TRIANGLE ARROWHEAD", 129027>>,
    <<"LEFTWARDS ARROW WITH MEDIUM TRIANGLE ARROWHEAD", 129028>>,
    <<"UPWARDS ARROW WITH MEDIUM TRIANGLE ARROWHEAD", 129029>>,
    <<"RIGHTWARDS ARROW WITH MEDIUM TRIANGLE ARROWHEAD", 129030>>,
    <<"DOWNWARDS ARROW WITH MEDIUM TRIANGLE ARROWHEAD", 129031>>,
    <<"LEFTWARDS ARROW WITH LARGE TRIANGLE ARROWHEAD", 129032>>,
    <<"UPWARDS ARROW WITH LARGE TRIANGLE ARROWHEAD", 129033>>,
    <<"RIGHTWARDS ARROW WITH LARGE TRIANGLE ARROWHEAD", 129034>>,
    <<"DOWNWARDS ARROW WITH LARGE TRIANGLE ARROWHEAD", 129035>>,
    <<"LEFTWARDS ARROW WITH SMALL EQUILATERAL ARROWHEAD", 129040>>,
    <<"UPWARDS ARROW WITH SMALL EQUILATERAL ARROWHEAD", 129041>>,
    <<"RIGHTWARDS ARROW WITH SMALL EQUILATERAL ARROWHEAD", 129042>>,
    <<"DOWNWARDS ARROW WITH SMALL EQUILATERAL ARROWHEAD", 129043>>,
    <<"LEFTWARDS ARROW WITH EQUILATERAL ARROWHEAD", 129044>>,
    <<"UPWARDS ARROW WITH EQUILATERAL ARROWHEAD", 129045>>,
    <<"RIGHTWARDS ARROW WITH EQUILATERAL ARROWHEAD", 129046>>,
    <<"DOWNWARDS ARROW WITH EQUILATERAL ARROWHEAD", 129047>>,
    <<"HEAVY LEFTWARDS ARROW WITH EQUILATERAL ARROWHEAD", 129048>>,
    <<"HEAVY UPWARDS ARROW WITH EQUILATERAL ARROWHEAD", 129049>>,
    <<"HEAVY RIGHTWARDS ARROW WITH EQUILATERAL ARROWHEAD", 129050>>,
    <<"HEAVY DOWNWARDS ARROW WITH EQUILATERAL ARROWHEAD", 129051>>,
    <<"HEAVY LEFTWARDS ARROW WITH LARGE EQUILATERAL ARROWHEAD", 129052>>,
    <<"HEAVY UPWARDS ARROW WITH LARGE EQUILATERAL ARROWHEAD", 129053>>,
    <<"HEAVY RIGHTWARDS ARROW WITH LARGE EQUILATERAL ARROWHEAD", 129054>>,
    <<"HEAVY DOWNWARDS ARROW WITH LARGE EQUILATERAL ARROWHEAD", 129055>>,
    <<"LEFTWARDS TRIANGLE-HEADED ARROW WITH NARROW SHAFT", 129056>>,
    <<"UPWARDS TRIANGLE-HEADED ARROW WITH NARROW SHAFT", 129057>>,
    <<"RIGHTWARDS TRIANGLE-HEADED ARROW WITH NARROW SHAFT", 129058>>,
    <<"DOWNWARDS TRIANGLE-HEADED ARROW WITH NARROW SHAFT", 129059>>,
    <<"LEFTWARDS TRIANGLE-HEADED ARROW WITH MEDIUM SHAFT", 129060>>,
    <<"UPWARDS TRIANGLE-HEADED ARROW WITH MEDIUM SHAFT", 129061>>,
    <<"RIGHTWARDS TRIANGLE-HEADED ARROW WITH MEDIUM SHAFT", 129062>>,
    <<"DOWNWARDS TRIANGLE-HEADED ARROW WITH MEDIUM SHAFT", 129063>>,
    <<"LEFTWARDS TRIANGLE-HEADED ARROW WITH BOLD SHAFT", 129064>>,
    <<"UPWARDS TRIANGLE-HEADED ARROW WITH BOLD SHAFT", 129065>>,
    <<"RIGHTWARDS TRIANGLE-HEADED ARROW WITH BOLD SHAFT", 129066>>,
    <<"DOWNWARDS TRIANGLE-HEADED ARROW WITH BOLD SHAFT", 129067>>,
    <<"LEFTWARDS TRIANGLE-HEADED ARROW WITH HEAVY SHAFT", 129068>>,
    <<"UPWARDS TRIANGLE-HEADED ARROW WITH HEAVY SHAFT", 129069>>,
    <<"RIGHTWARDS TRIANGLE-HEADED ARROW WITH HEAVY SHAFT", 129070>>,
    <<"DOWNWARDS TRIANGLE-HEADED ARROW WITH HEAVY SHAFT", 129071>>,
    <<"LEFTWARDS TRIANGLE-HEADED ARROW WITH VERY HEAVY SHAFT", 129072>>,
    <<"UPWARDS TRIANGLE-HEADED ARROW WITH VERY HEAVY SHAFT", 129073>>,
    <<"RIGHTWARDS TRIANGLE-HEADED ARROW WITH VERY HEAVY SHAFT", 129074>>,
    <<"DOWNWARDS TRIANGLE-HEADED ARROW WITH VERY HEAVY SHAFT", 129075>>,
    <<"LEFTWARDS FINGER-POST ARROW", 129076>>, <<"UPWARDS FINGER-POST ARROW", 129077>>,
    <<"RIGHTWARDS FINGER-POST ARROW", 129078>>, <<"DOWNWARDS FINGER-POST ARROW", 129079>>,
    <<"LEFTWARDS SQUARED ARROW", 129080>>, <<"UPWARDS SQUARED ARROW", 129081>>,
    <<"RIGHTWARDS SQUARED ARROW", 129082>>, <<"DOWNWARDS SQUARED ARROW", 129083>>,
    <<"LEFTWARDS COMPRESSED ARROW", 129084>>, <<"UPWARDS COMPRESSED ARROW", 129085>>,
    <<"RIGHTWARDS COMPRESSED ARROW", 129086>>, <<"DOWNWARDS COMPRESSED ARROW", 129087>>,
    <<"LEFTWARDS HEAVY COMPRESSED ARROW", 129088>>, <<"UPWARDS HEAVY COMPRESSED ARROW", 129089>>,
    <<"RIGHTWARDS HEAVY COMPRESSED ARROW", 129090>>, <<"DOWNWARDS HEAVY COMPRESSED ARROW", 129091>>,
    <<"LEFTWARDS HEAVY ARROW", 129092>>, <<"UPWARDS HEAVY ARROW", 129093>>,
    <<"RIGHTWARDS HEAVY ARROW", 129094>>, <<"DOWNWARDS HEAVY ARROW", 129095>>,
    <<"LEFTWARDS SANS-SERIF ARROW", 129104>>, <<"UPWARDS SANS-SERIF ARROW", 129105>>,
    <<"RIGHTWARDS SANS-SERIF ARROW", 129106>>, <<"DOWNWARDS SANS-SERIF ARROW", 129107>>,
    <<"NORTH WEST SANS-SERIF ARROW", 129108>>, <<"NORTH EAST SANS-SERIF ARROW", 129109>>,
    <<"SOUTH EAST SANS-SERIF ARROW", 129110>>, <<"SOUTH WEST SANS-SERIF ARROW", 129111>>,
    <<"LEFT RIGHT SANS-SERIF ARROW", 129112>>, <<"UP DOWN SANS-SERIF ARROW", 129113>>,
    <<"WIDE-HEADED LEFTWARDS LIGHT BARB ARROW", 129120>>,
    <<"WIDE-HEADED UPWARDS LIGHT BARB ARROW", 129121>>,
    <<"WIDE-HEADED RIGHTWARDS LIGHT BARB ARROW", 129122>>,
    <<"WIDE-HEADED DOWNWARDS LIGHT BARB ARROW", 129123>>,
    <<"WIDE-HEADED NORTH WEST LIGHT BARB ARROW", 129124>>,
    <<"WIDE-HEADED NORTH EAST LIGHT BARB ARROW", 129125>>,
    <<"WIDE-HEADED SOUTH EAST LIGHT BARB ARROW", 129126>>,
    <<"WIDE-HEADED SOUTH WEST LIGHT BARB ARROW", 129127>>,
    <<"WIDE-HEADED LEFTWARDS BARB ARROW", 129128>>, <<"WIDE-HEADED UPWARDS BARB ARROW", 129129>>,
    <<"WIDE-HEADED RIGHTWARDS BARB ARROW", 129130>>, <<"WIDE-HEADED DOWNWARDS BARB ARROW", 129131>>,
    <<"WIDE-HEADED NORTH WEST BARB ARROW", 129132>>, <<"WIDE-HEADED NORTH EAST BARB ARROW", 129133>>,
    <<"WIDE-HEADED SOUTH EAST BARB ARROW", 129134>>, <<"WIDE-HEADED SOUTH WEST BARB ARROW", 129135>>,
    <<"WIDE-HEADED LEFTWARDS MEDIUM BARB ARROW", 129136>>,
    <<"WIDE-HEADED UPWARDS MEDIUM BARB ARROW", 129137>>,
    <<"WIDE-HEADED RIGHTWARDS MEDIUM BARB ARROW", 129138>>,
    <<"WIDE-HEADED DOWNWARDS MEDIUM BARB ARROW", 129139>>,
    <<"WIDE-HEADED NORTH WEST MEDIUM BARB ARROW", 129140>>,
    <<"WIDE-HEADED NORTH EAST MEDIUM BARB ARROW", 129141>>,
    <<"WIDE-HEADED SOUTH EAST MEDIUM BARB ARROW", 129142>>,
    <<"WIDE-HEADED SOUTH WEST MEDIUM BARB ARROW", 129143>>,
    <<"WIDE-HEADED LEFTWARDS HEAVY BARB ARROW", 129144>>,
    <<"WIDE-HEADED UPWARDS HEAVY BARB ARROW", 129145>>,
    <<"WIDE-HEADED RIGHTWARDS HEAVY BARB ARROW", 129146>>,
    <<"WIDE-HEADED DOWNWARDS HEAVY BARB ARROW", 129147>>,
    <<"WIDE-HEADED NORTH WEST HEAVY BARB ARROW", 129148>>,
    <<"WIDE-HEADED NORTH EAST HEAVY BARB ARROW", 129149>>,
    <<"WIDE-HEADED SOUTH EAST HEAVY BARB ARROW", 129150>>,
    <<"WIDE-HEADED SOUTH WEST HEAVY BARB ARROW", 129151>>,
    <<"WIDE-HEADED LEFTWARDS VERY HEAVY BARB ARROW", 129152>>,
    <<"WIDE-HEADED UPWARDS VERY HEAVY BARB ARROW", 129153>>,
    <<"WIDE-HEADED RIGHTWARDS VERY HEAVY BARB ARROW", 129154>>,
    <<"WIDE-HEADED DOWNWARDS VERY HEAVY BARB ARROW", 129155>>,
    <<"WIDE-HEADED NORTH WEST VERY HEAVY BARB ARROW", 129156>>,
    <<"WIDE-HEADED NORTH EAST VERY HEAVY BARB ARROW", 129157>>,
    <<"WIDE-HEADED SOUTH EAST VERY HEAVY BARB ARROW", 129158>>,
    <<"WIDE-HEADED SOUTH WEST VERY HEAVY BARB ARROW", 129159>>,
    <<"LEFTWARDS TRIANGLE ARROWHEAD", 129168>>, <<"UPWARDS TRIANGLE ARROWHEAD", 129169>>,
    <<"RIGHTWARDS TRIANGLE ARROWHEAD", 129170>>, <<"DOWNWARDS TRIANGLE ARROWHEAD", 129171>>,
    <<"LEFTWARDS WHITE ARROW WITHIN TRIANGLE ARROWHEAD", 129172>>,
    <<"UPWARDS WHITE ARROW WITHIN TRIANGLE ARROWHEAD", 129173>>,
    <<"RIGHTWARDS WHITE ARROW WITHIN TRIANGLE ARROWHEAD", 129174>>,
    <<"DOWNWARDS WHITE ARROW WITHIN TRIANGLE ARROWHEAD", 129175>>,
    <<"LEFTWARDS ARROW WITH NOTCHED TAIL", 129176>>, <<"UPWARDS ARROW WITH NOTCHED TAIL", 129177>>,
    <<"RIGHTWARDS ARROW WITH NOTCHED TAIL", 129178>>, <<"DOWNWARDS ARROW WITH NOTCHED TAIL", 129179>>,
    <<"HEAVY ARROW SHAFT WIDTH ONE", 129180>>, <<"HEAVY ARROW SHAFT WIDTH TWO THIRDS", 129181>>,
    <<"HEAVY ARROW SHAFT WIDTH ONE HALF", 129182>>, <<"HEAVY ARROW SHAFT WIDTH ONE THIRD", 129183>>,
    <<"LEFTWARDS BOTTOM-SHADED WHITE ARROW", 129184>>,
    <<"RIGHTWARDS BOTTOM SHADED WHITE ARROW", 129185>>, <<"LEFTWARDS TOP SHADED WHITE ARROW", 129186>>,
    <<"RIGHTWARDS TOP SHADED WHITE ARROW", 129187>>, <<"LEFTWARDS LEFT-SHADED WHITE ARROW", 129188>>,
    <<"RIGHTWARDS RIGHT-SHADED WHITE ARROW", 129189>>,
    <<"LEFTWARDS RIGHT-SHADED WHITE ARROW", 129190>>, <<"RIGHTWARDS LEFT-SHADED WHITE ARROW", 129191>>,
    <<"LEFTWARDS BACK-TILTED SHADOWED WHITE ARROW", 129192>>,
    <<"RIGHTWARDS BACK-TILTED SHADOWED WHITE ARROW", 129193>>,
    <<"LEFTWARDS FRONT-TILTED SHADOWED WHITE ARROW", 129194>>,
    <<"RIGHTWARDS FRONT-TILTED SHADOWED WHITE ARROW", 129195>>,
    <<"WHITE ARROW SHAFT WIDTH ONE", 129196>>, <<"WHITE ARROW SHAFT WIDTH TWO THIRDS", 129197>>,
    <<"ARROW POINTING UPWARDS THEN NORTH WEST", 129200>>,
    <<"ARROW POINTING RIGHTWARDS THEN CURVING SOUTH WEST", 129201>>,
    <<"CIRCLED CROSS FORMEE WITH FOUR DOTS", 129280>>,
    <<"CIRCLED CROSS FORMEE WITH TWO DOTS", 129281>>, <<"CIRCLED CROSS FORMEE", 129282>>,
    <<"LEFT HALF CIRCLE WITH FOUR DOTS", 129283>>, <<"LEFT HALF CIRCLE WITH THREE DOTS", 129284>>,
    <<"LEFT HALF CIRCLE WITH TWO DOTS", 129285>>, <<"LEFT HALF CIRCLE WITH DOT", 129286>>,
    <<"LEFT HALF CIRCLE", 129287>>, <<"DOWNWARD FACING HOOK", 129288>>,
    <<"DOWNWARD FACING NOTCHED HOOK", 129289>>, <<"DOWNWARD FACING HOOK WITH DOT", 129290>>,
    <<"DOWNWARD FACING NOTCHED HOOK WITH DOT", 129291>>, <<"PINCHED FINGERS", 129292>>,
    <<"WHITE HEART", 129293>>, <<"BROWN HEART", 129294>>, <<"PINCHING HAND", 129295>>,
    <<"ZIPPER-MOUTH FACE", 129296>>, <<"MONEY-MOUTH FACE", 129297>>,
    <<"FACE WITH THERMOMETER", 129298>>, <<"NERD FACE", 129299>>, <<"THINKING FACE", 129300>>,
    <<"FACE WITH HEAD-BANDAGE", 129301>>, <<"ROBOT FACE", 129302>>, <<"HUGGING FACE", 129303>>,
    <<"SIGN OF THE HORNS", 129304>>, <<"CALL ME HAND", 129305>>, <<"RAISED BACK OF HAND", 129306>>,
    <<"LEFT-FACING FIST", 129307>>, <<"RIGHT-FACING FIST", 129308>>, <<"HANDSHAKE", 129309>>,
    <<"HAND WITH INDEX AND MIDDLE FINGERS CROSSED", 129310>>, <<"I LOVE YOU HAND SIGN", 129311>>,
    <<"FACE WITH COWBOY HAT", 129312>>, <<"CLOWN FACE", 129313>>, <<"NAUSEATED FACE", 129314>>,
    <<"ROLLING ON THE FLOOR LAUGHING", 129315>>, <<"DROOLING FACE", 129316>>, <<"LYING FACE", 129317>>,
    <<"FACE PALM", 129318>>, <<"SNEEZING FACE", 129319>>, <<"FACE WITH ONE EYEBROW RAISED", 129320>>,
    <<"GRINNING FACE WITH STAR EYES", 129321>>,
    <<"GRINNING FACE WITH ONE LARGE AND ONE SMALL EYE", 129322>>,
    <<"FACE WITH FINGER COVERING CLOSED LIPS", 129323>>,
    <<"SERIOUS FACE WITH SYMBOLS COVERING MOUTH", 129324>>,
    <<"SMILING FACE WITH SMILING EYES AND HAND COVERING MOUTH", 129325>>,
    <<"FACE WITH OPEN MOUTH VOMITING", 129326>>, <<"SHOCKED FACE WITH EXPLODING HEAD", 129327>>,
    <<"PREGNANT WOMAN", 129328>>, <<"BREAST-FEEDING", 129329>>, <<"PALMS UP TOGETHER", 129330>>,
    <<"SELFIE", 129331>>, <<"PRINCE", 129332>>, <<"MAN IN TUXEDO", 129333>>,
    <<"MOTHER CHRISTMAS", 129334>>, <<"SHRUG", 129335>>, <<"PERSON DOING CARTWHEEL", 129336>>,
    <<"JUGGLING", 129337>>, <<"FENCER", 129338>>, <<"MODERN PENTATHLON", 129339>>,
    <<"WRESTLERS", 129340>>, <<"WATER POLO", 129341>>, <<"HANDBALL", 129342>>,
    <<"DIVING MASK", 129343>>, <<"WILTED FLOWER", 129344>>, <<"DRUM WITH DRUMSTICKS", 129345>>,
    <<"CLINKING GLASSES", 129346>>, <<"TUMBLER GLASS", 129347>>, <<"SPOON", 129348>>,
    <<"GOAL NET", 129349>>, <<"RIFLE", 129350>>, <<"FIRST PLACE MEDAL", 129351>>,
    <<"SECOND PLACE MEDAL", 129352>>, <<"THIRD PLACE MEDAL", 129353>>, <<"BOXING GLOVE", 129354>>,
    <<"MARTIAL ARTS UNIFORM", 129355>>, <<"CURLING STONE", 129356>>,
    <<"LACROSSE STICK AND BALL", 129357>>, <<"SOFTBALL", 129358>>, <<"FLYING DISC", 129359>>,
    <<"CROISSANT", 129360>>, <<"AVOCADO", 129361>>, <<"CUCUMBER", 129362>>, <<"BACON", 129363>>,
    <<"POTATO", 129364>>, <<"CARROT", 129365>>, <<"BAGUETTE BREAD", 129366>>,
    <<"GREEN SALAD", 129367>>, <<"SHALLOW PAN OF FOOD", 129368>>, <<"STUFFED FLATBREAD", 129369>>,
    <<"EGG", 129370>>, <<"GLASS OF MILK", 129371>>, <<"PEANUTS", 129372>>, <<"KIWIFRUIT", 129373>>,
    <<"PANCAKES", 129374>>, <<"DUMPLING", 129375>>, <<"FORTUNE COOKIE", 129376>>,
    <<"TAKEOUT BOX", 129377>>, <<"CHOPSTICKS", 129378>>, <<"BOWL WITH SPOON", 129379>>,
    <<"CUP WITH STRAW", 129380>>, <<"COCONUT", 129381>>, <<"BROCCOLI", 129382>>, <<"PIE", 129383>>,
    <<"PRETZEL", 129384>>, <<"CUT OF MEAT", 129385>>, <<"SANDWICH", 129386>>,
    <<"CANNED FOOD", 129387>>, <<"LEAFY GREEN", 129388>>, <<"MANGO", 129389>>, <<"MOON CAKE", 129390>>,
    <<"BAGEL", 129391>>, <<"SMILING FACE WITH SMILING EYES AND THREE HEARTS", 129392>>,
    <<"YAWNING FACE", 129393>>, <<"SMILING FACE WITH TEAR", 129394>>,
    <<"FACE WITH PARTY HORN AND PARTY HAT", 129395>>,
    <<"FACE WITH UNEVEN EYES AND WAVY MOUTH", 129396>>, <<"OVERHEATED FACE", 129397>>,
    <<"FREEZING FACE", 129398>>, <<"NINJA", 129399>>, <<"DISGUISED FACE", 129400>>,
    <<"FACE HOLDING BACK TEARS", 129401>>, <<"FACE WITH PLEADING EYES", 129402>>, <<"SARI", 129403>>,
    <<"LAB COAT", 129404>>, <<"GOGGLES", 129405>>, <<"HIKING BOOT", 129406>>, <<"FLAT SHOE", 129407>>,
    <<"CRAB", 129408>>, <<"LION FACE", 129409>>, <<"SCORPION", 129410>>, <<"TURKEY", 129411>>,
    <<"UNICORN FACE", 129412>>, <<"EAGLE", 129413>>, <<"DUCK", 129414>>, <<"BAT", 129415>>,
    <<"SHARK", 129416>>, <<"OWL", 129417>>, <<"FOX FACE", 129418>>, <<"BUTTERFLY", 129419>>,
    <<"DEER", 129420>>, <<"GORILLA", 129421>>, <<"LIZARD", 129422>>, <<"RHINOCEROS", 129423>>,
    <<"SHRIMP", 129424>>, <<"SQUID", 129425>>, <<"GIRAFFE FACE", 129426>>, <<"ZEBRA FACE", 129427>>,
    <<"HEDGEHOG", 129428>>, <<"SAUROPOD", 129429>>, <<"T-REX", 129430>>, <<"CRICKET", 129431>>,
    <<"KANGAROO", 129432>>, <<"LLAMA", 129433>>, <<"PEACOCK", 129434>>, <<"HIPPOPOTAMUS", 129435>>,
    <<"PARROT", 129436>>, <<"RACCOON", 129437>>, <<"LOBSTER", 129438>>, <<"MOSQUITO", 129439>>,
    <<"MICROBE", 129440>>, <<"BADGER", 129441>>, <<"SWAN", 129442>>, <<"MAMMOTH", 129443>>,
    <<"DODO", 129444>>, <<"SLOTH", 129445>>, <<"OTTER", 129446>>, <<"ORANGUTAN", 129447>>,
    <<"SKUNK", 129448>>, <<"FLAMINGO", 129449>>, <<"OYSTER", 129450>>, <<"BEAVER", 129451>>,
    <<"BISON", 129452>>, <<"SEAL", 129453>>, <<"GUIDE DOG", 129454>>, <<"PROBING CANE", 129455>>,
    <<"EMOJI COMPONENT RED HAIR", 129456>>, <<"EMOJI COMPONENT CURLY HAIR", 129457>>,
    <<"EMOJI COMPONENT BALD", 129458>>, <<"EMOJI COMPONENT WHITE HAIR", 129459>>, <<"BONE", 129460>>,
    <<"LEG", 129461>>, <<"FOOT", 129462>>, <<"TOOTH", 129463>>, <<"SUPERHERO", 129464>>,
    <<"SUPERVILLAIN", 129465>>, <<"SAFETY VEST", 129466>>, <<"EAR WITH HEARING AID", 129467>>,
    <<"MOTORIZED WHEELCHAIR", 129468>>, <<"MANUAL WHEELCHAIR", 129469>>, <<"MECHANICAL ARM", 129470>>,
    <<"MECHANICAL LEG", 129471>>, <<"CHEESE WEDGE", 129472>>, <<"CUPCAKE", 129473>>,
    <<"SALT SHAKER", 129474>>, <<"BEVERAGE BOX", 129475>>, <<"GARLIC", 129476>>, <<"ONION", 129477>>,
    <<"FALAFEL", 129478>>, <<"WAFFLE", 129479>>, <<"BUTTER", 129480>>, <<"MATE DRINK", 129481>>,
    <<"ICE CUBE", 129482>>, <<"BUBBLE TEA", 129483>>, <<"TROLL", 129484>>,
    <<"STANDING PERSON", 129485>>, <<"KNEELING PERSON", 129486>>, <<"DEAF PERSON", 129487>>,
    <<"FACE WITH MONOCLE", 129488>>, <<"ADULT", 129489>>, <<"CHILD", 129490>>,
    <<"OLDER ADULT", 129491>>, <<"BEARDED PERSON", 129492>>, <<"PERSON WITH HEADSCARF", 129493>>,
    <<"PERSON IN STEAMY ROOM", 129494>>, <<"PERSON CLIMBING", 129495>>,
    <<"PERSON IN LOTUS POSITION", 129496>>, <<"MAGE", 129497>>, <<"FAIRY", 129498>>,
    <<"VAMPIRE", 129499>>, <<"MERPERSON", 129500>>, <<"ELF", 129501>>, <<"GENIE", 129502>>,
    <<"ZOMBIE", 129503>>, <<"BRAIN", 129504>>, <<"ORANGE HEART", 129505>>, <<"BILLED CAP", 129506>>,
    <<"SCARF", 129507>>, <<"GLOVES", 129508>>, <<"COAT", 129509>>, <<"SOCKS", 129510>>,
    <<"RED GIFT ENVELOPE", 129511>>, <<"FIRECRACKER", 129512>>, <<"JIGSAW PUZZLE PIECE", 129513>>,
    <<"TEST TUBE", 129514>>, <<"PETRI DISH", 129515>>, <<"DNA DOUBLE HELIX", 129516>>,
    <<"COMPASS", 129517>>, <<"ABACUS", 129518>>, <<"FIRE EXTINGUISHER", 129519>>,
    <<"TOOLBOX", 129520>>, <<"BRICK", 129521>>, <<"MAGNET", 129522>>, <<"LUGGAGE", 129523>>,
    <<"LOTION BOTTLE", 129524>>, <<"SPOOL OF THREAD", 129525>>, <<"BALL OF YARN", 129526>>,
    <<"SAFETY PIN", 129527>>, <<"TEDDY BEAR", 129528>>, <<"BROOM", 129529>>, <<"BASKET", 129530>>,
    <<"ROLL OF PAPER", 129531>>, <<"BAR OF SOAP", 129532>>, <<"SPONGE", 129533>>,
    <<"RECEIPT", 129534>>, <<"NAZAR AMULET", 129535>>, <<"NEUTRAL CHESS KING", 129536>>,
    <<"NEUTRAL CHESS QUEEN", 129537>>, <<"NEUTRAL CHESS ROOK", 129538>>,
    <<"NEUTRAL CHESS BISHOP", 129539>>, <<"NEUTRAL CHESS KNIGHT", 129540>>,
    <<"NEUTRAL CHESS PAWN", 129541>>, <<"WHITE CHESS KNIGHT ROTATED FORTY-FIVE DEGREES", 129542>>,
    <<"BLACK CHESS KNIGHT ROTATED FORTY-FIVE DEGREES", 129543>>,
    <<"NEUTRAL CHESS KNIGHT ROTATED FORTY-FIVE DEGREES", 129544>>,
    <<"WHITE CHESS KING ROTATED NINETY DEGREES", 129545>>,
    <<"WHITE CHESS QUEEN ROTATED NINETY DEGREES", 129546>>,
    <<"WHITE CHESS ROOK ROTATED NINETY DEGREES", 129547>>,
    <<"WHITE CHESS BISHOP ROTATED NINETY DEGREES", 129548>>,
    <<"WHITE CHESS KNIGHT ROTATED NINETY DEGREES", 129549>>,
    <<"WHITE CHESS PAWN ROTATED NINETY DEGREES", 129550>>,
    <<"BLACK CHESS KING ROTATED NINETY DEGREES", 129551>>,
    <<"BLACK CHESS QUEEN ROTATED NINETY DEGREES", 129552>>,
    <<"BLACK CHESS ROOK ROTATED NINETY DEGREES", 129553>>,
    <<"BLACK CHESS BISHOP ROTATED NINETY DEGREES", 129554>>,
    <<"BLACK CHESS KNIGHT ROTATED NINETY DEGREES", 129555>>,
    <<"BLACK CHESS PAWN ROTATED NINETY DEGREES", 129556>>,
    <<"NEUTRAL CHESS KING ROTATED NINETY DEGREES", 129557>>,
    <<"NEUTRAL CHESS QUEEN ROTATED NINETY DEGREES", 129558>>,
    <<"NEUTRAL CHESS ROOK ROTATED NINETY DEGREES", 129559>>,
    <<"NEUTRAL CHESS BISHOP ROTATED NINETY DEGREES", 129560>>,
    <<"NEUTRAL CHESS KNIGHT ROTATED NINETY DEGREES", 129561>>,
    <<"NEUTRAL CHESS PAWN ROTATED NINETY DEGREES", 129562>>,
    <<"WHITE CHESS KNIGHT ROTATED ONE HUNDRED THIRTY-FIVE DEGREES", 129563>>,
    <<"BLACK CHESS KNIGHT ROTATED ONE HUNDRED THIRTY-FIVE DEGREES", 129564>>,
    <<"NEUTRAL CHESS KNIGHT ROTATED ONE HUNDRED THIRTY-FIVE DEGREES", 129565>>,
    <<"WHITE CHESS TURNED KING", 129566>>, <<"WHITE CHESS TURNED QUEEN", 129567>>,
    <<"WHITE CHESS TURNED ROOK", 129568>>, <<"WHITE CHESS TURNED BISHOP", 129569>>,
    <<"WHITE CHESS TURNED KNIGHT", 129570>>, <<"WHITE CHESS TURNED PAWN", 129571>>,
    <<"BLACK CHESS TURNED KING", 129572>>, <<"BLACK CHESS TURNED QUEEN", 129573>>,
    <<"BLACK CHESS TURNED ROOK", 129574>>, <<"BLACK CHESS TURNED BISHOP", 129575>>,
    <<"BLACK CHESS TURNED KNIGHT", 129576>>, <<"BLACK CHESS TURNED PAWN", 129577>>,
    <<"NEUTRAL CHESS TURNED KING", 129578>>, <<"NEUTRAL CHESS TURNED QUEEN", 129579>>,
    <<"NEUTRAL CHESS TURNED ROOK", 129580>>, <<"NEUTRAL CHESS TURNED BISHOP", 129581>>,
    <<"NEUTRAL CHESS TURNED KNIGHT", 129582>>, <<"NEUTRAL CHESS TURNED PAWN", 129583>>,
    <<"WHITE CHESS KNIGHT ROTATED TWO HUNDRED TWENTY-FIVE DEGREES", 129584>>,
    <<"BLACK CHESS KNIGHT ROTATED TWO HUNDRED TWENTY-FIVE DEGREES", 129585>>,
    <<"NEUTRAL CHESS KNIGHT ROTATED TWO HUNDRED TWENTY-FIVE DEGREES", 129586>>,
    <<"WHITE CHESS KING ROTATED TWO HUNDRED SEVENTY DEGREES", 129587>>,
    <<"WHITE CHESS QUEEN ROTATED TWO HUNDRED SEVENTY DEGREES", 129588>>,
    <<"WHITE CHESS ROOK ROTATED TWO HUNDRED SEVENTY DEGREES", 129589>>,
    <<"WHITE CHESS BISHOP ROTATED TWO HUNDRED SEVENTY DEGREES", 129590>>,
    <<"WHITE CHESS KNIGHT ROTATED TWO HUNDRED SEVENTY DEGREES", 129591>>,
    <<"WHITE CHESS PAWN ROTATED TWO HUNDRED SEVENTY DEGREES", 129592>>,
    <<"BLACK CHESS KING ROTATED TWO HUNDRED SEVENTY DEGREES", 129593>>,
    <<"BLACK CHESS QUEEN ROTATED TWO HUNDRED SEVENTY DEGREES", 129594>>,
    <<"BLACK CHESS ROOK ROTATED TWO HUNDRED SEVENTY DEGREES", 129595>>,
    <<"BLACK CHESS BISHOP ROTATED TWO HUNDRED SEVENTY DEGREES", 129596>>,
    <<"BLACK CHESS KNIGHT ROTATED TWO HUNDRED SEVENTY DEGREES", 129597>>,
    <<"BLACK CHESS PAWN ROTATED TWO HUNDRED SEVENTY DEGREES", 129598>>,
    <<"NEUTRAL CHESS KING ROTATED TWO HUNDRED SEVENTY DEGREES", 129599>>,
    <<"NEUTRAL CHESS QUEEN ROTATED TWO HUNDRED SEVENTY DEGREES", 129600>>,
    <<"NEUTRAL CHESS ROOK ROTATED TWO HUNDRED SEVENTY DEGREES", 129601>>,
    <<"NEUTRAL CHESS BISHOP ROTATED TWO HUNDRED SEVENTY DEGREES", 129602>>,
    <<"NEUTRAL CHESS KNIGHT ROTATED TWO HUNDRED SEVENTY DEGREES", 129603>>,
    <<"NEUTRAL CHESS PAWN ROTATED TWO HUNDRED SEVENTY DEGREES", 129604>>,
    <<"WHITE CHESS KNIGHT ROTATED THREE HUNDRED FIFTEEN DEGREES", 129605>>,
    <<"BLACK CHESS KNIGHT ROTATED THREE HUNDRED FIFTEEN DEGREES", 129606>>,
    <<"NEUTRAL CHESS KNIGHT ROTATED THREE HUNDRED FIFTEEN DEGREES", 129607>>,
    <<"WHITE CHESS EQUIHOPPER", 129608>>, <<"BLACK CHESS EQUIHOPPER", 129609>>,
    <<"NEUTRAL CHESS EQUIHOPPER", 129610>>,
    <<"WHITE CHESS EQUIHOPPER ROTATED NINETY DEGREES", 129611>>,
    <<"BLACK CHESS EQUIHOPPER ROTATED NINETY DEGREES", 129612>>,
    <<"NEUTRAL CHESS EQUIHOPPER ROTATED NINETY DEGREES", 129613>>,
    <<"WHITE CHESS KNIGHT-QUEEN", 129614>>, <<"WHITE CHESS KNIGHT-ROOK", 129615>>,
    <<"WHITE CHESS KNIGHT-BISHOP", 129616>>, <<"BLACK CHESS KNIGHT-QUEEN", 129617>>,
    <<"BLACK CHESS KNIGHT-ROOK", 129618>>, <<"BLACK CHESS KNIGHT-BISHOP", 129619>>,
    <<"XIANGQI RED GENERAL", 129632>>, <<"XIANGQI RED MANDARIN", 129633>>,
    <<"XIANGQI RED ELEPHANT", 129634>>, <<"XIANGQI RED HORSE", 129635>>,
    <<"XIANGQI RED CHARIOT", 129636>>, <<"XIANGQI RED CANNON", 129637>>,
    <<"XIANGQI RED SOLDIER", 129638>>, <<"XIANGQI BLACK GENERAL", 129639>>,
    <<"XIANGQI BLACK MANDARIN", 129640>>, <<"XIANGQI BLACK ELEPHANT", 129641>>,
    <<"XIANGQI BLACK HORSE", 129642>>, <<"XIANGQI BLACK CHARIOT", 129643>>,
    <<"XIANGQI BLACK CANNON", 129644>>, <<"XIANGQI BLACK SOLDIER", 129645>>,
    <<"BALLET SHOES", 129648>>, <<"ONE-PIECE SWIMSUIT", 129649>>, <<"BRIEFS", 129650>>,
    <<"SHORTS", 129651>>, <<"THONG SANDAL", 129652>>, <<"DROP OF BLOOD", 129656>>,
    <<"ADHESIVE BANDAGE", 129657>>, <<"STETHOSCOPE", 129658>>, <<"X-RAY", 129659>>,
    <<"CRUTCH", 129660>>, <<"YO-YO", 129664>>, <<"KITE", 129665>>, <<"PARACHUTE", 129666>>,
    <<"BOOMERANG", 129667>>, <<"MAGIC WAND", 129668>>, <<"PINATA", 129669>>,
    <<"NESTING DOLLS", 129670>>, <<"RINGED PLANET", 129680>>, <<"CHAIR", 129681>>, <<"RAZOR", 129682>>,
    <<"AXE", 129683>>, <<"DIYA LAMP", 129684>>, <<"BANJO", 129685>>, <<"MILITARY HELMET", 129686>>,
    <<"ACCORDION", 129687>>, <<"LONG DRUM", 129688>>, <<"COIN", 129689>>, <<"CARPENTRY SAW", 129690>>,
    <<"SCREWDRIVER", 129691>>, <<"LADDER", 129692>>, <<"HOOK", 129693>>, <<"MIRROR", 129694>>,
    <<"WINDOW", 129695>>, <<"PLUNGER", 129696>>, <<"SEWING NEEDLE", 129697>>, <<"KNOT", 129698>>,
    <<"BUCKET", 129699>>, <<"MOUSE TRAP", 129700>>, <<"TOOTHBRUSH", 129701>>, <<"HEADSTONE", 129702>>,
    <<"PLACARD", 129703>>, <<"ROCK", 129704>>, <<"MIRROR BALL", 129705>>,
    <<"IDENTIFICATION CARD", 129706>>, <<"LOW BATTERY", 129707>>, <<"HAMSA", 129708>>,
    <<"FLY", 129712>>, <<"WORM", 129713>>, <<"BEETLE", 129714>>, <<"COCKROACH", 129715>>,
    <<"POTTED PLANT", 129716>>, <<"WOOD", 129717>>, <<"FEATHER", 129718>>, <<"LOTUS", 129719>>,
    <<"CORAL", 129720>>, <<"EMPTY NEST", 129721>>, <<"NEST WITH EGGS", 129722>>,
    <<"ANATOMICAL HEART", 129728>>, <<"LUNGS", 129729>>, <<"PEOPLE HUGGING", 129730>>,
    <<"PREGNANT MAN", 129731>>, <<"PREGNANT PERSON", 129732>>, <<"PERSON WITH CROWN", 129733>>,
    <<"BLUEBERRIES", 129744>>, <<"BELL PEPPER", 129745>>, <<"OLIVE", 129746>>, <<"FLATBREAD", 129747>>,
    <<"TAMALE", 129748>>, <<"FONDUE", 129749>>, <<"TEAPOT", 129750>>, <<"POURING LIQUID", 129751>>,
    <<"BEANS", 129752>>, <<"JAR", 129753>>, <<"MELTING FACE", 129760>>, <<"SALUTING FACE", 129761>>,
    <<"FACE WITH OPEN EYES AND HAND OVER MOUTH", 129762>>, <<"FACE WITH PEEKING EYE", 129763>>,
    <<"FACE WITH DIAGONAL MOUTH", 129764>>, <<"DOTTED LINE FACE", 129765>>, <<"BITING LIP", 129766>>,
    <<"BUBBLES", 129767>>, <<"HAND WITH INDEX FINGER AND THUMB CROSSED", 129776>>,
    <<"RIGHTWARDS HAND", 129777>>, <<"LEFTWARDS HAND", 129778>>, <<"PALM DOWN HAND", 129779>>,
    <<"PALM UP HAND", 129780>>, <<"INDEX POINTING AT THE VIEWER", 129781>>, <<"HEART HANDS", 129782>>,
    <<"BLOCK SEXTANT-1", 129792>>, <<"BLOCK SEXTANT-2", 129793>>, <<"BLOCK SEXTANT-12", 129794>>,
    <<"BLOCK SEXTANT-3", 129795>>, <<"BLOCK SEXTANT-13", 129796>>, <<"BLOCK SEXTANT-23", 129797>>,
    <<"BLOCK SEXTANT-123", 129798>>, <<"BLOCK SEXTANT-4", 129799>>, <<"BLOCK SEXTANT-14", 129800>>,
    <<"BLOCK SEXTANT-24", 129801>>, <<"BLOCK SEXTANT-124", 129802>>, <<"BLOCK SEXTANT-34", 129803>>,
    <<"BLOCK SEXTANT-134", 129804>>, <<"BLOCK SEXTANT-234", 129805>>, <<"BLOCK SEXTANT-1234", 129806>>,
    <<"BLOCK SEXTANT-5", 129807>>, <<"BLOCK SEXTANT-15", 129808>>, <<"BLOCK SEXTANT-25", 129809>>,
    <<"BLOCK SEXTANT-125", 129810>>, <<"BLOCK SEXTANT-35", 129811>>, <<"BLOCK SEXTANT-235", 129812>>,
    <<"BLOCK SEXTANT-1235", 129813>>, <<"BLOCK SEXTANT-45", 129814>>, <<"BLOCK SEXTANT-145", 129815>>,
    <<"BLOCK SEXTANT-245", 129816>>, <<"BLOCK SEXTANT-1245", 129817>>, <<"BLOCK SEXTANT-345", 129818>>,
    <<"BLOCK SEXTANT-1345", 129819>>, <<"BLOCK SEXTANT-2345", 129820>>,
    <<"BLOCK SEXTANT-12345", 129821>>, <<"BLOCK SEXTANT-6", 129822>>, <<"BLOCK SEXTANT-16", 129823>>,
    <<"BLOCK SEXTANT-26", 129824>>, <<"BLOCK SEXTANT-126", 129825>>, <<"BLOCK SEXTANT-36", 129826>>,
    <<"BLOCK SEXTANT-136", 129827>>, <<"BLOCK SEXTANT-236", 129828>>, <<"BLOCK SEXTANT-1236", 129829>>,
    <<"BLOCK SEXTANT-46", 129830>>, <<"BLOCK SEXTANT-146", 129831>>, <<"BLOCK SEXTANT-1246", 129832>>,
    <<"BLOCK SEXTANT-346", 129833>>, <<"BLOCK SEXTANT-1346", 129834>>,
    <<"BLOCK SEXTANT-2346", 129835>>, <<"BLOCK SEXTANT-12346", 129836>>,
    <<"BLOCK SEXTANT-56", 129837>>, <<"BLOCK SEXTANT-156", 129838>>, <<"BLOCK SEXTANT-256", 129839>>,
    <<"BLOCK SEXTANT-1256", 129840>>, <<"BLOCK SEXTANT-356", 129841>>,
    <<"BLOCK SEXTANT-1356", 129842>>, <<"BLOCK SEXTANT-2356", 129843>>,
    <<"BLOCK SEXTANT-12356", 129844>>, <<"BLOCK SEXTANT-456", 129845>>,
    <<"BLOCK SEXTANT-1456", 129846>>, <<"BLOCK SEXTANT-2456", 129847>>,
    <<"BLOCK SEXTANT-12456", 129848>>, <<"BLOCK SEXTANT-3456", 129849>>,
    <<"BLOCK SEXTANT-13456", 129850>>, <<"BLOCK SEXTANT-23456", 129851>>,
    <<"LOWER LEFT BLOCK DIAGONAL LOWER MIDDLE LEFT TO LOWER CENTRE", 129852>>,
    <<"LOWER LEFT BLOCK DIAGONAL LOWER MIDDLE LEFT TO LOWER RIGHT", 129853>>,
    <<"LOWER LEFT BLOCK DIAGONAL UPPER MIDDLE LEFT TO LOWER CENTRE", 129854>>,
    <<"LOWER LEFT BLOCK DIAGONAL UPPER MIDDLE LEFT TO LOWER RIGHT", 129855>>,
    <<"LOWER LEFT BLOCK DIAGONAL UPPER LEFT TO LOWER CENTRE", 129856>>,
    <<"LOWER RIGHT BLOCK DIAGONAL UPPER MIDDLE LEFT TO UPPER CENTRE", 129857>>,
    <<"LOWER RIGHT BLOCK DIAGONAL UPPER MIDDLE LEFT TO UPPER RIGHT", 129858>>,
    <<"LOWER RIGHT BLOCK DIAGONAL LOWER MIDDLE LEFT TO UPPER CENTRE", 129859>>,
    <<"LOWER RIGHT BLOCK DIAGONAL LOWER MIDDLE LEFT TO UPPER RIGHT", 129860>>,
    <<"LOWER RIGHT BLOCK DIAGONAL LOWER LEFT TO UPPER CENTRE", 129861>>,
    <<"LOWER RIGHT BLOCK DIAGONAL LOWER MIDDLE LEFT TO UPPER MIDDLE RIGHT", 129862>>,
    <<"LOWER RIGHT BLOCK DIAGONAL LOWER CENTRE TO LOWER MIDDLE RIGHT", 129863>>,
    <<"LOWER RIGHT BLOCK DIAGONAL LOWER LEFT TO LOWER MIDDLE RIGHT", 129864>>,
    <<"LOWER RIGHT BLOCK DIAGONAL LOWER CENTRE TO UPPER MIDDLE RIGHT", 129865>>,
    <<"LOWER RIGHT BLOCK DIAGONAL LOWER LEFT TO UPPER MIDDLE RIGHT", 129866>>,
    <<"LOWER RIGHT BLOCK DIAGONAL LOWER CENTRE TO UPPER RIGHT", 129867>>,
    <<"LOWER LEFT BLOCK DIAGONAL UPPER CENTRE TO UPPER MIDDLE RIGHT", 129868>>,
    <<"LOWER LEFT BLOCK DIAGONAL UPPER LEFT TO UPPER MIDDLE RIGHT", 129869>>,
    <<"LOWER LEFT BLOCK DIAGONAL UPPER CENTRE TO LOWER MIDDLE RIGHT", 129870>>,
    <<"LOWER LEFT BLOCK DIAGONAL UPPER LEFT TO LOWER MIDDLE RIGHT", 129871>>,
    <<"LOWER LEFT BLOCK DIAGONAL UPPER CENTRE TO LOWER RIGHT", 129872>>,
    <<"LOWER LEFT BLOCK DIAGONAL UPPER MIDDLE LEFT TO LOWER MIDDLE RIGHT", 129873>>,
    <<"UPPER RIGHT BLOCK DIAGONAL LOWER MIDDLE LEFT TO LOWER CENTRE", 129874>>,
    <<"UPPER RIGHT BLOCK DIAGONAL LOWER MIDDLE LEFT TO LOWER RIGHT", 129875>>,
    <<"UPPER RIGHT BLOCK DIAGONAL UPPER MIDDLE LEFT TO LOWER CENTRE", 129876>>,
    <<"UPPER RIGHT BLOCK DIAGONAL UPPER MIDDLE LEFT TO LOWER RIGHT", 129877>>,
    <<"UPPER RIGHT BLOCK DIAGONAL UPPER LEFT TO LOWER CENTRE", 129878>>,
    <<"UPPER LEFT BLOCK DIAGONAL UPPER MIDDLE LEFT TO UPPER CENTRE", 129879>>,
    <<"UPPER LEFT BLOCK DIAGONAL UPPER MIDDLE LEFT TO UPPER RIGHT", 129880>>,
    <<"UPPER LEFT BLOCK DIAGONAL LOWER MIDDLE LEFT TO UPPER CENTRE", 129881>>,
    <<"UPPER LEFT BLOCK DIAGONAL LOWER MIDDLE LEFT TO UPPER RIGHT", 129882>>,
    <<"UPPER LEFT BLOCK DIAGONAL LOWER LEFT TO UPPER CENTRE", 129883>>,
    <<"UPPER LEFT BLOCK DIAGONAL LOWER MIDDLE LEFT TO UPPER MIDDLE RIGHT", 129884>>,
    <<"UPPER LEFT BLOCK DIAGONAL LOWER CENTRE TO LOWER MIDDLE RIGHT", 129885>>,
    <<"UPPER LEFT BLOCK DIAGONAL LOWER LEFT TO LOWER MIDDLE RIGHT", 129886>>,
    <<"UPPER LEFT BLOCK DIAGONAL LOWER CENTRE TO UPPER MIDDLE RIGHT", 129887>>,
    <<"UPPER LEFT BLOCK DIAGONAL LOWER LEFT TO UPPER MIDDLE RIGHT", 129888>>,
    <<"UPPER LEFT BLOCK DIAGONAL LOWER CENTRE TO UPPER RIGHT", 129889>>,
    <<"UPPER RIGHT BLOCK DIAGONAL UPPER CENTRE TO UPPER MIDDLE RIGHT", 129890>>,
    <<"UPPER RIGHT BLOCK DIAGONAL UPPER LEFT TO UPPER MIDDLE RIGHT", 129891>>,
    <<"UPPER RIGHT BLOCK DIAGONAL UPPER CENTRE TO LOWER MIDDLE RIGHT", 129892>>,
    <<"UPPER RIGHT BLOCK DIAGONAL UPPER LEFT TO LOWER MIDDLE RIGHT", 129893>>,
    <<"UPPER RIGHT BLOCK DIAGONAL UPPER CENTRE TO LOWER RIGHT", 129894>>,
    <<"UPPER RIGHT BLOCK DIAGONAL UPPER MIDDLE LEFT TO LOWER MIDDLE RIGHT", 129895>>,
    <<"UPPER AND RIGHT AND LOWER TRIANGULAR THREE QUARTERS BLOCK", 129896>>,
    <<"LEFT AND LOWER AND RIGHT TRIANGULAR THREE QUARTERS BLOCK", 129897>>,
    <<"UPPER AND LEFT AND LOWER TRIANGULAR THREE QUARTERS BLOCK", 129898>>,
    <<"LEFT AND UPPER AND RIGHT TRIANGULAR THREE QUARTERS BLOCK", 129899>>,
    <<"LEFT TRIANGULAR ONE QUARTER BLOCK", 129900>>, <<"UPPER TRIANGULAR ONE QUARTER BLOCK", 129901>>,
    <<"RIGHT TRIANGULAR ONE QUARTER BLOCK", 129902>>, <<"LOWER TRIANGULAR ONE QUARTER BLOCK", 129903>>,
    <<"VERTICAL ONE EIGHTH BLOCK-2", 129904>>, <<"VERTICAL ONE EIGHTH BLOCK-3", 129905>>,
    <<"VERTICAL ONE EIGHTH BLOCK-4", 129906>>, <<"VERTICAL ONE EIGHTH BLOCK-5", 129907>>,
    <<"VERTICAL ONE EIGHTH BLOCK-6", 129908>>, <<"VERTICAL ONE EIGHTH BLOCK-7", 129909>>,
    <<"HORIZONTAL ONE EIGHTH BLOCK-2", 129910>>, <<"HORIZONTAL ONE EIGHTH BLOCK-3", 129911>>,
    <<"HORIZONTAL ONE EIGHTH BLOCK-4", 129912>>, <<"HORIZONTAL ONE EIGHTH BLOCK-5", 129913>>,
    <<"HORIZONTAL ONE EIGHTH BLOCK-6", 129914>>, <<"HORIZONTAL ONE EIGHTH BLOCK-7", 129915>>,
    <<"LEFT AND LOWER ONE EIGHTH BLOCK", 129916>>, <<"LEFT AND UPPER ONE EIGHTH BLOCK", 129917>>,
    <<"RIGHT AND UPPER ONE EIGHTH BLOCK", 129918>>, <<"RIGHT AND LOWER ONE EIGHTH BLOCK", 129919>>,
    <<"UPPER AND LOWER ONE EIGHTH BLOCK", 129920>>, <<"HORIZONTAL ONE EIGHTH BLOCK-1358", 129921>>,
    <<"UPPER ONE QUARTER BLOCK", 129922>>, <<"UPPER THREE EIGHTHS BLOCK", 129923>>,
    <<"UPPER FIVE EIGHTHS BLOCK", 129924>>, <<"UPPER THREE QUARTERS BLOCK", 129925>>,
    <<"UPPER SEVEN EIGHTHS BLOCK", 129926>>, <<"RIGHT ONE QUARTER BLOCK", 129927>>,
    <<"RIGHT THREE EIGHTHS BLOCK", 129928>>, <<"RIGHT FIVE EIGHTHS BLOCK", 129929>>,
    <<"RIGHT THREE QUARTERS BLOCK", 129930>>, <<"RIGHT SEVEN EIGHTHS BLOCK", 129931>>,
    <<"LEFT HALF MEDIUM SHADE", 129932>>, <<"RIGHT HALF MEDIUM SHADE", 129933>>,
    <<"UPPER HALF MEDIUM SHADE", 129934>>, <<"LOWER HALF MEDIUM SHADE", 129935>>,
    <<"INVERSE MEDIUM SHADE", 129936>>,
    <<"UPPER HALF BLOCK AND LOWER HALF INVERSE MEDIUM SHADE", 129937>>,
    <<"UPPER HALF INVERSE MEDIUM SHADE AND LOWER HALF BLOCK", 129938>>,
    <<"LEFT HALF INVERSE MEDIUM SHADE AND RIGHT HALF BLOCK", 129940>>,
    <<"CHECKER BOARD FILL", 129941>>, <<"INVERSE CHECKER BOARD FILL", 129942>>,
    <<"HEAVY HORIZONTAL FILL", 129943>>, <<"UPPER LEFT TO LOWER RIGHT FILL", 129944>>,
    <<"UPPER RIGHT TO LOWER LEFT FILL", 129945>>, <<"UPPER AND LOWER TRIANGULAR HALF BLOCK", 129946>>,
    <<"LEFT AND RIGHT TRIANGULAR HALF BLOCK", 129947>>,
    <<"UPPER LEFT TRIANGULAR MEDIUM SHADE", 129948>>,
    <<"UPPER RIGHT TRIANGULAR MEDIUM SHADE", 129949>>,
    <<"LOWER RIGHT TRIANGULAR MEDIUM SHADE", 129950>>,
    <<"LOWER LEFT TRIANGULAR MEDIUM SHADE", 129951>>,
    <<"BOX DRAWINGS LIGHT DIAGONAL UPPER CENTRE TO MIDDLE LEFT", 129952>>,
    <<"BOX DRAWINGS LIGHT DIAGONAL UPPER CENTRE TO MIDDLE RIGHT", 129953>>,
    <<"BOX DRAWINGS LIGHT DIAGONAL MIDDLE LEFT TO LOWER CENTRE", 129954>>,
    <<"BOX DRAWINGS LIGHT DIAGONAL MIDDLE RIGHT TO LOWER CENTRE", 129955>>,
    <<"BOX DRAWINGS LIGHT DIAGONAL UPPER CENTRE TO MIDDLE LEFT TO LOWER CENTRE", 129956>>,
    <<"BOX DRAWINGS LIGHT DIAGONAL UPPER CENTRE TO MIDDLE RIGHT TO LOWER CENTRE", 129957>>,
    <<"BOX DRAWINGS LIGHT DIAGONAL MIDDLE LEFT TO LOWER CENTRE TO MIDDLE RIGHT", 129958>>,
    <<"BOX DRAWINGS LIGHT DIAGONAL MIDDLE LEFT TO UPPER CENTRE TO MIDDLE RIGHT", 129959>>,
    <<"BOX DRAWINGS LIGHT DIAGONAL UPPER CENTRE TO MIDDLE LEFT AND MIDDLE RIGHT TO LOWER CENTRE", 129960>>,
    <<"BOX DRAWINGS LIGHT DIAGONAL UPPER CENTRE TO MIDDLE RIGHT AND MIDDLE LEFT TO LOWER CENTRE", 129961>>,
    <<"BOX DRAWINGS LIGHT DIAGONAL UPPER CENTRE TO MIDDLE RIGHT TO LOWER CENTRE TO MIDDLE LEFT", 129962>>,
    <<"BOX DRAWINGS LIGHT DIAGONAL UPPER CENTRE TO MIDDLE LEFT TO LOWER CENTRE TO MIDDLE RIGHT", 129963>>,
    <<"BOX DRAWINGS LIGHT DIAGONAL MIDDLE LEFT TO UPPER CENTRE TO MIDDLE RIGHT TO LOWER CENTRE", 129964>>,
    <<"BOX DRAWINGS LIGHT DIAGONAL MIDDLE RIGHT TO UPPER CENTRE TO MIDDLE LEFT TO LOWER CENTRE", 129965>>,
    <<"BOX DRAWINGS LIGHT DIAGONAL DIAMOND", 129966>>,
    <<"BOX DRAWINGS LIGHT HORIZONTAL WITH VERTICAL STROKE", 129967>>,
    <<"ARROWHEAD-SHAPED POINTER", 129968>>, <<"INVERSE CHECK MARK", 129969>>,
    <<"LEFT HALF RUNNING MAN", 129970>>, <<"RIGHT HALF RUNNING MAN", 129971>>,
    <<"INVERSE DOWNWARDS ARROW WITH TIP LEFTWARDS", 129972>>,
    <<"LEFTWARDS ARROW AND UPPER AND LOWER ONE EIGHTH BLOCK", 129973>>,
    <<"RIGHTWARDS ARROW AND UPPER AND LOWER ONE EIGHTH BLOCK", 129974>>,
    <<"DOWNWARDS ARROW AND RIGHT ONE EIGHTH BLOCK", 129975>>,
    <<"UPWARDS ARROW AND RIGHT ONE EIGHTH BLOCK", 129976>>, <<"LEFT HALF FOLDER", 129977>>,
    <<"RIGHT HALF FOLDER", 129978>>, <<"VOIDED GREEK CROSS", 129979>>,
    <<"RIGHT OPEN SQUARED DOT", 129980>>, <<"NEGATIVE DIAGONAL CROSS", 129981>>,
    <<"NEGATIVE DIAGONAL MIDDLE RIGHT TO LOWER CENTRE", 129982>>,
    <<"NEGATIVE DIAGONAL DIAMOND", 129983>>, <<"WHITE HEAVY SALTIRE WITH ROUNDED CORNERS", 129984>>,
    <<"LEFT THIRD WHITE RIGHT POINTING INDEX", 129985>>,
    <<"MIDDLE THIRD WHITE RIGHT POINTING INDEX", 129986>>,
    <<"RIGHT THIRD WHITE RIGHT POINTING INDEX", 129987>>, <<"NEGATIVE SQUARED QUESTION MARK", 129988>>,
    <<"STICK FIGURE", 129989>>, <<"STICK FIGURE WITH ARMS RAISED", 129990>>,
    <<"STICK FIGURE LEANING LEFT", 129991>>, <<"STICK FIGURE LEANING RIGHT", 129992>>,
    <<"STICK FIGURE WITH DRESS", 129993>>, <<"WHITE UP-POINTING CHEVRON", 129994>>,
    <<"SEGMENTED DIGIT ZERO", 130032>>, <<"SEGMENTED DIGIT ONE", 130033>>,
    <<"SEGMENTED DIGIT TWO", 130034>>, <<"SEGMENTED DIGIT THREE", 130035>>,
    <<"SEGMENTED DIGIT FOUR", 130036>>, <<"SEGMENTED DIGIT FIVE", 130037>>,
    <<"SEGMENTED DIGIT SIX", 130038>>, <<"SEGMENTED DIGIT SEVEN", 130039>>,
    <<"SEGMENTED DIGIT EIGHT", 130040>>, <<"SEGMENTED DIGIT NINE", 130041>>,
    <<"CJK COMPATIBILITY IDEOGRAPH-2F800", 194560>>, <<"CJK COMPATIBILITY IDEOGRAPH-2F801", 194561>>,
    <<"CJK COMPATIBILITY IDEOGRAPH-2F802", 194562>>, <<"CJK COMPATIBILITY IDEOGRAPH-2F803", 194563>>,
    <<"CJK COMPATIBILITY IDEOGRAPH-2F804", 194564>>, <<"CJK COMPATIBILITY IDEOGRAPH-2F805", 194565>>,
    <<"CJK COMPATIBILITY IDEOGRAPH-2F806", 194566>>, <<"CJK COMPATIBILITY IDEOGRAPH-2F807", 194567>>,
    <<"CJK COMPATIBILITY IDEOGRAPH-2F808", 194568>>, <<"CJK COMPATIBILITY IDEOGRAPH-2F809", 194569>>,
    <<"CJK COMPATIBILITY IDEOGRAPH-2F80A", 194570>>, <<"CJK COMPATIBILITY IDEOGRAPH-2F80B", 194571>>,
    <<"CJK COMPATIBILITY IDEOGRAPH-2F80C", 194572>>, <<"CJK COMPATIBILITY IDEOGRAPH-2F80D", 194573>>,
    <<"CJK COMPATIBILITY IDEOGRAPH-2F80E", 194574>>, <<"CJK COMPATIBILITY IDEOGRAPH-2F80F", 194575>>,
    <<"CJK COMPATIBILITY IDEOGRAPH-2F810", 194576>>, <<"CJK COMPATIBILITY IDEOGRAPH-2F811", 194577>>,
    <<"CJK COMPATIBILITY IDEOGRAPH-2F812", 194578>>, <<"CJK COMPATIBILITY IDEOGRAPH-2F813", 194579>>,
    <<"CJK COMPATIBILITY IDEOGRAPH-2F814", 194580>>, <<"CJK COMPATIBILITY IDEOGRAPH-2F815", 194581>>,
    <<"CJK COMPATIBILITY IDEOGRAPH-2F816", 194582>>, <<"CJK COMPATIBILITY IDEOGRAPH-2F817", 194583>>,
    <<"CJK COMPATIBILITY IDEOGRAPH-2F818", 194584>>, <<"CJK COMPATIBILITY IDEOGRAPH-2F819", 194585>>,
    <<"CJK COMPATIBILITY IDEOGRAPH-2F81A", 194586>>, <<"CJK COMPATIBILITY IDEOGRAPH-2F81B", 194587>>,
    <<"CJK COMPATIBILITY IDEOGRAPH-2F81C", 194588>>, <<"CJK COMPATIBILITY IDEOGRAPH-2F81D", 194589>>,
    <<"CJK COMPATIBILITY IDEOGRAPH-2F81E", 194590>>, <<"CJK COMPATIBILITY IDEOGRAPH-2F81F", 194591>>,
    <<"CJK COMPATIBILITY IDEOGRAPH-2F820", 194592>>, <<"CJK COMPATIBILITY IDEOGRAPH-2F821", 194593>>,
    <<"CJK COMPATIBILITY IDEOGRAPH-2F822", 194594>>, <<"CJK COMPATIBILITY IDEOGRAPH-2F823", 194595>>,
    <<"CJK COMPATIBILITY IDEOGRAPH-2F824", 194596>>, <<"CJK COMPATIBILITY IDEOGRAPH-2F825", 194597>>,
    <<"CJK COMPATIBILITY IDEOGRAPH-2F826", 194598>>, <<"CJK COMPATIBILITY IDEOGRAPH-2F827", 194599>>,
    <<"CJK COMPATIBILITY IDEOGRAPH-2F828", 194600>>, <<"CJK COMPATIBILITY IDEOGRAPH-2F829", 194601>>,
    <<"CJK COMPATIBILITY IDEOGRAPH-2F82A", 194602>>, <<"CJK COMPATIBILITY IDEOGRAPH-2F82B", 194603>>,
    <<"CJK COMPATIBILITY IDEOGRAPH-2F82C", 194604>>, <<"CJK COMPATIBILITY IDEOGRAPH-2F82D", 194605>>,
    <<"CJK COMPATIBILITY IDEOGRAPH-2F82E", 194606>>, <<"CJK COMPATIBILITY IDEOGRAPH-2F82F", 194607>>,
    <<"CJK COMPATIBILITY IDEOGRAPH-2F830", 194608>>, <<"CJK COMPATIBILITY IDEOGRAPH-2F831", 194609>>,
    <<"CJK COMPATIBILITY IDEOGRAPH-2F832", 194610>>, <<"CJK COMPATIBILITY IDEOGRAPH-2F833", 194611>>,
    <<"CJK COMPATIBILITY IDEOGRAPH-2F834", 194612>>, <<"CJK COMPATIBILITY IDEOGRAPH-2F835", 194613>>,
    <<"CJK COMPATIBILITY IDEOGRAPH-2F836", 194614>>, <<"CJK COMPATIBILITY IDEOGRAPH-2F837", 194615>>,
    <<"CJK COMPATIBILITY IDEOGRAPH-2F838", 194616>>, <<"CJK COMPATIBILITY IDEOGRAPH-2F839", 194617>>,
    <<"CJK COMPATIBILITY IDEOGRAPH-2F83A", 194618>>, <<"CJK COMPATIBILITY IDEOGRAPH-2F83B", 194619>>,
    <<"CJK COMPATIBILITY IDEOGRAPH-2F83C", 194620>>, <<"CJK COMPATIBILITY IDEOGRAPH-2F83D", 194621>>,
    <<"CJK COMPATIBILITY IDEOGRAPH-2F83E", 194622>>, <<"CJK COMPATIBILITY IDEOGRAPH-2F83F", 194623>>,
    <<"CJK COMPATIBILITY IDEOGRAPH-2F840", 194624>>, <<"CJK COMPATIBILITY IDEOGRAPH-2F841", 194625>>,
    <<"CJK COMPATIBILITY IDEOGRAPH-2F842", 194626>>, <<"CJK COMPATIBILITY IDEOGRAPH-2F843", 194627>>,
    <<"CJK COMPATIBILITY IDEOGRAPH-2F844", 194628>>, <<"CJK COMPATIBILITY IDEOGRAPH-2F845", 194629>>,
    <<"CJK COMPATIBILITY IDEOGRAPH-2F846", 194630>>, <<"CJK COMPATIBILITY IDEOGRAPH-2F847", 194631>>,
    <<"CJK COMPATIBILITY IDEOGRAPH-2F848", 194632>>, <<"CJK COMPATIBILITY IDEOGRAPH-2F849", 194633>>,
    <<"CJK COMPATIBILITY IDEOGRAPH-2F84A", 194634>>, <<"CJK COMPATIBILITY IDEOGRAPH-2F84B", 194635>>,
    <<"CJK COMPATIBILITY IDEOGRAPH-2F84C", 194636>>, <<"CJK COMPATIBILITY IDEOGRAPH-2F84D", 194637>>,
    <<"CJK COMPATIBILITY IDEOGRAPH-2F84E", 194638>>, <<"CJK COMPATIBILITY IDEOGRAPH-2F84F", 194639>>,
    <<"CJK COMPATIBILITY IDEOGRAPH-2F850", 194640>>, <<"CJK COMPATIBILITY IDEOGRAPH-2F851", 194641>>,
    <<"CJK COMPATIBILITY IDEOGRAPH-2F852", 194642>>, <<"CJK COMPATIBILITY IDEOGRAPH-2F853", 194643>>,
    <<"CJK COMPATIBILITY IDEOGRAPH-2F854", 194644>>, <<"CJK COMPATIBILITY IDEOGRAPH-2F855", 194645>>,
    <<"CJK COMPATIBILITY IDEOGRAPH-2F856", 194646>>, <<"CJK COMPATIBILITY IDEOGRAPH-2F857", 194647>>,
    <<"CJK COMPATIBILITY IDEOGRAPH-2F858", 194648>>, <<"CJK COMPATIBILITY IDEOGRAPH-2F859", 194649>>,
    <<"CJK COMPATIBILITY IDEOGRAPH-2F85A", 194650>>, <<"CJK COMPATIBILITY IDEOGRAPH-2F85B", 194651>>,
    <<"CJK COMPATIBILITY IDEOGRAPH-2F85C", 194652>>, <<"CJK COMPATIBILITY IDEOGRAPH-2F85D", 194653>>,
    <<"CJK COMPATIBILITY IDEOGRAPH-2F85E", 194654>>, <<"CJK COMPATIBILITY IDEOGRAPH-2F85F", 194655>>,
    <<"CJK COMPATIBILITY IDEOGRAPH-2F860", 194656>>, <<"CJK COMPATIBILITY IDEOGRAPH-2F861", 194657>>,
    <<"CJK COMPATIBILITY IDEOGRAPH-2F862", 194658>>, <<"CJK COMPATIBILITY IDEOGRAPH-2F863", 194659>>,
    <<"CJK COMPATIBILITY IDEOGRAPH-2F864", 194660>>, <<"CJK COMPATIBILITY IDEOGRAPH-2F865", 194661>>,
    <<"CJK COMPATIBILITY IDEOGRAPH-2F866", 194662>>, <<"CJK COMPATIBILITY IDEOGRAPH-2F867", 194663>>,
    <<"CJK COMPATIBILITY IDEOGRAPH-2F868", 194664>>, <<"CJK COMPATIBILITY IDEOGRAPH-2F869", 194665>>,
    <<"CJK COMPATIBILITY IDEOGRAPH-2F86A", 194666>>, <<"CJK COMPATIBILITY IDEOGRAPH-2F86B", 194667>>,
    <<"CJK COMPATIBILITY IDEOGRAPH-2F86C", 194668>>, <<"CJK COMPATIBILITY IDEOGRAPH-2F86D", 194669>>,
    <<"CJK COMPATIBILITY IDEOGRAPH-2F86E", 194670>>, <<"CJK COMPATIBILITY IDEOGRAPH-2F86F", 194671>>,
    <<"CJK COMPATIBILITY IDEOGRAPH-2F870", 194672>>, <<"CJK COMPATIBILITY IDEOGRAPH-2F871", 194673>>,
    <<"CJK COMPATIBILITY IDEOGRAPH-2F872", 194674>>, <<"CJK COMPATIBILITY IDEOGRAPH-2F873", 194675>>,
    <<"CJK COMPATIBILITY IDEOGRAPH-2F874", 194676>>, <<"CJK COMPATIBILITY IDEOGRAPH-2F875", 194677>>,
    <<"CJK COMPATIBILITY IDEOGRAPH-2F876", 194678>>, <<"CJK COMPATIBILITY IDEOGRAPH-2F877", 194679>>,
    <<"CJK COMPATIBILITY IDEOGRAPH-2F878", 194680>>, <<"CJK COMPATIBILITY IDEOGRAPH-2F879", 194681>>,
    <<"CJK COMPATIBILITY IDEOGRAPH-2F87A", 194682>>, <<"CJK COMPATIBILITY IDEOGRAPH-2F87B", 194683>>,
    <<"CJK COMPATIBILITY IDEOGRAPH-2F87C", 194684>>, <<"CJK COMPATIBILITY IDEOGRAPH-2F87D", 194685>>,
    <<"CJK COMPATIBILITY IDEOGRAPH-2F87E", 194686>>, <<"CJK COMPATIBILITY IDEOGRAPH-2F87F", 194687>>,
    <<"CJK COMPATIBILITY IDEOGRAPH-2F880", 194688>>, <<"CJK COMPATIBILITY IDEOGRAPH-2F881", 194689>>,
    <<"CJK COMPATIBILITY IDEOGRAPH-2F882", 194690>>, <<"CJK COMPATIBILITY IDEOGRAPH-2F883", 194691>>,
    <<"CJK COMPATIBILITY IDEOGRAPH-2F884", 194692>>, <<"CJK COMPATIBILITY IDEOGRAPH-2F885", 194693>>,
    <<"CJK COMPATIBILITY IDEOGRAPH-2F886", 194694>>, <<"CJK COMPATIBILITY IDEOGRAPH-2F887", 194695>>,
    <<"CJK COMPATIBILITY IDEOGRAPH-2F888", 194696>>, <<"CJK COMPATIBILITY IDEOGRAPH-2F889", 194697>>,
    <<"CJK COMPATIBILITY IDEOGRAPH-2F88A", 194698>>, <<"CJK COMPATIBILITY IDEOGRAPH-2F88B", 194699>>,
    <<"CJK COMPATIBILITY IDEOGRAPH-2F88C", 194700>>, <<"CJK COMPATIBILITY IDEOGRAPH-2F88D", 194701>>,
    <<"CJK COMPATIBILITY IDEOGRAPH-2F88E", 194702>>, <<"CJK COMPATIBILITY IDEOGRAPH-2F88F", 194703>>,
    <<"CJK COMPATIBILITY IDEOGRAPH-2F890", 194704>>, <<"CJK COMPATIBILITY IDEOGRAPH-2F891", 194705>>,
    <<"CJK COMPATIBILITY IDEOGRAPH-2F892", 194706>>, <<"CJK COMPATIBILITY IDEOGRAPH-2F893", 194707>>,
    <<"CJK COMPATIBILITY IDEOGRAPH-2F894", 194708>>, <<"CJK COMPATIBILITY IDEOGRAPH-2F895", 194709>>,
    <<"CJK COMPATIBILITY IDEOGRAPH-2F896", 194710>>, <<"CJK COMPATIBILITY IDEOGRAPH-2F897", 194711>>,
    <<"CJK COMPATIBILITY IDEOGRAPH-2F898", 194712>>, <<"CJK COMPATIBILITY IDEOGRAPH-2F899", 194713>>,
    <<"CJK COMPATIBILITY IDEOGRAPH-2F89A", 194714>>, <<"CJK COMPATIBILITY IDEOGRAPH-2F89B", 194715>>,
    <<"CJK COMPATIBILITY IDEOGRAPH-2F89C", 194716>>, <<"CJK COMPATIBILITY IDEOGRAPH-2F89D", 194717>>,
    <<"CJK COMPATIBILITY IDEOGRAPH-2F89E", 194718>>, <<"CJK COMPATIBILITY IDEOGRAPH-2F89F", 194719>>,
    <<"CJK COMPATIBILITY IDEOGRAPH-2F8A0", 194720>>, <<"CJK COMPATIBILITY IDEOGRAPH-2F8A1", 194721>>,
    <<"CJK COMPATIBILITY IDEOGRAPH-2F8A2", 194722>>, <<"CJK COMPATIBILITY IDEOGRAPH-2F8A3", 194723>>,
    <<"CJK COMPATIBILITY IDEOGRAPH-2F8A4", 194724>>, <<"CJK COMPATIBILITY IDEOGRAPH-2F8A5", 194725>>,
    <<"CJK COMPATIBILITY IDEOGRAPH-2F8A6", 194726>>, <<"CJK COMPATIBILITY IDEOGRAPH-2F8A7", 194727>>,
    <<"CJK COMPATIBILITY IDEOGRAPH-2F8A8", 194728>>, <<"CJK COMPATIBILITY IDEOGRAPH-2F8A9", 194729>>,
    <<"CJK COMPATIBILITY IDEOGRAPH-2F8AA", 194730>>, <<"CJK COMPATIBILITY IDEOGRAPH-2F8AB", 194731>>,
    <<"CJK COMPATIBILITY IDEOGRAPH-2F8AC", 194732>>, <<"CJK COMPATIBILITY IDEOGRAPH-2F8AD", 194733>>,
    <<"CJK COMPATIBILITY IDEOGRAPH-2F8AE", 194734>>, <<"CJK COMPATIBILITY IDEOGRAPH-2F8AF", 194735>>,
    <<"CJK COMPATIBILITY IDEOGRAPH-2F8B0", 194736>>, <<"CJK COMPATIBILITY IDEOGRAPH-2F8B1", 194737>>,
    <<"CJK COMPATIBILITY IDEOGRAPH-2F8B2", 194738>>, <<"CJK COMPATIBILITY IDEOGRAPH-2F8B3", 194739>>,
    <<"CJK COMPATIBILITY IDEOGRAPH-2F8B4", 194740>>, <<"CJK COMPATIBILITY IDEOGRAPH-2F8B5", 194741>>,
    <<"CJK COMPATIBILITY IDEOGRAPH-2F8B6", 194742>>, <<"CJK COMPATIBILITY IDEOGRAPH-2F8B7", 194743>>,
    <<"CJK COMPATIBILITY IDEOGRAPH-2F8B8", 194744>>, <<"CJK COMPATIBILITY IDEOGRAPH-2F8B9", 194745>>,
    <<"CJK COMPATIBILITY IDEOGRAPH-2F8BA", 194746>>, <<"CJK COMPATIBILITY IDEOGRAPH-2F8BB", 194747>>,
    <<"CJK COMPATIBILITY IDEOGRAPH-2F8BC", 194748>>, <<"CJK COMPATIBILITY IDEOGRAPH-2F8BD", 194749>>,
    <<"CJK COMPATIBILITY IDEOGRAPH-2F8BE", 194750>>, <<"CJK COMPATIBILITY IDEOGRAPH-2F8BF", 194751>>,
    <<"CJK COMPATIBILITY IDEOGRAPH-2F8C0", 194752>>, <<"CJK COMPATIBILITY IDEOGRAPH-2F8C1", 194753>>,
    <<"CJK COMPATIBILITY IDEOGRAPH-2F8C2", 194754>>, <<"CJK COMPATIBILITY IDEOGRAPH-2F8C3", 194755>>,
    <<"CJK COMPATIBILITY IDEOGRAPH-2F8C4", 194756>>, <<"CJK COMPATIBILITY IDEOGRAPH-2F8C5", 194757>>,
    <<"CJK COMPATIBILITY IDEOGRAPH-2F8C6", 194758>>, <<"CJK COMPATIBILITY IDEOGRAPH-2F8C7", 194759>>,
    <<"CJK COMPATIBILITY IDEOGRAPH-2F8C8", 194760>>, <<"CJK COMPATIBILITY IDEOGRAPH-2F8C9", 194761>>,
    <<"CJK COMPATIBILITY IDEOGRAPH-2F8CA", 194762>>, <<"CJK COMPATIBILITY IDEOGRAPH-2F8CB", 194763>>,
    <<"CJK COMPATIBILITY IDEOGRAPH-2F8CC", 194764>>, <<"CJK COMPATIBILITY IDEOGRAPH-2F8CD", 194765>>,
    <<"CJK COMPATIBILITY IDEOGRAPH-2F8CE", 194766>>, <<"CJK COMPATIBILITY IDEOGRAPH-2F8CF", 194767>>,
    <<"CJK COMPATIBILITY IDEOGRAPH-2F8D0", 194768>>, <<"CJK COMPATIBILITY IDEOGRAPH-2F8D1", 194769>>,
    <<"CJK COMPATIBILITY IDEOGRAPH-2F8D2", 194770>>, <<"CJK COMPATIBILITY IDEOGRAPH-2F8D3", 194771>>,
    <<"CJK COMPATIBILITY IDEOGRAPH-2F8D4", 194772>>, <<"CJK COMPATIBILITY IDEOGRAPH-2F8D5", 194773>>,
    <<"CJK COMPATIBILITY IDEOGRAPH-2F8D6", 194774>>, <<"CJK COMPATIBILITY IDEOGRAPH-2F8D7", 194775>>,
    <<"CJK COMPATIBILITY IDEOGRAPH-2F8D8", 194776>>, <<"CJK COMPATIBILITY IDEOGRAPH-2F8D9", 194777>>,
    <<"CJK COMPATIBILITY IDEOGRAPH-2F8DA", 194778>>, <<"CJK COMPATIBILITY IDEOGRAPH-2F8DB", 194779>>,
    <<"CJK COMPATIBILITY IDEOGRAPH-2F8DC", 194780>>, <<"CJK COMPATIBILITY IDEOGRAPH-2F8DD", 194781>>,
    <<"CJK COMPATIBILITY IDEOGRAPH-2F8DE", 194782>>, <<"CJK COMPATIBILITY IDEOGRAPH-2F8DF", 194783>>,
    <<"CJK COMPATIBILITY IDEOGRAPH-2F8E0", 194784>>, <<"CJK COMPATIBILITY IDEOGRAPH-2F8E1", 194785>>,
    <<"CJK COMPATIBILITY IDEOGRAPH-2F8E2", 194786>>, <<"CJK COMPATIBILITY IDEOGRAPH-2F8E3", 194787>>,
    <<"CJK COMPATIBILITY IDEOGRAPH-2F8E4", 194788>>, <<"CJK COMPATIBILITY IDEOGRAPH-2F8E5", 194789>>,
    <<"CJK COMPATIBILITY IDEOGRAPH-2F8E6", 194790>>, <<"CJK COMPATIBILITY IDEOGRAPH-2F8E7", 194791>>,
    <<"CJK COMPATIBILITY IDEOGRAPH-2F8E8", 194792>>, <<"CJK COMPATIBILITY IDEOGRAPH-2F8E9", 194793>>,
    <<"CJK COMPATIBILITY IDEOGRAPH-2F8EA", 194794>>, <<"CJK COMPATIBILITY IDEOGRAPH-2F8EB", 194795>>,
    <<"CJK COMPATIBILITY IDEOGRAPH-2F8EC", 194796>>, <<"CJK COMPATIBILITY IDEOGRAPH-2F8ED", 194797>>,
    <<"CJK COMPATIBILITY IDEOGRAPH-2F8EE", 194798>>, <<"CJK COMPATIBILITY IDEOGRAPH-2F8EF", 194799>>,
    <<"CJK COMPATIBILITY IDEOGRAPH-2F8F0", 194800>>, <<"CJK COMPATIBILITY IDEOGRAPH-2F8F1", 194801>>,
    <<"CJK COMPATIBILITY IDEOGRAPH-2F8F2", 194802>>, <<"CJK COMPATIBILITY IDEOGRAPH-2F8F3", 194803>>,
    <<"CJK COMPATIBILITY IDEOGRAPH-2F8F4", 194804>>, <<"CJK COMPATIBILITY IDEOGRAPH-2F8F5", 194805>>,
    <<"CJK COMPATIBILITY IDEOGRAPH-2F8F6", 194806>>, <<"CJK COMPATIBILITY IDEOGRAPH-2F8F7", 194807>>,
    <<"CJK COMPATIBILITY IDEOGRAPH-2F8F8", 194808>>, <<"CJK COMPATIBILITY IDEOGRAPH-2F8F9", 194809>>,
    <<"CJK COMPATIBILITY IDEOGRAPH-2F8FA", 194810>>, <<"CJK COMPATIBILITY IDEOGRAPH-2F8FB", 194811>>,
    <<"CJK COMPATIBILITY IDEOGRAPH-2F8FC", 194812>>, <<"CJK COMPATIBILITY IDEOGRAPH-2F8FD", 194813>>,
    <<"CJK COMPATIBILITY IDEOGRAPH-2F8FE", 194814>>, <<"CJK COMPATIBILITY IDEOGRAPH-2F8FF", 194815>>,
    <<"CJK COMPATIBILITY IDEOGRAPH-2F900", 194816>>, <<"CJK COMPATIBILITY IDEOGRAPH-2F901", 194817>>,
    <<"CJK COMPATIBILITY IDEOGRAPH-2F902", 194818>>, <<"CJK COMPATIBILITY IDEOGRAPH-2F903", 194819>>,
    <<"CJK COMPATIBILITY IDEOGRAPH-2F904", 194820>>, <<"CJK COMPATIBILITY IDEOGRAPH-2F905", 194821>>,
    <<"CJK COMPATIBILITY IDEOGRAPH-2F906", 194822>>, <<"CJK COMPATIBILITY IDEOGRAPH-2F907", 194823>>,
    <<"CJK COMPATIBILITY IDEOGRAPH-2F908", 194824>>, <<"CJK COMPATIBILITY IDEOGRAPH-2F909", 194825>>,
    <<"CJK COMPATIBILITY IDEOGRAPH-2F90A", 194826>>, <<"CJK COMPATIBILITY IDEOGRAPH-2F90B", 194827>>,
    <<"CJK COMPATIBILITY IDEOGRAPH-2F90C", 194828>>, <<"CJK COMPATIBILITY IDEOGRAPH-2F90D", 194829>>,
    <<"CJK COMPATIBILITY IDEOGRAPH-2F90E", 194830>>, <<"CJK COMPATIBILITY IDEOGRAPH-2F90F", 194831>>,
    <<"CJK COMPATIBILITY IDEOGRAPH-2F910", 194832>>, <<"CJK COMPATIBILITY IDEOGRAPH-2F911", 194833>>,
    <<"CJK COMPATIBILITY IDEOGRAPH-2F912", 194834>>, <<"CJK COMPATIBILITY IDEOGRAPH-2F913", 194835>>,
    <<"CJK COMPATIBILITY IDEOGRAPH-2F914", 194836>>, <<"CJK COMPATIBILITY IDEOGRAPH-2F915", 194837>>,
    <<"CJK COMPATIBILITY IDEOGRAPH-2F916", 194838>>, <<"CJK COMPATIBILITY IDEOGRAPH-2F917", 194839>>,
    <<"CJK COMPATIBILITY IDEOGRAPH-2F918", 194840>>, <<"CJK COMPATIBILITY IDEOGRAPH-2F919", 194841>>,
    <<"CJK COMPATIBILITY IDEOGRAPH-2F91A", 194842>>, <<"CJK COMPATIBILITY IDEOGRAPH-2F91B", 194843>>,
    <<"CJK COMPATIBILITY IDEOGRAPH-2F91C", 194844>>, <<"CJK COMPATIBILITY IDEOGRAPH-2F91D", 194845>>,
    <<"CJK COMPATIBILITY IDEOGRAPH-2F91E", 194846>>, <<"CJK COMPATIBILITY IDEOGRAPH-2F91F", 194847>>,
    <<"CJK COMPATIBILITY IDEOGRAPH-2F920", 194848>>, <<"CJK COMPATIBILITY IDEOGRAPH-2F921", 194849>>,
    <<"CJK COMPATIBILITY IDEOGRAPH-2F922", 194850>>, <<"CJK COMPATIBILITY IDEOGRAPH-2F923", 194851>>,
    <<"CJK COMPATIBILITY IDEOGRAPH-2F924", 194852>>, <<"CJK COMPATIBILITY IDEOGRAPH-2F925", 194853>>,
    <<"CJK COMPATIBILITY IDEOGRAPH-2F926", 194854>>, <<"CJK COMPATIBILITY IDEOGRAPH-2F927", 194855>>,
    <<"CJK COMPATIBILITY IDEOGRAPH-2F928", 194856>>, <<"CJK COMPATIBILITY IDEOGRAPH-2F929", 194857>>,
    <<"CJK COMPATIBILITY IDEOGRAPH-2F92A", 194858>>, <<"CJK COMPATIBILITY IDEOGRAPH-2F92B", 194859>>,
    <<"CJK COMPATIBILITY IDEOGRAPH-2F92C", 194860>>, <<"CJK COMPATIBILITY IDEOGRAPH-2F92D", 194861>>,
    <<"CJK COMPATIBILITY IDEOGRAPH-2F92E", 194862>>, <<"CJK COMPATIBILITY IDEOGRAPH-2F92F", 194863>>,
    <<"CJK COMPATIBILITY IDEOGRAPH-2F930", 194864>>, <<"CJK COMPATIBILITY IDEOGRAPH-2F931", 194865>>,
    <<"CJK COMPATIBILITY IDEOGRAPH-2F932", 194866>>, <<"CJK COMPATIBILITY IDEOGRAPH-2F933", 194867>>,
    <<"CJK COMPATIBILITY IDEOGRAPH-2F934", 194868>>, <<"CJK COMPATIBILITY IDEOGRAPH-2F935", 194869>>,
    <<"CJK COMPATIBILITY IDEOGRAPH-2F936", 194870>>, <<"CJK COMPATIBILITY IDEOGRAPH-2F937", 194871>>,
    <<"CJK COMPATIBILITY IDEOGRAPH-2F938", 194872>>, <<"CJK COMPATIBILITY IDEOGRAPH-2F939", 194873>>,
    <<"CJK COMPATIBILITY IDEOGRAPH-2F93A", 194874>>, <<"CJK COMPATIBILITY IDEOGRAPH-2F93B", 194875>>,
    <<"CJK COMPATIBILITY IDEOGRAPH-2F93C", 194876>>, <<"CJK COMPATIBILITY IDEOGRAPH-2F93D", 194877>>,
    <<"CJK COMPATIBILITY IDEOGRAPH-2F93E", 194878>>, <<"CJK COMPATIBILITY IDEOGRAPH-2F93F", 194879>>,
    <<"CJK COMPATIBILITY IDEOGRAPH-2F940", 194880>>, <<"CJK COMPATIBILITY IDEOGRAPH-2F941", 194881>>,
    <<"CJK COMPATIBILITY IDEOGRAPH-2F942", 194882>>, <<"CJK COMPATIBILITY IDEOGRAPH-2F943", 194883>>,
    <<"CJK COMPATIBILITY IDEOGRAPH-2F944", 194884>>, <<"CJK COMPATIBILITY IDEOGRAPH-2F945", 194885>>,
    <<"CJK COMPATIBILITY IDEOGRAPH-2F946", 194886>>, <<"CJK COMPATIBILITY IDEOGRAPH-2F947", 194887>>,
    <<"CJK COMPATIBILITY IDEOGRAPH-2F948", 194888>>, <<"CJK COMPATIBILITY IDEOGRAPH-2F949", 194889>>,
    <<"CJK COMPATIBILITY IDEOGRAPH-2F94A", 194890>>, <<"CJK COMPATIBILITY IDEOGRAPH-2F94B", 194891>>,
    <<"CJK COMPATIBILITY IDEOGRAPH-2F94C", 194892>>, <<"CJK COMPATIBILITY IDEOGRAPH-2F94D", 194893>>,
    <<"CJK COMPATIBILITY IDEOGRAPH-2F94E", 194894>>, <<"CJK COMPATIBILITY IDEOGRAPH-2F94F", 194895>>,
    <<"CJK COMPATIBILITY IDEOGRAPH-2F950", 194896>>, <<"CJK COMPATIBILITY IDEOGRAPH-2F951", 194897>>,
    <<"CJK COMPATIBILITY IDEOGRAPH-2F952", 194898>>, <<"CJK COMPATIBILITY IDEOGRAPH-2F953", 194899>>,
    <<"CJK COMPATIBILITY IDEOGRAPH-2F954", 194900>>, <<"CJK COMPATIBILITY IDEOGRAPH-2F955", 194901>>,
    <<"CJK COMPATIBILITY IDEOGRAPH-2F956", 194902>>, <<"CJK COMPATIBILITY IDEOGRAPH-2F957", 194903>>,
    <<"CJK COMPATIBILITY IDEOGRAPH-2F958", 194904>>, <<"CJK COMPATIBILITY IDEOGRAPH-2F959", 194905>>,
    <<"CJK COMPATIBILITY IDEOGRAPH-2F95A", 194906>>, <<"CJK COMPATIBILITY IDEOGRAPH-2F95B", 194907>>,
    <<"CJK COMPATIBILITY IDEOGRAPH-2F95C", 194908>>, <<"CJK COMPATIBILITY IDEOGRAPH-2F95D", 194909>>,
    <<"CJK COMPATIBILITY IDEOGRAPH-2F95E", 194910>>, <<"CJK COMPATIBILITY IDEOGRAPH-2F95F", 194911>>,
    <<"CJK COMPATIBILITY IDEOGRAPH-2F960", 194912>>, <<"CJK COMPATIBILITY IDEOGRAPH-2F961", 194913>>,
    <<"CJK COMPATIBILITY IDEOGRAPH-2F962", 194914>>, <<"CJK COMPATIBILITY IDEOGRAPH-2F963", 194915>>,
    <<"CJK COMPATIBILITY IDEOGRAPH-2F964", 194916>>, <<"CJK COMPATIBILITY IDEOGRAPH-2F965", 194917>>,
    <<"CJK COMPATIBILITY IDEOGRAPH-2F966", 194918>>, <<"CJK COMPATIBILITY IDEOGRAPH-2F967", 194919>>,
    <<"CJK COMPATIBILITY IDEOGRAPH-2F968", 194920>>, <<"CJK COMPATIBILITY IDEOGRAPH-2F969", 194921>>,
    <<"CJK COMPATIBILITY IDEOGRAPH-2F96A", 194922>>, <<"CJK COMPATIBILITY IDEOGRAPH-2F96B", 194923>>,
    <<"CJK COMPATIBILITY IDEOGRAPH-2F96C", 194924>>, <<"CJK COMPATIBILITY IDEOGRAPH-2F96D", 194925>>,
    <<"CJK COMPATIBILITY IDEOGRAPH-2F96E", 194926>>, <<"CJK COMPATIBILITY IDEOGRAPH-2F96F", 194927>>,
    <<"CJK COMPATIBILITY IDEOGRAPH-2F970", 194928>>, <<"CJK COMPATIBILITY IDEOGRAPH-2F971", 194929>>,
    <<"CJK COMPATIBILITY IDEOGRAPH-2F972", 194930>>, <<"CJK COMPATIBILITY IDEOGRAPH-2F973", 194931>>,
    <<"CJK COMPATIBILITY IDEOGRAPH-2F974", 194932>>, <<"CJK COMPATIBILITY IDEOGRAPH-2F975", 194933>>,
    <<"CJK COMPATIBILITY IDEOGRAPH-2F976", 194934>>, <<"CJK COMPATIBILITY IDEOGRAPH-2F977", 194935>>,
    <<"CJK COMPATIBILITY IDEOGRAPH-2F978", 194936>>, <<"CJK COMPATIBILITY IDEOGRAPH-2F979", 194937>>,
    <<"CJK COMPATIBILITY IDEOGRAPH-2F97A", 194938>>, <<"CJK COMPATIBILITY IDEOGRAPH-2F97B", 194939>>,
    <<"CJK COMPATIBILITY IDEOGRAPH-2F97C", 194940>>, <<"CJK COMPATIBILITY IDEOGRAPH-2F97D", 194941>>,
    <<"CJK COMPATIBILITY IDEOGRAPH-2F97E", 194942>>, <<"CJK COMPATIBILITY IDEOGRAPH-2F97F", 194943>>,
    <<"CJK COMPATIBILITY IDEOGRAPH-2F980", 194944>>, <<"CJK COMPATIBILITY IDEOGRAPH-2F981", 194945>>,
    <<"CJK COMPATIBILITY IDEOGRAPH-2F982", 194946>>, <<"CJK COMPATIBILITY IDEOGRAPH-2F983", 194947>>,
    <<"CJK COMPATIBILITY IDEOGRAPH-2F984", 194948>>, <<"CJK COMPATIBILITY IDEOGRAPH-2F985", 194949>>,
    <<"CJK COMPATIBILITY IDEOGRAPH-2F986", 194950>>, <<"CJK COMPATIBILITY IDEOGRAPH-2F987", 194951>>,
    <<"CJK COMPATIBILITY IDEOGRAPH-2F988", 194952>>, <<"CJK COMPATIBILITY IDEOGRAPH-2F989", 194953>>,
    <<"CJK COMPATIBILITY IDEOGRAPH-2F98A", 194954>>, <<"CJK COMPATIBILITY IDEOGRAPH-2F98B", 194955>>,
    <<"CJK COMPATIBILITY IDEOGRAPH-2F98C", 194956>>, <<"CJK COMPATIBILITY IDEOGRAPH-2F98D", 194957>>,
    <<"CJK COMPATIBILITY IDEOGRAPH-2F98E", 194958>>, <<"CJK COMPATIBILITY IDEOGRAPH-2F98F", 194959>>,
    <<"CJK COMPATIBILITY IDEOGRAPH-2F990", 194960>>, <<"CJK COMPATIBILITY IDEOGRAPH-2F991", 194961>>,
    <<"CJK COMPATIBILITY IDEOGRAPH-2F992", 194962>>, <<"CJK COMPATIBILITY IDEOGRAPH-2F993", 194963>>,
    <<"CJK COMPATIBILITY IDEOGRAPH-2F994", 194964>>, <<"CJK COMPATIBILITY IDEOGRAPH-2F995", 194965>>,
    <<"CJK COMPATIBILITY IDEOGRAPH-2F996", 194966>>, <<"CJK COMPATIBILITY IDEOGRAPH-2F997", 194967>>,
    <<"CJK COMPATIBILITY IDEOGRAPH-2F998", 194968>>, <<"CJK COMPATIBILITY IDEOGRAPH-2F999", 194969>>,
    <<"CJK COMPATIBILITY IDEOGRAPH-2F99A", 194970>>, <<"CJK COMPATIBILITY IDEOGRAPH-2F99B", 194971>>,
    <<"CJK COMPATIBILITY IDEOGRAPH-2F99C", 194972>>, <<"CJK COMPATIBILITY IDEOGRAPH-2F99D", 194973>>,
    <<"CJK COMPATIBILITY IDEOGRAPH-2F99E", 194974>>, <<"CJK COMPATIBILITY IDEOGRAPH-2F99F", 194975>>,
    <<"CJK COMPATIBILITY IDEOGRAPH-2F9A0", 194976>>, <<"CJK COMPATIBILITY IDEOGRAPH-2F9A1", 194977>>,
    <<"CJK COMPATIBILITY IDEOGRAPH-2F9A2", 194978>>, <<"CJK COMPATIBILITY IDEOGRAPH-2F9A3", 194979>>,
    <<"CJK COMPATIBILITY IDEOGRAPH-2F9A4", 194980>>, <<"CJK COMPATIBILITY IDEOGRAPH-2F9A5", 194981>>,
    <<"CJK COMPATIBILITY IDEOGRAPH-2F9A6", 194982>>, <<"CJK COMPATIBILITY IDEOGRAPH-2F9A7", 194983>>,
    <<"CJK COMPATIBILITY IDEOGRAPH-2F9A8", 194984>>, <<"CJK COMPATIBILITY IDEOGRAPH-2F9A9", 194985>>,
    <<"CJK COMPATIBILITY IDEOGRAPH-2F9AA", 194986>>, <<"CJK COMPATIBILITY IDEOGRAPH-2F9AB", 194987>>,
    <<"CJK COMPATIBILITY IDEOGRAPH-2F9AC", 194988>>, <<"CJK COMPATIBILITY IDEOGRAPH-2F9AD", 194989>>,
    <<"CJK COMPATIBILITY IDEOGRAPH-2F9AE", 194990>>, <<"CJK COMPATIBILITY IDEOGRAPH-2F9AF", 194991>>,
    <<"CJK COMPATIBILITY IDEOGRAPH-2F9B0", 194992>>, <<"CJK COMPATIBILITY IDEOGRAPH-2F9B1", 194993>>,
    <<"CJK COMPATIBILITY IDEOGRAPH-2F9B2", 194994>>, <<"CJK COMPATIBILITY IDEOGRAPH-2F9B3", 194995>>,
    <<"CJK COMPATIBILITY IDEOGRAPH-2F9B4", 194996>>, <<"CJK COMPATIBILITY IDEOGRAPH-2F9B5", 194997>>,
    <<"CJK COMPATIBILITY IDEOGRAPH-2F9B6", 194998>>, <<"CJK COMPATIBILITY IDEOGRAPH-2F9B7", 194999>>,
    <<"CJK COMPATIBILITY IDEOGRAPH-2F9B8", 195000>>, <<"CJK COMPATIBILITY IDEOGRAPH-2F9B9", 195001>>,
    <<"CJK COMPATIBILITY IDEOGRAPH-2F9BA", 195002>>, <<"CJK COMPATIBILITY IDEOGRAPH-2F9BB", 195003>>,
    <<"CJK COMPATIBILITY IDEOGRAPH-2F9BC", 195004>>, <<"CJK COMPATIBILITY IDEOGRAPH-2F9BD", 195005>>,
    <<"CJK COMPATIBILITY IDEOGRAPH-2F9BE", 195006>>, <<"CJK COMPATIBILITY IDEOGRAPH-2F9BF", 195007>>,
    <<"CJK COMPATIBILITY IDEOGRAPH-2F9C0", 195008>>, <<"CJK COMPATIBILITY IDEOGRAPH-2F9C1", 195009>>,
    <<"CJK COMPATIBILITY IDEOGRAPH-2F9C2", 195010>>, <<"CJK COMPATIBILITY IDEOGRAPH-2F9C3", 195011>>,
    <<"CJK COMPATIBILITY IDEOGRAPH-2F9C4", 195012>>, <<"CJK COMPATIBILITY IDEOGRAPH-2F9C5", 195013>>,
    <<"CJK COMPATIBILITY IDEOGRAPH-2F9C6", 195014>>, <<"CJK COMPATIBILITY IDEOGRAPH-2F9C7", 195015>>,
    <<"CJK COMPATIBILITY IDEOGRAPH-2F9C8", 195016>>, <<"CJK COMPATIBILITY IDEOGRAPH-2F9C9", 195017>>,
    <<"CJK COMPATIBILITY IDEOGRAPH-2F9CA", 195018>>, <<"CJK COMPATIBILITY IDEOGRAPH-2F9CB", 195019>>,
    <<"CJK COMPATIBILITY IDEOGRAPH-2F9CC", 195020>>, <<"CJK COMPATIBILITY IDEOGRAPH-2F9CD", 195021>>,
    <<"CJK COMPATIBILITY IDEOGRAPH-2F9CE", 195022>>, <<"CJK COMPATIBILITY IDEOGRAPH-2F9CF", 195023>>,
    <<"CJK COMPATIBILITY IDEOGRAPH-2F9D0", 195024>>, <<"CJK COMPATIBILITY IDEOGRAPH-2F9D1", 195025>>,
    <<"CJK COMPATIBILITY IDEOGRAPH-2F9D2", 195026>>, <<"CJK COMPATIBILITY IDEOGRAPH-2F9D3", 195027>>,
    <<"CJK COMPATIBILITY IDEOGRAPH-2F9D4", 195028>>, <<"CJK COMPATIBILITY IDEOGRAPH-2F9D5", 195029>>,
    <<"CJK COMPATIBILITY IDEOGRAPH-2F9D6", 195030>>, <<"CJK COMPATIBILITY IDEOGRAPH-2F9D7", 195031>>,
    <<"CJK COMPATIBILITY IDEOGRAPH-2F9D8", 195032>>, <<"CJK COMPATIBILITY IDEOGRAPH-2F9D9", 195033>>,
    <<"CJK COMPATIBILITY IDEOGRAPH-2F9DA", 195034>>, <<"CJK COMPATIBILITY IDEOGRAPH-2F9DB", 195035>>,
    <<"CJK COMPATIBILITY IDEOGRAPH-2F9DC", 195036>>, <<"CJK COMPATIBILITY IDEOGRAPH-2F9DD", 195037>>,
    <<"CJK COMPATIBILITY IDEOGRAPH-2F9DE", 195038>>, <<"CJK COMPATIBILITY IDEOGRAPH-2F9DF", 195039>>,
    <<"CJK COMPATIBILITY IDEOGRAPH-2F9E0", 195040>>, <<"CJK COMPATIBILITY IDEOGRAPH-2F9E1", 195041>>,
    <<"CJK COMPATIBILITY IDEOGRAPH-2F9E2", 195042>>, <<"CJK COMPATIBILITY IDEOGRAPH-2F9E3", 195043>>,
    <<"CJK COMPATIBILITY IDEOGRAPH-2F9E4", 195044>>, <<"CJK COMPATIBILITY IDEOGRAPH-2F9E5", 195045>>,
    <<"CJK COMPATIBILITY IDEOGRAPH-2F9E6", 195046>>, <<"CJK COMPATIBILITY IDEOGRAPH-2F9E7", 195047>>,
    <<"CJK COMPATIBILITY IDEOGRAPH-2F9E8", 195048>>, <<"CJK COMPATIBILITY IDEOGRAPH-2F9E9", 195049>>,
    <<"CJK COMPATIBILITY IDEOGRAPH-2F9EA", 195050>>, <<"CJK COMPATIBILITY IDEOGRAPH-2F9EB", 195051>>,
    <<"CJK COMPATIBILITY IDEOGRAPH-2F9EC", 195052>>, <<"CJK COMPATIBILITY IDEOGRAPH-2F9ED", 195053>>,
    <<"CJK COMPATIBILITY IDEOGRAPH-2F9EE", 195054>>, <<"CJK COMPATIBILITY IDEOGRAPH-2F9EF", 195055>>,
    <<"CJK COMPATIBILITY IDEOGRAPH-2F9F0", 195056>>, <<"CJK COMPATIBILITY IDEOGRAPH-2F9F1", 195057>>,
    <<"CJK COMPATIBILITY IDEOGRAPH-2F9F2", 195058>>, <<"CJK COMPATIBILITY IDEOGRAPH-2F9F3", 195059>>,
    <<"CJK COMPATIBILITY IDEOGRAPH-2F9F4", 195060>>, <<"CJK COMPATIBILITY IDEOGRAPH-2F9F5", 195061>>,
    <<"CJK COMPATIBILITY IDEOGRAPH-2F9F6", 195062>>, <<"CJK COMPATIBILITY IDEOGRAPH-2F9F7", 195063>>,
    <<"CJK COMPATIBILITY IDEOGRAPH-2F9F8", 195064>>, <<"CJK COMPATIBILITY IDEOGRAPH-2F9F9", 195065>>,
    <<"CJK COMPATIBILITY IDEOGRAPH-2F9FA", 195066>>, <<"CJK COMPATIBILITY IDEOGRAPH-2F9FB", 195067>>,
    <<"CJK COMPATIBILITY IDEOGRAPH-2F9FC", 195068>>, <<"CJK COMPATIBILITY IDEOGRAPH-2F9FD", 195069>>,
    <<"CJK COMPATIBILITY IDEOGRAPH-2F9FE", 195070>>, <<"CJK COMPATIBILITY IDEOGRAPH-2F9FF", 195071>>,
    <<"CJK COMPATIBILITY IDEOGRAPH-2FA00", 195072>>, <<"CJK COMPATIBILITY IDEOGRAPH-2FA01", 195073>>,
    <<"CJK COMPATIBILITY IDEOGRAPH-2FA02", 195074>>, <<"CJK COMPATIBILITY IDEOGRAPH-2FA03", 195075>>,
    <<"CJK COMPATIBILITY IDEOGRAPH-2FA04", 195076>>, <<"CJK COMPATIBILITY IDEOGRAPH-2FA05", 195077>>,
    <<"CJK COMPATIBILITY IDEOGRAPH-2FA06", 195078>>, <<"CJK COMPATIBILITY IDEOGRAPH-2FA07", 195079>>,
    <<"CJK COMPATIBILITY IDEOGRAPH-2FA08", 195080>>, <<"CJK COMPATIBILITY IDEOGRAPH-2FA09", 195081>>,
    <<"CJK COMPATIBILITY IDEOGRAPH-2FA0A", 195082>>, <<"CJK COMPATIBILITY IDEOGRAPH-2FA0B", 195083>>,
    <<"CJK COMPATIBILITY IDEOGRAPH-2FA0C", 195084>>, <<"CJK COMPATIBILITY IDEOGRAPH-2FA0D", 195085>>,
    <<"CJK COMPATIBILITY IDEOGRAPH-2FA0E", 195086>>, <<"CJK COMPATIBILITY IDEOGRAPH-2FA0F", 195087>>,
    <<"CJK COMPATIBILITY IDEOGRAPH-2FA10", 195088>>, <<"CJK COMPATIBILITY IDEOGRAPH-2FA11", 195089>>,
    <<"CJK COMPATIBILITY IDEOGRAPH-2FA12", 195090>>, <<"CJK COMPATIBILITY IDEOGRAPH-2FA13", 195091>>,
    <<"CJK COMPATIBILITY IDEOGRAPH-2FA14", 195092>>, <<"CJK COMPATIBILITY IDEOGRAPH-2FA15", 195093>>,
    <<"CJK COMPATIBILITY IDEOGRAPH-2FA16", 195094>>, <<"CJK COMPATIBILITY IDEOGRAPH-2FA17", 195095>>,
    <<"CJK COMPATIBILITY IDEOGRAPH-2FA18", 195096>>, <<"CJK COMPATIBILITY IDEOGRAPH-2FA19", 195097>>,
    <<"CJK COMPATIBILITY IDEOGRAPH-2FA1A", 195098>>, <<"CJK COMPATIBILITY IDEOGRAPH-2FA1B", 195099>>,
    <<"CJK COMPATIBILITY IDEOGRAPH-2FA1C", 195100>>, <<"CJK COMPATIBILITY IDEOGRAPH-2FA1D", 195101>>,
    <<"LANGUAGE TAG", 917505>>, <<"TAG SPACE", 917536>>, <<"TAG EXCLAMATION MARK", 917537>>,
    <<"TAG QUOTATION MARK", 917538>>, <<"TAG NUMBER SIGN", 917539>>, <<"TAG DOLLAR SIGN", 917540>>,
    <<"TAG PERCENT SIGN", 917541>>, <<"TAG AMPERSAND", 917542>>, <<"TAG APOSTROPHE", 917543>>,
    <<"TAG LEFT PARENTHESIS", 917544>>, <<"TAG RIGHT PARENTHESIS", 917545>>,
    <<"TAG ASTERISK", 917546>>, <<"TAG PLUS SIGN", 917547>>, <<"TAG COMMA", 917548>>,
    <<"TAG HYPHEN-MINUS", 917549>>, <<"TAG FULL STOP", 917550>>, <<"TAG SOLIDUS", 917551>>,
    <<"TAG DIGIT ZERO", 917552>>, <<"TAG DIGIT ONE", 917553>>, <<"TAG DIGIT TWO", 917554>>,
    <<"TAG DIGIT THREE", 917555>>, <<"TAG DIGIT FOUR", 917556>>, <<"TAG DIGIT FIVE", 917557>>,
    <<"TAG DIGIT SIX", 917558>>, <<"TAG DIGIT SEVEN", 917559>>, <<"TAG DIGIT EIGHT", 917560>>,
    <<"TAG DIGIT NINE", 917561>>, <<"TAG COLON", 917562>>, <<"TAG SEMICOLON", 917563>>,
    <<"TAG LESS-THAN SIGN", 917564>>, <<"TAG EQUALS SIGN", 917565>>,
    <<"TAG GREATER-THAN SIGN", 917566>>, <<"TAG QUESTION MARK", 917567>>,
    <<"TAG COMMERCIAL AT", 917568>>, <<"TAG LATIN CAPITAL LETTER A", 917569>>,
    <<"TAG LATIN CAPITAL LETTER B", 917570>>, <<"TAG LATIN CAPITAL LETTER C", 917571>>,
    <<"TAG LATIN CAPITAL LETTER D", 917572>>, <<"TAG LATIN CAPITAL LETTER E", 917573>>,
    <<"TAG LATIN CAPITAL LETTER F", 917574>>, <<"TAG LATIN CAPITAL LETTER G", 917575>>,
    <<"TAG LATIN CAPITAL LETTER H", 917576>>, <<"TAG LATIN CAPITAL LETTER I", 917577>>,
    <<"TAG LATIN CAPITAL LETTER J", 917578>>, <<"TAG LATIN CAPITAL LETTER K", 917579>>,
    <<"TAG LATIN CAPITAL LETTER L", 917580>>, <<"TAG LATIN CAPITAL LETTER M", 917581>>,
    <<"TAG LATIN CAPITAL LETTER N", 917582>>, <<"TAG LATIN CAPITAL LETTER O", 917583>>,
    <<"TAG LATIN CAPITAL LETTER P", 917584>>, <<"TAG LATIN CAPITAL LETTER Q", 917585>>,
    <<"TAG LATIN CAPITAL LETTER R", 917586>>, <<"TAG LATIN CAPITAL LETTER S", 917587>>,
    <<"TAG LATIN CAPITAL LETTER T", 917588>>, <<"TAG LATIN CAPITAL LETTER U", 917589>>,
    <<"TAG LATIN CAPITAL LETTER V", 917590>>, <<"TAG LATIN CAPITAL LETTER W", 917591>>,
    <<"TAG LATIN CAPITAL LETTER X", 917592>>, <<"TAG LATIN CAPITAL LETTER Y", 917593>>,
    <<"TAG LATIN CAPITAL LETTER Z", 917594>>, <<"TAG LEFT SQUARE BRACKET", 917595>>,
    <<"TAG REVERSE SOLIDUS", 917596>>, <<"TAG RIGHT SQUARE BRACKET", 917597>>,
    <<"TAG CIRCUMFLEX ACCENT", 917598>>, <<"TAG LOW LINE", 917599>>, <<"TAG GRAVE ACCENT", 917600>>,
    <<"TAG LATIN SMALL LETTER A", 917601>>, <<"TAG LATIN SMALL LETTER B", 917602>>,
    <<"TAG LATIN SMALL LETTER C", 917603>>, <<"TAG LATIN SMALL LETTER D", 917604>>,
    <<"TAG LATIN SMALL LETTER E", 917605>>, <<"TAG LATIN SMALL LETTER F", 917606>>,
    <<"TAG LATIN SMALL LETTER G", 917607>>, <<"TAG LATIN SMALL LETTER H", 917608>>,
    <<"TAG LATIN SMALL LETTER I", 917609>>, <<"TAG LATIN SMALL LETTER J", 917610>>,
    <<"TAG LATIN SMALL LETTER K", 917611>>, <<"TAG LATIN SMALL LETTER L", 917612>>,
    <<"TAG LATIN SMALL LETTER M", 917613>>, <<"TAG LATIN SMALL LETTER N", 917614>>,
    <<"TAG LATIN SMALL LETTER O", 917615>>, <<"TAG LATIN SMALL LETTER P", 917616>>,
    <<"TAG LATIN SMALL LETTER Q", 917617>>, <<"TAG LATIN SMALL LETTER R", 917618>>,
    <<"TAG LATIN SMALL LETTER S", 917619>>, <<"TAG LATIN SMALL LETTER T", 917620>>,
    <<"TAG LATIN SMALL LETTER U", 917621>>, <<"TAG LATIN SMALL LETTER V", 917622>>,
    <<"TAG LATIN SMALL LETTER W", 917623>>, <<"TAG LATIN SMALL LETTER X", 917624>>,
    <<"TAG LATIN SMALL LETTER Y", 917625>>, <<"TAG LATIN SMALL LETTER Z", 917626>>,
    <<"TAG LEFT CURLY BRACKET", 917627>>, <<"TAG VERTICAL LINE", 917628>>,
    <<"TAG RIGHT CURLY BRACKET", 917629>>, <<"TAG TILDE", 917630>>, <<"CANCEL TAG", 917631>>,
    <<"VARIATION SELECTOR-17", 917760>>, <<"VS17", 917760>>, <<"VARIATION SELECTOR-18", 917761>>,
    <<"VS18", 917761>>, <<"VARIATION SELECTOR-19", 917762>>, <<"VS19", 917762>>,
    <<"VARIATION SELECTOR-20", 917763>>, <<"VS20", 917763>>, <<"VARIATION SELECTOR-21", 917764>>,
    <<"VS21", 917764>>, <<"VARIATION SELECTOR-22", 917765>>, <<"VS22", 917765>>,
    <<"VARIATION SELECTOR-23", 917766>>, <<"VS23", 917766>>, <<"VARIATION SELECTOR-24", 917767>>,
    <<"VS24", 917767>>, <<"VARIATION SELECTOR-25", 917768>>, <<"VS25", 917768>>,
    <<"VARIATION SELECTOR-26", 917769>>, <<"VS26", 917769>>, <<"VARIATION SELECTOR-27", 917770>>,
    <<"VS27", 917770>>, <<"VARIATION SELECTOR-28", 917771>>, <<"VS28", 917771>>,
    <<"VARIATION SELECTOR-29", 917772>>, <<"VS29", 917772>>, <<"VARIATION SELECTOR-30", 917773>>,
    <<"VS30", 917773>>, <<"VARIATION SELECTOR-31", 917774>>, <<"VS31", 917774>>,
    <<"VARIATION SELECTOR-32", 917775>>, <<"VS32", 917775>>, <<"VARIATION SELECTOR-33", 917776>>,
    <<"VS33", 917776>>, <<"VARIATION SELECTOR-34", 917777>>, <<"VS34", 917777>>,
    <<"VARIATION SELECTOR-35", 917778>>, <<"VS35", 917778>>, <<"VARIATION SELECTOR-36", 917779>>,
    <<"VS36", 917779>>, <<"VARIATION SELECTOR-37", 917780>>, <<"VS37", 917780>>,
    <<"VARIATION SELECTOR-38", 917781>>, <<"VS38", 917781>>, <<"VARIATION SELECTOR-39", 917782>>,
    <<"VS39", 917782>>, <<"VARIATION SELECTOR-40", 917783>>, <<"VS40", 917783>>,
    <<"VARIATION SELECTOR-41", 917784>>, <<"VS41", 917784>>, <<"VARIATION SELECTOR-42", 917785>>,
    <<"VS42", 917785>>, <<"VARIATION SELECTOR-43", 917786>>, <<"VS43", 917786>>,
    <<"VARIATION SELECTOR-44", 917787>>, <<"VS44", 917787>>, <<"VARIATION SELECTOR-45", 917788>>,
    <<"VS45", 917788>>, <<"VARIATION SELECTOR-46", 917789>>, <<"VS46", 917789>>,
    <<"VARIATION SELECTOR-47", 917790>>, <<"VS47", 917790>>, <<"VARIATION SELECTOR-48", 917791>>,
    <<"VS48", 917791>>, <<"VARIATION SELECTOR-49", 917792>>, <<"VS49", 917792>>,
    <<"VARIATION SELECTOR-50", 917793>>, <<"VS50", 917793>>, <<"VARIATION SELECTOR-51", 917794>>,
    <<"VS51", 917794>>, <<"VARIATION SELECTOR-52", 917795>>, <<"VS52", 917795>>,
    <<"VARIATION SELECTOR-53", 917796>>, <<"VS53", 917796>>, <<"VARIATION SELECTOR-54", 917797>>,
    <<"VS54", 917797>>, <<"VARIATION SELECTOR-55", 917798>>, <<"VS55", 917798>>,
    <<"VARIATION SELECTOR-56", 917799>>, <<"VS56", 917799>>, <<"VARIATION SELECTOR-57", 917800>>,
    <<"VS57", 917800>>, <<"VARIATION SELECTOR-58", 917801>>, <<"VS58", 917801>>,
    <<"VARIATION SELECTOR-59", 917802>>, <<"VS59", 917802>>, <<"VARIATION SELECTOR-60", 917803>>,
    <<"VS60", 917803>>, <<"VARIATION SELECTOR-61", 917804>>, <<"VS61", 917804>>,
    <<"VARIATION SELECTOR-62", 917805>>, <<"VS62", 917805>>, <<"VARIATION SELECTOR-63", 917806>>,
    <<"VS63", 917806>>, <<"VARIATION SELECTOR-64", 917807>>, <<"VS64", 917807>>,
    <<"VARIATION SELECTOR-65", 917808>>, <<"VS65", 917808>>, <<"VARIATION SELECTOR-66", 917809>>,
    <<"VS66", 917809>>, <<"VARIATION SELECTOR-67", 917810>>, <<"VS67", 917810>>,
    <<"VARIATION SELECTOR-68", 917811>>, <<"VS68", 917811>>, <<"VARIATION SELECTOR-69", 917812>>,
    <<"VS69", 917812>>, <<"VARIATION SELECTOR-70", 917813>>, <<"VS70", 917813>>,
    <<"VARIATION SELECTOR-71", 917814>>, <<"VS71", 917814>>, <<"VARIATION SELECTOR-72", 917815>>,
    <<"VS72", 917815>>, <<"VARIATION SELECTOR-73", 917816>>, <<"VS73", 917816>>,
    <<"VARIATION SELECTOR-74", 917817>>, <<"VS74", 917817>>, <<"VARIATION SELECTOR-75", 917818>>,
    <<"VS75", 917818>>, <<"VARIATION SELECTOR-76", 917819>>, <<"VS76", 917819>>,
    <<"VARIATION SELECTOR-77", 917820>>, <<"VS77", 917820>>, <<"VARIATION SELECTOR-78", 917821>>,
    <<"VS78", 917821>>, <<"VARIATION SELECTOR-79", 917822>>, <<"VS79", 917822>>,
    <<"VARIATION SELECTOR-80", 917823>>, <<"VS80", 917823>>, <<"VARIATION SELECTOR-81", 917824>>,
    <<"VS81", 917824>>, <<"VARIATION SELECTOR-82", 917825>>, <<"VS82", 917825>>,
    <<"VARIATION SELECTOR-83", 917826>>, <<"VS83", 917826>>, <<"VARIATION SELECTOR-84", 917827>>,
    <<"VS84", 917827>>, <<"VARIATION SELECTOR-85", 917828>>, <<"VS85", 917828>>,
    <<"VARIATION SELECTOR-86", 917829>>, <<"VS86", 917829>>, <<"VARIATION SELECTOR-87", 917830>>,
    <<"VS87", 917830>>, <<"VARIATION SELECTOR-88", 917831>>, <<"VS88", 917831>>,
    <<"VARIATION SELECTOR-89", 917832>>, <<"VS89", 917832>>, <<"VARIATION SELECTOR-90", 917833>>,
    <<"VS90", 917833>>, <<"VARIATION SELECTOR-91", 917834>>, <<"VS91", 917834>>,
    <<"VARIATION SELECTOR-92", 917835>>, <<"VS92", 917835>>, <<"VARIATION SELECTOR-93", 917836>>,
    <<"VS93", 917836>>, <<"VARIATION SELECTOR-94", 917837>>, <<"VS94", 917837>>,
    <<"VARIATION SELECTOR-95", 917838>>, <<"VS95", 917838>>, <<"VARIATION SELECTOR-96", 917839>>,
    <<"VS96", 917839>>, <<"VARIATION SELECTOR-97", 917840>>, <<"VS97", 917840>>,
    <<"VARIATION SELECTOR-98", 917841>>, <<"VS98", 917841>>, <<"VARIATION SELECTOR-99", 917842>>,
    <<"VS99", 917842>>, <<"VARIATION SELECTOR-100", 917843>>, <<"VS100", 917843>>,
    <<"VARIATION SELECTOR-101", 917844>>, <<"VS101", 917844>>, <<"VARIATION SELECTOR-102", 917845>>,
    <<"VS102", 917845>>, <<"VARIATION SELECTOR-103", 917846>>, <<"VS103", 917846>>,
    <<"VARIATION SELECTOR-104", 917847>>, <<"VS104", 917847>>, <<"VARIATION SELECTOR-105", 917848>>,
    <<"VS105", 917848>>, <<"VARIATION SELECTOR-106", 917849>>, <<"VS106", 917849>>,
    <<"VARIATION SELECTOR-107", 917850>>, <<"VS107", 917850>>, <<"VARIATION SELECTOR-108", 917851>>,
    <<"VS108", 917851>>, <<"VARIATION SELECTOR-109", 917852>>, <<"VS109", 917852>>,
    <<"VARIATION SELECTOR-110", 917853>>, <<"VS110", 917853>>, <<"VARIATION SELECTOR-111", 917854>>,
    <<"VS111", 917854>>, <<"VARIATION SELECTOR-112", 917855>>, <<"VS112", 917855>>,
    <<"VARIATION SELECTOR-113", 917856>>, <<"VS113", 917856>>, <<"VARIATION SELECTOR-114", 917857>>,
    <<"VS114", 917857>>, <<"VARIATION SELECTOR-115", 917858>>, <<"VS115", 917858>>,
    <<"VARIATION SELECTOR-116", 917859>>, <<"VS116", 917859>>, <<"VARIATION SELECTOR-117", 917860>>,
    <<"VS117", 917860>>, <<"VARIATION SELECTOR-118", 917861>>, <<"VS118", 917861>>,
    <<"VARIATION SELECTOR-119", 917862>>, <<"VS119", 917862>>, <<"VARIATION SELECTOR-120", 917863>>,
    <<"VS120", 917863>>, <<"VARIATION SELECTOR-121", 917864>>, <<"VS121", 917864>>,
    <<"VARIATION SELECTOR-122", 917865>>, <<"VS122", 917865>>, <<"VARIATION SELECTOR-123", 917866>>,
    <<"VS123", 917866>>, <<"VARIATION SELECTOR-124", 917867>>, <<"VS124", 917867>>,
    <<"VARIATION SELECTOR-125", 917868>>, <<"VS125", 917868>>, <<"VARIATION SELECTOR-126", 917869>>,
    <<"VS126", 917869>>, <<"VARIATION SELECTOR-127", 917870>>, <<"VS127", 917870>>,
    <<"VARIATION SELECTOR-128", 917871>>, <<"VS128", 917871>>, <<"VARIATION SELECTOR-129", 917872>>,
    <<"VS129", 917872>>, <<"VARIATION SELECTOR-130", 917873>>, <<"VS130", 917873>>,
    <<"VARIATION SELECTOR-131", 917874>>, <<"VS131", 917874>>, <<"VARIATION SELECTOR-132", 917875>>,
    <<"VS132", 917875>>, <<"VARIATION SELECTOR-133", 917876>>, <<"VS133", 917876>>,
    <<"VARIATION SELECTOR-134", 917877>>, <<"VS134", 917877>>, <<"VARIATION SELECTOR-135", 917878>>,
    <<"VS135", 917878>>, <<"VARIATION SELECTOR-136", 917879>>, <<"VS136", 917879>>,
    <<"VARIATION SELECTOR-137", 917880>>, <<"VS137", 917880>>, <<"VARIATION SELECTOR-138", 917881>>,
    <<"VS138", 917881>>, <<"VARIATION SELECTOR-139", 917882>>, <<"VS139", 917882>>,
    <<"VARIATION SELECTOR-140", 917883>>, <<"VS140", 917883>>, <<"VARIATION SELECTOR-141", 917884>>,
    <<"VS141", 917884>>, <<"VARIATION SELECTOR-142", 917885>>, <<"VS142", 917885>>,
    <<"VARIATION SELECTOR-143", 917886>>, <<"VS143", 917886>>, <<"VARIATION SELECTOR-144", 917887>>,
    <<"VS144", 917887>>, <<"VARIATION SELECTOR-145", 917888>>, <<"VS145", 917888>>,
    <<"VARIATION SELECTOR-146", 917889>>, <<"VS146", 917889>>, <<"VARIATION SELECTOR-147", 917890>>,
    <<"VS147", 917890>>, <<"VARIATION SELECTOR-148", 917891>>, <<"VS148", 917891>>,
    <<"VARIATION SELECTOR-149", 917892>>, <<"VS149", 917892>>, <<"VARIATION SELECTOR-150", 917893>>,
    <<"VS150", 917893>>, <<"VARIATION SELECTOR-151", 917894>>, <<"VS151", 917894>>,
    <<"VARIATION SELECTOR-152", 917895>>, <<"VS152", 917895>>, <<"VARIATION SELECTOR-153", 917896>>,
    <<"VS153", 917896>>, <<"VARIATION SELECTOR-154", 917897>>, <<"VS154", 917897>>,
    <<"VARIATION SELECTOR-155", 917898>>, <<"VS155", 917898>>, <<"VARIATION SELECTOR-156", 917899>>,
    <<"VS156", 917899>>, <<"VARIATION SELECTOR-157", 917900>>, <<"VS157", 917900>>,
    <<"VARIATION SELECTOR-158", 917901>>, <<"VS158", 917901>>, <<"VARIATION SELECTOR-159", 917902>>,
    <<"VS159", 917902>>, <<"VARIATION SELECTOR-160", 917903>>, <<"VS160", 917903>>,
    <<"VARIATION SELECTOR-161", 917904>>, <<"VS161", 917904>>, <<"VARIATION SELECTOR-162", 917905>>,
    <<"VS162", 917905>>, <<"VARIATION SELECTOR-163", 917906>>, <<"VS163", 917906>>,
    <<"VARIATION SELECTOR-164", 917907>>, <<"VS164", 917907>>, <<"VARIATION SELECTOR-165", 917908>>,
    <<"VS165", 917908>>, <<"VARIATION SELECTOR-166", 917909>>, <<"VS166", 917909>>,
    <<"VARIATION SELECTOR-167", 917910>>, <<"VS167", 917910>>, <<"VARIATION SELECTOR-168", 917911>>,
    <<"VS168", 917911>>, <<"VARIATION SELECTOR-169", 917912>>, <<"VS169", 917912>>,
    <<"VARIATION SELECTOR-170", 917913>>, <<"VS170", 917913>>, <<"VARIATION SELECTOR-171", 917914>>,
    <<"VS171", 917914>>, <<"VARIATION SELECTOR-172", 917915>>, <<"VS172", 917915>>,
    <<"VARIATION SELECTOR-173", 917916>>, <<"VS173", 917916>>, <<"VARIATION SELECTOR-174", 917917>>,
    <<"VS174", 917917>>, <<"VARIATION SELECTOR-175", 917918>>, <<"VS175", 917918>>,
    <<"VARIATION SELECTOR-176", 917919>>, <<"VS176", 917919>>, <<"VARIATION SELECTOR-177", 917920>>,
    <<"VS177", 917920>>, <<"VARIATION SELECTOR-178", 917921>>, <<"VS178", 917921>>,
    <<"VARIATION SELECTOR-179", 917922>>, <<"VS179", 917922>>, <<"VARIATION SELECTOR-180", 917923>>,
    <<"VS180", 917923>>, <<"VARIATION SELECTOR-181", 917924>>, <<"VS181", 917924>>,
    <<"VARIATION SELECTOR-182", 917925>>, <<"VS182", 917925>>, <<"VARIATION SELECTOR-183", 917926>>,
    <<"VS183", 917926>>, <<"VARIATION SELECTOR-184", 917927>>, <<"VS184", 917927>>,
    <<"VARIATION SELECTOR-185", 917928>>, <<"VS185", 917928>>, <<"VARIATION SELECTOR-186", 917929>>,
    <<"VS186", 917929>>, <<"VARIATION SELECTOR-187", 917930>>, <<"VS187", 917930>>,
    <<"VARIATION SELECTOR-188", 917931>>, <<"VS188", 917931>>, <<"VARIATION SELECTOR-189", 917932>>,
    <<"VS189", 917932>>, <<"VARIATION SELECTOR-190", 917933>>, <<"VS190", 917933>>,
    <<"VARIATION SELECTOR-191", 917934>>, <<"VS191", 917934>>, <<"VARIATION SELECTOR-192", 917935>>,
    <<"VS192", 917935>>, <<"VARIATION SELECTOR-193", 917936>>, <<"VS193", 917936>>,
    <<"VARIATION SELECTOR-194", 917937>>, <<"VS194", 917937>>, <<"VARIATION SELECTOR-195", 917938>>,
    <<"VS195", 917938>>, <<"VARIATION SELECTOR-196", 917939>>, <<"VS196", 917939>>,
    <<"VARIATION SELECTOR-197", 917940>>, <<"VS197", 917940>>, <<"VARIATION SELECTOR-198", 917941>>,
    <<"VS198", 917941>>, <<"VARIATION SELECTOR-199", 917942>>, <<"VS199", 917942>>,
    <<"VARIATION SELECTOR-200", 917943>>, <<"VS200", 917943>>, <<"VARIATION SELECTOR-201", 917944>>,
    <<"VS201", 917944>>, <<"VARIATION SELECTOR-202", 917945>>, <<"VS202", 917945>>,
    <<"VARIATION SELECTOR-203", 917946>>, <<"VS203", 917946>>, <<"VARIATION SELECTOR-204", 917947>>,
    <<"VS204", 917947>>, <<"VARIATION SELECTOR-205", 917948>>, <<"VS205", 917948>>,
    <<"VARIATION SELECTOR-206", 917949>>, <<"VS206", 917949>>, <<"VARIATION SELECTOR-207", 917950>>,
    <<"VS207", 917950>>, <<"VARIATION SELECTOR-208", 917951>>, <<"VS208", 917951>>,
    <<"VARIATION SELECTOR-209", 917952>>, <<"VS209", 917952>>, <<"VARIATION SELECTOR-210", 917953>>,
    <<"VS210", 917953>>, <<"VARIATION SELECTOR-211", 917954>>, <<"VS211", 917954>>,
    <<"VARIATION SELECTOR-212", 917955>>, <<"VS212", 917955>>, <<"VARIATION SELECTOR-213", 917956>>,
    <<"VS213", 917956>>, <<"VARIATION SELECTOR-214", 917957>>, <<"VS214", 917957>>,
    <<"VARIATION SELECTOR-215", 917958>>, <<"VS215", 917958>>, <<"VARIATION SELECTOR-216", 917959>>,
    <<"VS216", 917959>>, <<"VARIATION SELECTOR-217", 917960>>, <<"VS217", 917960>>,
    <<"VARIATION SELECTOR-218", 917961>>, <<"VS218", 917961>>, <<"VARIATION SELECTOR-219", 917962>>,
    <<"VS219", 917962>>, <<"VARIATION SELECTOR-220", 917963>>, <<"VS220", 917963>>,
    <<"VARIATION SELECTOR-221", 917964>>, <<"VS221", 917964>>, <<"VARIATION SELECTOR-222", 917965>>,
    <<"VS222", 917965>>, <<"VARIATION SELECTOR-223", 917966>>, <<"VS223", 917966>>,
    <<"VARIATION SELECTOR-224", 917967>>, <<"VS224", 917967>>, <<"VARIATION SELECTOR-225", 917968>>,
    <<"VS225", 917968>>, <<"VARIATION SELECTOR-226", 917969>>, <<"VS226", 917969>>,
    <<"VARIATION SELECTOR-227", 917970>>, <<"VS227", 917970>>, <<"VARIATION SELECTOR-228", 917971>>,
    <<"VS228", 917971>>, <<"VARIATION SELECTOR-229", 917972>>, <<"VS229", 917972>>,
    <<"VARIATION SELECTOR-230", 917973>>, <<"VS230", 917973>>, <<"VARIATION SELECTOR-231", 917974>>,
    <<"VS231", 917974>>, <<"VARIATION SELECTOR-232", 917975>>, <<"VS232", 917975>>,
    <<"VARIATION SELECTOR-233", 917976>>, <<"VS233", 917976>>, <<"VARIATION SELECTOR-234", 917977>>,
    <<"VS234", 917977>>, <<"VARIATION SELECTOR-235", 917978>>, <<"VS235", 917978>>,
    <<"VARIATION SELECTOR-236", 917979>>, <<"VS236", 917979>>, <<"VARIATION SELECTOR-237", 917980>>,
    <<"VS237", 917980>>, <<"VARIATION SELECTOR-238", 917981>>, <<"VS238", 917981>>,
    <<"VARIATION SELECTOR-239", 917982>>, <<"VS239", 917982>>, <<"VARIATION SELECTOR-240", 917983>>,
    <<"VS240", 917983>>, <<"VARIATION SELECTOR-241", 917984>>, <<"VS241", 917984>>,
    <<"VARIATION SELECTOR-242", 917985>>, <<"VS242", 917985>>, <<"VARIATION SELECTOR-243", 917986>>,
    <<"VS243", 917986>>, <<"VARIATION SELECTOR-244", 917987>>, <<"VS244", 917987>>,
    <<"VARIATION SELECTOR-245", 917988>>, <<"VS245", 917988>>, <<"VARIATION SELECTOR-246", 917989>>,
    <<"VS246", 917989>>, <<"VARIATION SELECTOR-247", 917990>>, <<"VS247", 917990>>,
    <<"VARIATION SELECTOR-248", 917991>>, <<"VS248", 917991>>, <<"VARIATION SELECTOR-249", 917992>>,
    <<"VS249", 917992>>, <<"VARIATION SELECTOR-250", 917993>>, <<"VS250", 917993>>,
    <<"VARIATION SELECTOR-251", 917994>>, <<"VS251", 917994>>, <<"VARIATION SELECTOR-252", 917995>>,
    <<"VS252", 917995>>, <<"VARIATION SELECTOR-253", 917996>>, <<"VS253", 917996>>,
    <<"VARIATION SELECTOR-254", 917997>>, <<"VS254", 917997>>, <<"VARIATION SELECTOR-255", 917998>>,
    <<"VS255", 917998>>, <<"VARIATION SELECTOR-256", 917999>>, <<"VS256", 917999>> }

\* decode_match: codecs.decode(..., 'unicode_escape') of one match m of
\* ESCAPE_SEQUENCE_SINGLE_RE, None when it raises UnicodeDecodeError (a code
\* point above 0x10FFFF, an unknown character name), which decode_match
\* turns into MesonUnicodeDecodeError, and "UnicodeEncodeError" when
\* match.group(0).encode() raises that exception (a surrogate in the match,
\* which only a character name can hold), which it does not catch.  A name
\* is looked up
\* as the decoder does it: 'HANGUL SYLLABLE ' and 'CJK UNIFIED IDEOGRAPH-',
\* written so, start a computed name; any other name is looked up in the
\* table with its ASCII letters in upper case.
decode_match(m) ==
  LET upper(ch) == IF ch \in Lower THEN Chr((CHOOSE n \in 97..122 : Chr(n) = ch) - 32) ELSE ch
      RECURSIVE text(_), raw(_)
      text(t) == IF t = << >> THEN "" ELSE upper(Head(t)) \o text(Tail(t))
      raw(t) == IF t = << >> THEN "" ELSE Head(t) \o raw(Tail(t))
      name == SubSeq(m, 4, Len(m) - 1)
      \* the Hangul syllables: leading consonant, vowel and trailing consonant
      L == <<"G", "GG", "N", "D", "DD", "R", "M", "B", "BB", "S", "SS", "", "J", "JJ",
             "C", "K", "T", "P", "H">>
      V == <<"A", "AE", "YA", "YAE", "EO", "E", "YEO", "YE", "O", "WA", "WAE", "OE",
             "YO", "U", "WEO", "WE", "WI", "YU", "EU", "YI", "I">>
      T == <<"", "G", "GG", "GS", "N", "NJ", "NH", "D", "L", "LG", "LM", "LB", "LS",
             "LT", "LP", "LH", "M", "B", "BS", "S", "SS", "NG", "J", "C", "K", "T",
             "P", "H">>
      hangul == (CHOOSE r \in { {(x[1] - 1) * 588 + (x[2] - 1) * 28 + (x[3] - 1) + 44032 :
                                  x \in {y \in (DOMAIN L) \X (DOMAIN V) \X (DOMAIN T) :
                                           L[y[1]] \o V[y[2]] \o T[y[3]] = rest}} :
                                rest \in {raw(SubSeq(name, 17, Len(name)))} } : TRUE)
      \* the unified ideographs: four or five hexadecimal digits, A to F in
      \* upper case, of a code point that is one
      digits == SubSeq(name, 23, Len(name))
      v == DigitsVal(digits, 16, 0)
      is_unified_ideograph ==
        \/ v \in 13312..19903 \/ v \in 19968..40959 \/ v \in 131072..173791
        \/ v \in 173824..177976 \/ v \in 177984..178205 \/ v \in 178208..183969
        \/ v \in 183984..191456 \/ v \in 196608..201546
      named == (CHOOSE r \in { {x[2] : x \in {y \in UnicodeNames : y[1] = nm}} :
                               nm \in {text(name)} } : TRUE)
      getcode ==
        IF raw(PySlice(name, 0, 16)) = "HANGUL SYLLABLE " THEN hangul
        ELSE IF raw(PySlice(name, 0, 22)) = "CJK UNIFIED IDEOGRAPH-"
          THEN IF /\ Len(digits) \in {4, 5}
                  /\ \A k \in DOMAIN digits : digits[k] \in Digit \cup {"A", "B", "C", "D", "E", "F"}
                  /\ is_unified_ideograph
                 THEN {v} ELSE {}
        ELSE named
      code == DigitsVal(SubSeq(m, 3, Len(m)), 16, 0)
      surrogates == {Chr(n) : n \in 55296..57343}
  IN CASE m[2] = "U" -> IF code > 1114111 THEN None ELSE Chr(code)
       [] m[2] \in {"u", "x"} -> Chr(code)
       [] m[2] \in OctDigit -> Chr(DigitsVal(Tail(m), 8, 0))
       [] m[2] = "N" ->
            IF \E k \in DOMAIN name : name[k] \in surrogates THEN "UnicodeEncodeError"
            ELSE (CHOOSE r \in { IF g = {} THEN None ELSE Chr(CHOOSE x \in g : TRUE) :
                                 g \in {getcode} } : TRUE)
       [] OTHER -> SingleEscape(m[2])

\* ESCAPE_SEQUENCE_SINGLE_RE.sub(decode_match, v) from offset p on: the
\* matches are replaced left to right and other text is kept; err is the
\* MesonUnicodeDecodeError or the UnicodeEncodeError of the first match that
\* does not decode
DecodeEscapes(v, p) ==
  LET hex(a, n) == \A k \in 0..(n - 1) : At(v, a + k) \in HexDigit
      \* the end of the match of the pattern at offset a, -1 if it does not match
      matchend(a) ==
        IF At(v, a) # BSL THEN -1
        ELSE IF At(v, a + 1) = "U" /\ hex(a + 2, 8) THEN a + 10
        ELSE IF At(v, a + 1) = "u" /\ hex(a + 2, 4) THEN a + 6
        ELSE IF At(v, a + 1) = "x" /\ hex(a + 2, 2) THEN a + 4
        ELSE IF At(v, a + 1) \in OctDigit THEN OctEnd(v, a + 1)
        ELSE IF At(v, a + 1) = "N" /\ At(v, a + 2) = "{" /\ At(v, a + 3) \notin {"}", ""}
                /\ PyFind(v, "}", a + 3) # -1
          THEN PyFind(v, "}", a + 3) + 1
        ELSE IF At(v, a + 1) \in {BSL, QUOTE, "a", "b", "f", "n", "r", "t", "v"} THEN a + 2
        ELSE -1
      RECURSIVE sub(_, _)
      sub(a, acc) ==
        IF a >= Len(v) THEN [value |-> acc, err |-> NoErr]
        ELSE IF matchend(a) = -1 THEN sub(a + 1, Append(acc, At(v, a)))
        ELSE (CHOOSE r \in {
                IF d = None
                  THEN [value |-> acc,
                        err |-> [kind |-> "MesonUnicodeDecodeError",
                                 match |-> PySlice(v, a, matchend(a))]]
                  ELSE IF d = "UnicodeEncodeError"
                  THEN [value |-> acc,
                        err |-> [kind |-> "UnicodeEncodeError",
                                 object |-> PySlice(v, a, matchend(a))]]
                  ELSE sub(matchend(a), Append(acc, d)) :
                d \in {decode_match(PySlice(v, a, matchend(a)))} } : TRUE)
  IN sub(p, << >>)

\* Lexer.getline
Lexer_getline(c, line_start) == PySlice(c, line_start, PyFind(c, NL, line_start))


ParseException(text, line, lineno, colno) ==
  [kind |-> "ParseException", text |-> text, line |-> line,
   lineno |-> lineno, colno |-> colno]

BlockParseException(text, line, lineno, colno, start_line, start_lineno, start_colno) ==
  [kind |-> "BlockParseException", text |-> text, line |-> line,
   lineno |-> lineno, colno |-> colno, start_line |-> start_line,
   start_lineno |-> start_lineno, start_colno |-> start_colno]

Token(tid, line_start, lineno, colno, bytespan, value) ==
  [tid |-> tid, line_start |-> line_start, lineno |-> lineno, colno |-> colno,
   bytespan |-> bytespan, value |-> value]

\* a call of mlog.warning: the fixed text of the message and the name the
\* message quotes (the empty text when it quotes none)
Warning(text, name) == [text |-> text, name |-> name]

Comment(line_start, lineno, colno, bytespan, text) ==
  [line_start |-> line_start, lineno |-> lineno, colno |-> colno,
   bytespan |-> bytespan, text |-> text]

LexInit ==
  [line_start |-> 0, lineno |-> 1, loc |-> 0, par_count |-> 0,
   bracket_count |-> 0, curl_count |-> 0, col |-> 0,
   toks |-> << >>, comments |-> << >>, warnings |-> << >>, err |-> NoErr]

\* the condition of the 'eol' branch looking at the parentheses only
InBrackets_par_only(st) == st.par_count > 0

\* the condition of the 'eol' branch: the newline stands inside brackets
InBrackets(st) == st.par_count > 0 \/ st.bracket_count > 0 \/ st.curl_count > 0

\* the statements of the loop body of Lexer.lex for a match of the pattern
\* tid that ends at offset e; the state is st before the match
LexToken(c, st, tid, e) ==
  LET col == st.loc - st.line_start
      bytespan == <<st.loc, e>>
      match_text == PySlice(c, st.loc, e)
      s1 == [st EXCEPT !.col = col, !.loc = e]
      emit(t, v, s) ==
        [s EXCEPT !.toks = Append(@, Token(t, st.line_start, st.lineno, col, bytespan, v))]
  IN CASE tid = "ignore" -> s1
       [] tid = "lparen" -> emit(tid, None, [s1 EXCEPT !.par_count = @ + 1])
       [] tid = "rparen" -> emit(tid, None, [s1 EXCEPT !.par_count = @ - 1])
       [] tid = "lbracket" -> emit(tid, None, [s1 EXCEPT !.bracket_count = @ + 1])
       [] tid = "rbracket" -> emit(tid, None, [s1 EXCEPT !.bracket_count = @ - 1])
       [] tid = "lcurl" -> emit(tid, None, [s1 EXCEPT !.curl_count = @ + 1])
       [] tid = "rcurl" -> emit(tid, None, [s1 EXCEPT !.curl_count = @ - 1])
       [] tid = "dblquote" ->
            [s1 EXCEPT !.err = ParseException("Double quotes are not supported. Use single quotes.",
                                              Lexer_getline(c, st.line_start), st.lineno, col)]
       [] tid \in {"string", "fstring"} ->
            (CHOOSE r \in {
               \* only MesonUnicodeDecodeError is caught; UnicodeEncodeError
               \* leaves the lexer as it is
               IF decoded.err # NoErr /\ decoded.err.kind = "UnicodeEncodeError"
                 THEN [s2 EXCEPT !.err = decoded.err]
               ELSE IF decoded.err # NoErr
                 THEN [s2 EXCEPT !.err = [kind |-> "MesonException",
                                          text |-> "Failed to parse escape sequence",
                                          match |-> decoded.err.match, string |-> match_text]]
                 ELSE emit(tid, decoded.value, s2) :
               decoded \in {DecodeEscapes(PySlice(match_text, IF tid = "fstring" THEN 2 ELSE 1, -1), 0)},
               s2 \in {IF PyFind(match_text, NL, 0) # -1
                         THEN [s1 EXCEPT !.warnings = Append(@, Warning("Newline character in a string detected", << >>))]
                         ELSE s1} } : TRUE)
       [] tid \in {"multiline_string", "multiline_fstring"} ->
            \* lines[-1] is the text after the last newline of the match
            emit(IF tid = "multiline_string" THEN "string" ELSE tid,
                 IF tid = "multiline_string"
                   THEN PySlice(match_text, 3, -3)
                   ELSE PySlice(match_text, 4, -3),
                 IF CountChar(match_text, NL) > 0
                   THEN [s1 EXCEPT !.lineno = @ + CountChar(match_text, NL),
                                   !.line_start = e - (Len(match_text) - 1 - LastFind(match_text, NL))]
                   ELSE s1)
       [] tid = "number" -> emit(tid, IntBase0(match_text), s1)
       [] tid = "eol_cont" -> [s1 EXCEPT !.lineno = @ + 1, !.line_start = e]
       [] tid = "eol" ->
            IF InBrackets(st)
              THEN [s1 EXCEPT !.lineno = @ + 1, !.line_start = e]
              ELSE emit(tid, None, [s1 EXCEPT !.lineno = @ + 1, !.line_start = e])
       [] tid = "comment" ->
            [s1 EXCEPT !.comments = Append(@, Comment(st.line_start, st.lineno, col,
                                                      bytespan, match_text))]
       [] tid = "id" ->
            IF match_text \in keywords
              THEN emit(KeywordTid(match_text), None, s1)
              ELSE emit(tid, match_text,
                        IF match_text \in future_keywords
                          THEN [s1 EXCEPT !.warnings = Append(@, Warning("will become a reserved keyword", match_text))]
                          ELSE s1)
       [] OTHER -> emit(tid, None, s1)

\* the for loop over token_specification once its pattern number i, the first
\* that matches, is known (0: none matches and the lexer raises)
LexMatched(c, st, i) ==
  IF i = 0
    THEN [st EXCEPT !.err = ParseException("lexer", Lexer_getline(c, st.line_start),
                                           st.lineno, st.col)]
    ELSE LexToken(c, st, token_specification[i], MatchEnd(token_specification[i], c, st.loc))

\* one turn of the while loop of Lexer.lex at offset st.loc
LexStep(c, st) == LexMatched(c, st, FirstMatch(c, st.loc))

\* at most n turns of the while loop of Lexer.lex, which ends at the end of
\* the text or with the first error; the turns are split in halves to keep
\* the evaluation shallow
RECURSIVE LexLoop(_, _, _)
LexLoop(c, st, n) ==
  IF st.err # NoErr \/ st.loc >= Len(c) \/ n = 0 THEN st
  ELSE IF n = 1 THEN LexStep(c, st)
  ELSE LexLoop(c, LexLoop(c, st, n \div 2), n - (n \div 2))

\* Lexer.lex run to its end: every turn takes at least one character
Lex(c) == LexLoop(c, LexInit, Len(c))

(***************************************************************************)
(* AST nodes.  A node lives in the parser's arena (a sequence of records)  *)
(* and is named by its index there; child fields hold indices.             *)
(***************************************************************************)
NoSpan == <<-1, -1>>   \* bytespan = None

BaseNode(kind, lineno, colno) ==
  [kind |-> kind, lineno |-> lineno, colno |-> colno,
   end_lineno |-> lineno, end_colno |-> colno, bytespan |-> NoSpan,
   pre_comments |-> << >>, comments |-> << >>, post_comments |-> << >>]

ElementaryNode(kind, token) ==
  [BaseNode(kind, token.lineno, token.colno) EXCEPT !.bytespan = token.bytespan]
    @@ [value |-> token.value]

ArgumentNode(token) ==
  BaseNode("ArgumentNode", token.lineno, token.colno)
    @@ [arguments |-> << >>, commas |-> << >>, kwargs |-> << >>, order_error |-> FALSE]

ContainerNode(kind, args, lineno, colno, end_lineno, end_colno) ==
  [BaseNode(kind, lineno, colno) EXCEPT !.end_lineno = end_lineno, !.end_colno = end_colno]
    @@ [args |-> args]

EmptyNode(lineno, colno) == BaseNode("EmptyNode", lineno, colno) @@ [value |-> None]

BinaryNode(kind, leftnode, left, right) ==
  BaseNode(kind, leftnode.lineno, leftnode.colno) @@ [left |-> left, right |-> right]

ComparisonNode(ctype, leftnode, left, right) ==
  BinaryNode("ComparisonNode", leftnode, left, right) @@ [ctype |-> ctype]

ArithmeticNode(operation, leftnode, left, right) ==
  BinaryNode("ArithmeticNode", leftnode, left, right) @@ [operation |-> operation]

UnaryNode(kind, token, value) ==
  BaseNode(kind, token.lineno, token.colno) @@ [value |-> value]

CodeBlockNode(token) ==
  BaseNode("CodeBlockNode", token.lineno, token.colno) @@ [lines |-> << >>]

IndexNode(iobjectnode, iobject, index) ==
  BaseNode("IndexNode", iobjectnode.lineno, iobjectnode.colno)
    @@ [iobject |-> iobject, index |-> index]

MethodNode(lineno, colno, source_object, name, args) ==
  BaseNode("MethodNode", lineno, colno)
    @@ [source_object |-> source_object, name |-> name, args |-> args]

FunctionNode(lineno, colno, end_lineno, end_colno, func_name, args) ==
  [BaseNode("FunctionNode", lineno, colno) EXCEPT !.end_lineno = end_lineno, !.end_colno = end_colno]
    @@ [func_name |-> func_name, args |-> args]

AssignNode(kind, lineno, colno, var_name, value) ==
  BaseNode(kind, lineno, colno) @@ [var_name |-> var_name, value |-> value]

ForeachClauseNode(token, varnames, items, block) ==
  BaseNode("ForeachClauseNode", token.lineno, token.colno)
    @@ [varnames |-> varnames, items |-> items, block |-> block]

IfNode(linenode, condition, block) ==
  BaseNode("IfNode", linenode.lineno, linenode.colno)
    @@ [condition |-> condition, block |-> block]

IfClauseNode(linenode) ==
  BaseNode("IfClauseNode", linenode.lineno, linenode.colno)
    @@ [ifs |-> << >>, elseblock |-> 0]

ParenthesizedNode(inner, lineno, colno, end_lineno, end_colno) ==
  [BaseNode("ParenthesizedNode", lineno, colno) EXCEPT !.end_lineno = end_lineno, !.end_colno = end_colno]
    @@ [inner |-> inner]

TernaryNode(conditionnode, condition, trueblock, falseblock) ==
  BaseNode("TernaryNode", conditionnode.lineno, conditionnode.colno)
    @@ [condition |-> condition, trueblock |-> trueblock, falseblock |-> falseblock]

\* token id and operator text, in the order e4 tries them ('notin' is never a token id)
comparison_map ==
  << <<"equal", "==">>, <<"nequal", "!=">>, <<"lt", "<">>, <<"le", "<=">>,
     <<"gt", ">">>, <<"ge", ">=">>, <<"in", "in">>, <<"notin", "not in">> >>

(***************************************************************************)
(* Parser.  A parser state p carries the fields of the Parser object, the  *)
(* token generator (p.stream) and what the generator has done so far       *)
(* (p.lexer, with the warnings sent so far); the value a method returns    *)
(* is left in p.ret.  A raised exception is kept in p.err, clears p.ok and *)
(* ends every method that is entered afterwards.                           *)
(* The state a called method returns is bound once, as the only element    *)
(* of a singleton set: CHOOSE r \in { body : q \in {call} } : TRUE is body  *)
(* with q standing for the state after the call.                           *)
(***************************************************************************)
Raise(p, e) == [p EXCEPT !.err = e, !.ok = FALSE]
Ret(p, v) == [p EXCEPT !.ret = v]

\* one next() on the generator of Lexer.lex: it runs from the lexer state
\* st, where it is suspended, to its next yield, to the exception it raises
\* or to the end of the text; the comments and warnings of the text it
\* passes are made on the way.  The turns are bound one by one.
RECURSIVE LexNext(_, _)
LexNext(c, st) ==
  IF st.err # NoErr \/ st.loc >= Len(c) THEN st
  ELSE (CHOOSE r \in { IF s.err # NoErr \/ Len(s.toks) > Len(st.toks) THEN s
                        ELSE LexNext(c, s) : s \in {LexStep(c, st)} } : TRUE)

\* self.lexer.lex(filename), the generator object: Lexer.lex reads the code
\* and its own locals only, so the generator is the sequence of the states
\* its calls of next() will leave it in.  Each state holds the warnings
\* made since the state before it.  Nothing of a state is done (no comment
\* is added to the lexer, no warning is sent, no exception is raised) before
\* getsym takes it.  LexStream(c, st, n) is the states of the first n calls
\* from st on, built by halves; a call takes at least one character.
RECURSIVE LexStream(_, _, _)
LexStream(c, st, n) ==
  IF st.err # NoErr \/ st.loc >= Len(c) \/ n = 0 THEN << >>
  ELSE IF n = 1 THEN <<LexNext(c, [st EXCEPT !.warnings = << >>])>>
  ELSE (CHOOSE r \in { IF Len(a) < n \div 2 THEN a
                        ELSE a \o LexStream(c, a[Len(a)], n - (n \div 2)) :
                         a \in {LexStream(c, st, n \div 2)} } : TRUE)

\* Parser.getsym: next(self.stream), s being the state the call leaves the
\* generator in; a generator that has returned or raised stays as it is.
\* The exception the generator raises is raised; the token it yields
\* becomes the current one; when it has ended (StopIteration), in this call
\* or before, the 'eof' token is synthesized from the current token.
getsym(q) ==
  (CHOOSE r \in {
     [(IF s.err # NoErr /\ p.lexer.err = NoErr THEN Raise(p, s.err)
       ELSE [p EXCEPT !.current =
                        IF Len(s.toks) > Len(p.lexer.toks) THEN s.toks[Len(s.toks)]
                        ELSE Token("eof", @.line_start, @.lineno,
                                   @.colno + @.bytespan[2] - @.bytespan[1],
                                   <<0, 0>>, None),
                      !.met_question = @ \/ (p.in_ternary
                                               /\ Len(s.toks) > Len(p.lexer.toks)
                                               /\ s.toks[Len(s.toks)].tid = "questionmark")])
        EXCEPT !.stream = IF @ = << >> THEN @ ELSE Tail(@),
               !.lexer = [s EXCEPT !.warnings = p.lexer.warnings \o @]] :
     s \in {IF q.stream = << >> THEN [q.lexer EXCEPT !.warnings = << >>]
             ELSE Head(q.stream)},
     p \in {q} } : TRUE)

\* Parser.__init__: the generator is created and the first token is taken
NewParser(c) ==
  getsym([code |-> c, lexer |-> LexInit, stream |-> LexStream(c, LexInit, Len(c)),
          current |-> Token("eof", 0, 0, 0, <<0, 0>>, None),
          in_ternary |-> FALSE, stack |-> << >>, arena |-> << >>,
          nodes |-> {}, err |-> NoErr, ok |-> TRUE, ret |-> 0,
          met_question |-> FALSE])

begin(p) == [p EXCEPT !.stack = Append(@, p.current)]

\* n consecutive calls of begin() with no token taken in between
begin_n(p, n) == [p EXCEPT !.stack = @ \o [i \in 1..n |-> p.current]]

\* Parser.end reading the start token without popping it
end_keep(p, node) ==
  IF Len(p.stack) = 0 THEN Raise(p, [kind |-> "AssertionError"])
  ELSE LET token == p.stack[Len(p.stack)]
       IN [p EXCEPT !.arena[node].bytespan = <<token.bytespan[1], p.current.bytespan[1]>>,
                    !.nodes = @ \cup {node}]

\* Parser.end: pop the start token, set the node's span, register the node
end(p, node) ==
  IF Len(p.stack) = 0 THEN Raise(p, [kind |-> "AssertionError"])
  ELSE LET token == p.stack[Len(p.stack)]
       IN [p EXCEPT !.stack = SubSeq(@, 1, Len(@) - 1),
                    !.arena[node].bytespan = <<token.bytespan[1], p.current.bytespan[1]>>,
                    !.nodes = @ \cup {node}]

Parser_getline(p) == Lexer_getline(p.code, p.current.line_start)

\* allocate a node in the arena; its index is left in ret
New(p, n) == [p EXCEPT !.arena = Append(@, n), !.ret = Len(p.arena) + 1]

\* Parser.accept: ret is TRUE when the token was taken
accept(p, s) ==
  IF p.current.tid = s THEN Ret(getsym(p), TRUE) ELSE Ret(p, FALSE)

ExpectText(s, got) == <<"Expecting", s, "got", got>>

\* Parser.expect
expect(p, s) ==
  IF ~p.ok THEN p
  ELSE IF p.current.tid = s THEN Ret(getsym(p), TRUE)
  ELSE Raise(p, ParseException(ExpectText(s, p.current.tid), Parser_getline(p),
                               p.current.lineno, p.current.colno))

\* Parser.block_expect reporting the offending token as the start of the block
block_expect_here(p, s, block_start) ==
  IF ~p.ok THEN p
  ELSE IF p.current.tid = s THEN Ret(getsym(p), TRUE)
  ELSE Raise(p, BlockParseException(ExpectText(s, p.current.tid), Parser_getline(p),
                                    p.current.lineno, p.current.colno,
                                    Parser_getline(p), p.current.lineno, p.current.colno))

\* Parser.block_expect
block_expect(p, s, block_start) ==
  IF ~p.ok THEN p
  ELSE IF p.current.tid = s THEN Ret(getsym(p), TRUE)
  ELSE Raise(p, BlockParseException(ExpectText(s, p.current.tid), Parser_getline(p),
                                    p.current.lineno, p.current.colno,
                                    Lexer_getline(p.code, block_start.line_start),
                                    block_start.lineno, block_start.colno))

IsKind(p, n, kind) == p.arena[n].kind = kind

\* self.kwargs[name] = value: the dict keeps a key node (compared by
\* identity) once, at the place of its first insertion
SetItem(kwargs, name, value) ==
  IF \E i \in 1..Len(kwargs) : kwargs[i][1] = name
    THEN [i \in 1..Len(kwargs) |-> IF kwargs[i][1] = name THEN <<name, value>> ELSE kwargs[i]]
    ELSE Append(kwargs, <<name, value>>)

\* ArgumentNode.prepend on the node a of the arena
Arg_prepend(p, a, statement) ==
  LET p1 == IF Len(p.arena[a].kwargs) > 0
              THEN [p EXCEPT !.arena[a].order_error = TRUE] ELSE p
  IN IF IsKind(p, statement, "EmptyNode") THEN p1
     ELSE [p1 EXCEPT !.arena[a].arguments = <<statement>> \o @]

\* ArgumentNode.append raising the flag only for a statement it stores
Arg_append_stored(p, a, statement) ==
  IF IsKind(p, statement, "EmptyNode") THEN p
  ELSE [p EXCEPT !.arena[a].arguments = Append(@, statement),
                 !.arena[a].order_error = @ \/ Len(p.arena[a].kwargs) > 0]

\* ArgumentNode.append on the node a of the arena
Arg_append(p, a, statement) ==
  LET p1 == IF Len(p.arena[a].kwargs) > 0
              THEN [p EXCEPT !.arena[a].order_error = TRUE] ELSE p
  IN IF IsKind(p, statement, "EmptyNode") THEN p1
     ELSE [p1 EXCEPT !.arena[a].arguments = Append(@, statement)]

\* ArgumentNode.set_kwarg comparing the name with the last key only
Arg_set_kwarg_last_key(p, a, name, value) ==
  LET n == Len(p.arena[a].kwargs)
      dup == n > 0 /\ IsKind(p, p.arena[a].kwargs[n][1], "IdNode")
                   /\ p.arena[p.arena[a].kwargs[n][1]].value = p.arena[name].value
      p1 == IF dup
              THEN [p EXCEPT !.lexer.warnings =
                      @ \o << Warning("Keyword argument defined multiple times.",
                                      p.arena[name].value),
                              Warning("This will be an error in future Meson releases.",
                                      << >>) >>]
              ELSE p
  IN [p1 EXCEPT !.arena[a].kwargs = SetItem(@, name, value)]

\* ArgumentNode.set_kwarg: warns (twice) when the name was already given
Arg_set_kwarg(p, a, name, value) ==
  LET dup == \E i \in 1..Len(p.arena[a].kwargs) :
               LET x == p.arena[a].kwargs[i][1]
               IN IsKind(p, x, "IdNode") /\ p.arena[x].value = p.arena[name].value
      p1 == IF dup
              THEN [p EXCEPT !.lexer.warnings =
                      @ \o << Warning("Keyword argument defined multiple times.",
                                      p.arena[name].value),
                              Warning("This will be an error in future Meson releases.",
                                      << >>) >>]
              ELSE p
  IN [p1 EXCEPT !.arena[a].kwargs = SetItem(@, name, value)]

\* ArgumentNode.set_kwarg_no_check
Arg_set_kwarg_no_check(p, a, name, value) ==
  [p EXCEPT !.arena[a].kwargs = SetItem(@, name, value)]

(***************************************************************************)
(* The expression methods.  The methods e1, e2, e3, e4, e5addsub,          *)
(* e5muldiv and e6 (levels 1 to 7) each start with begin() and a call of   *)
(* the next one, down to e7 and e8.  eN(p, n) is the call of the method of *)
(* level n: it performs these begin() calls, then e8, and then, from e7    *)
(* upwards to level n and in that order, the statements each method        *)
(* executes once the call it made has returned.  The operators e1 .. e7    *)
(* are these statements; they find the returned node (left) in p.ret.      *)
(***************************************************************************)
RECURSIVE statement(_), eN(_, _), eN_from(_, _, _), e1(_), e2(_), e2_loop(_, _, _),
          e3(_), e3_loop(_, _, _), e4(_), e4_try(_, _, _), e5addsub(_),
          e5addsub_loop(_, _), e5muldiv(_), e5muldiv_loop(_, _), e7(_),
          e7_loop(_, _), e8(_), e9(_), key_values(_), key_values_loop(_, _, _),
          args(_), args_loop(_, _, _), method_call(_, _), index_call(_, _),
          foreachblock(_), ifblock(_), elseifblock(_, _), elseblock(_),
          line(_), codeblock(_), codeblock_loop(_, _)

statement(p0) ==
  IF ~p0.ok THEN p0
  ELSE (CHOOSE r \in { IF ~p1.ok THEN p1 ELSE Ret(end(p1, p1.ret), p1.ret) :
             p1 \in {eN(begin(p0), 1)} } : TRUE)

\* Parser.e6 once e7 has returned: op is the unary operator e6 accepted
\* ("" for none), token the current token at the time it was accepted
e6(p, op, token) ==
  IF ~p.ok THEN p
  ELSE IF op = "" THEN Ret(end(p, p.ret), p.ret)
  ELSE LET p1 == New(p, UnaryNode(IF op = "not" THEN "NotNode" ELSE "UMinusNode",
                                  token, p.ret))
       IN Ret(end(p1, p1.ret), p1.ret)

\* the methods of the levels k down to n resume, each with what the one
\* below it returned in p
eN_from(p, k, n) ==
  IF k < n THEN p
  ELSE (CHOOSE r \in { eN_from(q, k - 1, n) :
             q \in {CASE k = 6 -> e5muldiv(p)
                      [] k = 5 -> e5addsub(p)
                      [] k = 4 -> e4(p)
                      [] k = 3 -> e3(p)
                      [] k = 2 -> e2(p)
                      [] k = 1 -> e1(p)} } : TRUE)

eN(p0, n) ==
  IF ~p0.ok THEN p0
  ELSE
  (CHOOSE r \in {
     (CHOOSE r \in {
        \* an exception of the getsym() in accept() leaves e6 at once
        IF ~pu.ok THEN pu
        ELSE
        (CHOOSE r \in {
           (CHOOSE r \in { eN_from(e6(p7, op, pu.current), 6, n) : p7 \in {e7(p8)} } : TRUE) :
           p8 \in {e8(begin(pu))} } : TRUE) :
        pu \in {IF op = "" THEN pb ELSE getsym(pb)} } : TRUE) :
     pb \in {begin_n(p0, 8 - n)},
     op \in {IF p0.current.tid \in {"not", "dash"} THEN p0.current.tid ELSE ""} } : TRUE)

\* the message of the exception e1 raises for a '?' inside a ternary
NestedMessage == "Nested ternary operators are not allowed."

\* a variant of the flag assignment that never records the entry of a ternary
set_in_ternary_never(p, v) == [p EXCEPT !.in_ternary = FALSE]

\* self.in_ternary = v; met_question records that a '?' has been the current
\* token while the flag was set
set_in_ternary(p, v) ==
  [p EXCEPT !.in_ternary = v,
            !.met_question = @ \/ (v /\ p.current.tid = "questionmark")]

e1(p1) ==
  IF ~p1.ok THEN p1
  ELSE
  LET left == p1.ret
      leftnode == p1.arena[left]
  IN IF p1.current.tid = "plusassign" THEN
       (CHOOSE r \in { IF ~p2.ok THEN p2
             ELSE IF leftnode.kind # "IdNode"
               THEN Raise(p2, ParseException("Plusassignment target must be an id.",
                                             Parser_getline(p2), leftnode.lineno, leftnode.colno))
             ELSE LET p3 == New(p2, AssignNode("PlusAssignmentNode", leftnode.lineno,
                                               leftnode.colno, leftnode.value, p2.ret))
                  IN Ret(end(p3, p3.ret), p3.ret) :
             p2 \in {eN(getsym(p1), 1)} } : TRUE)
     ELSE IF p1.current.tid = "assign" THEN
       (CHOOSE r \in { IF ~p2.ok THEN p2
             ELSE IF leftnode.kind # "IdNode"
               THEN Raise(p2, ParseException("Assignment target must be an id.",
                                             Parser_getline(p2), leftnode.lineno, leftnode.colno))
             ELSE LET p3 == New(p2, AssignNode("AssignmentNode", leftnode.lineno,
                                               leftnode.colno, leftnode.value, p2.ret))
                  IN Ret(end(p3, p3.ret), p3.ret) :
             p2 \in {eN(getsym(p1), 1)} } : TRUE)
     ELSE IF p1.current.tid = "questionmark" THEN
       (CHOOSE r \in {
          IF ~p2.ok THEN p2
          ELSE IF p2.in_ternary
            THEN Raise(p2, ParseException(NestedMessage,
                                          Parser_getline(p2), leftnode.lineno, leftnode.colno))
          ELSE (CHOOSE r \in { IF ~p3.ok THEN p3
                     ELSE (CHOOSE r \in { IF ~p4.ok THEN p4
                                ELSE LET p5 == New(set_in_ternary(p4, FALSE),
                                                   TernaryNode(leftnode, left, p3.ret, p4.ret))
                                     IN Ret(end(p5, p5.ret), p5.ret) :
                                p4 \in {eN(expect(p3, "colon"), 1)} } : TRUE) :
                     p3 \in {eN(set_in_ternary(p2, TRUE), 1)} } : TRUE) :
          p2 \in {getsym(p1)} } : TRUE)
     ELSE Ret(end(p1, left), left)

e2(p1) == IF ~p1.ok THEN p1 ELSE e2_loop(p1, p1.ret, FALSE)

\* the while loop of e2 and the statements after it
e2_loop(p, left, started) ==
  IF ~p.ok THEN p
  ELSE IF p.current.tid = "or" THEN
    (CHOOSE r \in {
       IF ~p1.ok THEN p1
       ELSE IF IsKind(p1, left, "EmptyNode")
         THEN Raise(p1, ParseException("Invalid or clause.", Parser_getline(p1),
                                       p1.arena[left].lineno, p1.arena[left].colno))
       ELSE (CHOOSE r \in { IF ~p2.ok THEN p2
                  ELSE LET p3 == New(p2, BinaryNode("OrNode", p2.arena[left], left, p2.ret))
                       IN e2_loop(begin(end(p3, p3.ret)), p3.ret, FALSE) :
                  p2 \in {eN(p1, 3)} } : TRUE) :
       p1 \in {getsym(p)} } : TRUE)
  ELSE IF ~started THEN Ret(end(p, left), left)
  ELSE Ret(p, left)

e3(p1) == IF ~p1.ok THEN p1 ELSE e3_loop(p1, p1.ret, FALSE)

\* the while loop of e3 and the statements after it
e3_loop(p, left, started) ==
  IF ~p.ok THEN p
  ELSE IF p.current.tid = "and" THEN
    (CHOOSE r \in {
       IF ~p1.ok THEN p1
       ELSE IF IsKind(p1, left, "EmptyNode")
         THEN Raise(p1, ParseException("Invalid and clause.", Parser_getline(p1),
                                       p1.arena[left].lineno, p1.arena[left].colno))
       ELSE (CHOOSE r \in { IF ~p2.ok THEN p2
                  ELSE LET p3 == New(p2, BinaryNode("AndNode", p2.arena[left], left, p2.ret))
                       IN e3_loop(begin(end(p3, p3.ret)), p3.ret, FALSE) :
                  p2 \in {eN(p1, 4)} } : TRUE) :
       p1 \in {getsym(p)} } : TRUE)
  ELSE IF ~started THEN Ret(end(p, left), left)
  ELSE Ret(p, left)

e4(p1) == IF ~p1.ok THEN p1 ELSE e4_try(p1, p1.ret, 1)

\* a variant of e4 that goes on looking for a comparison operator after a
\* finished comparison
e4_try_chain(p, left, i) ==
  IF ~p.ok THEN p
  ELSE IF i <= Len(comparison_map) THEN
    IF p.current.tid = comparison_map[i][1] THEN
      (CHOOSE r \in { IF ~p1.ok THEN p1
            ELSE LET p2 == New(p1, ComparisonNode(comparison_map[i][2], p1.arena[left],
                                                  left, p1.ret))
                 IN e4_try(begin(end(p2, p2.ret)), p2.ret, 1) :
            p1 \in {eN(getsym(p), 5)} } : TRUE)
    ELSE e4_try(p, left, i + 1)
  ELSE Ret(end(p, left), left)

\* the for loop of e4 over comparison_map from entry i, and what follows it;
\* e5 is e5addsub, level 5
e4_try(p, left, i) ==
  IF i <= Len(comparison_map) THEN
    IF p.current.tid = comparison_map[i][1] THEN
      (CHOOSE r \in { IF ~p1.ok THEN p1
            ELSE LET p2 == New(p1, ComparisonNode(comparison_map[i][2], p1.arena[left],
                                                  left, p1.ret))
                 IN Ret(end(p2, p2.ret), p2.ret) :
            p1 \in {eN(getsym(p), 5)} } : TRUE)
    ELSE e4_try(p, left, i + 1)
  ELSE
    (CHOOSE r \in {
       IF ~p2.ok THEN p2
       ELSE IF p2.ret THEN
         (CHOOSE r \in { IF ~p3.ok THEN p3
               ELSE LET p4 == New(p3, ComparisonNode("notin", p3.arena[left], left, p3.ret))
                    IN Ret(end(p4, p4.ret), p4.ret) :
               p3 \in {eN(p2, 5)} } : TRUE)
       ELSE Ret(end(p2, left), left) :
       p2 \in {(CHOOSE r \in { IF p1.ok /\ p1.ret THEN accept(p1, "in") ELSE p1 :
                               p1 \in {accept(p, "not")} } : TRUE)} } : TRUE)

AddSubOp(tid) == CASE tid = "plus" -> "add" [] tid = "dash" -> "sub"

e5addsub(p1) == IF ~p1.ok THEN p1 ELSE e5addsub_loop(p1, p1.ret)

\* a variant of the loop of e5addsub that recurses into e5addsub for the right
\* operand instead of iterating
e5addsub_loop_rightrec(p, left) ==
  IF ~p.ok THEN p
  ELSE IF p.current.tid \in {"plus", "dash"} THEN
    (CHOOSE r \in { IF ~p1.ok THEN p1
          ELSE LET p2 == New(p1, ArithmeticNode(AddSubOp(p.current.tid), p1.arena[left],
                                                left, p1.ret))
               IN e5addsub_loop(begin(end(p2, p2.ret)), p2.ret) :
          p1 \in {eN(getsym(p), 5)} } : TRUE)
  ELSE Ret(end(p, left), left)

e5addsub_loop(p, left) ==
  IF ~p.ok THEN p
  ELSE IF p.current.tid \in {"plus", "dash"} THEN
    (CHOOSE r \in { IF ~p1.ok THEN p1
          ELSE LET p2 == New(p1, ArithmeticNode(AddSubOp(p.current.tid), p1.arena[left],
                                                left, p1.ret))
               IN e5addsub_loop(begin(end(p2, p2.ret)), p2.ret) :
          p1 \in {eN(getsym(p), 6)} } : TRUE)
  ELSE Ret(end(p, left), left)

MulDivOp(tid) ==
  CASE tid = "percent" -> "mod" [] tid = "star" -> "mul" [] tid = "fslash" -> "div"

e5muldiv(p1) == IF ~p1.ok THEN p1 ELSE e5muldiv_loop(p1, p1.ret)

\* a variant of the loop of e5muldiv that takes an additive expression as the
\* right operand of a multiplicative operator
e5muldiv_loop_loose(p, left) ==
  IF ~p.ok THEN p
  ELSE IF p.current.tid \in {"percent", "star", "fslash"} THEN
    (CHOOSE r \in { IF ~p1.ok THEN p1
          ELSE LET p2 == New(p1, ArithmeticNode(MulDivOp(p.current.tid), p1.arena[left],
                                                left, p1.ret))
               IN e5muldiv_loop(begin(end(p2, p2.ret)), p2.ret) :
          p1 \in {eN(getsym(p), 5)} } : TRUE)
  ELSE Ret(end(p, left), left)

e5muldiv_loop(p, left) ==
  IF ~p.ok THEN p
  ELSE IF p.current.tid \in {"percent", "star", "fslash"} THEN
    (CHOOSE r \in { IF ~p1.ok THEN p1
          ELSE LET p2 == New(p1, ArithmeticNode(MulDivOp(p.current.tid), p1.arena[left],
                                                left, p1.ret))
               IN e5muldiv_loop(begin(end(p2, p2.ret)), p2.ret) :
          p1 \in {eN(getsym(p), 7)} } : TRUE)
  ELSE Ret(end(p, left), left)

\* the message of the exception e7 raises for a callee that is no IdNode
PlainIdMessage == "Function call must be applied to plain id"

e7(p1) ==
  IF ~p1.ok THEN p1
  ELSE
  LET left == p1.ret
      block_start == p1.current
  IN IF p1.current.tid = "lparen" THEN
       (CHOOSE r \in { (CHOOSE r \in { LET leftnode == p3.arena[left]
             IN IF ~p2.ok THEN p2
                ELSE IF ~p3.ok THEN p3
                ELSE IF leftnode.kind # "IdNode"
                  THEN Raise(p3, ParseException(PlainIdMessage, Parser_getline(p3),
                                                leftnode.lineno, leftnode.colno))
                ELSE LET p4 == New(p3, FunctionNode(leftnode.lineno, leftnode.colno,
                                                    p3.current.lineno, p3.current.colno,
                                                    leftnode.value, p2.ret))
                     IN e7_loop(begin(end(p4, left)), p4.ret) :
               p3 \in {block_expect(p2, "rparen", block_start)} } : TRUE) :
             p2 \in {args(getsym(p1))} } : TRUE)
     ELSE e7_loop(p1, left)

\* the 'while go_again' loop of e7 and the statements after it: pa is the
\* parser after the 'if self.accept('dot')' statement, pb the one after the
\* 'if self.accept('lbracket')' statement
e7_loop(p, left) ==
  IF ~p.ok THEN p
  ELSE
  (CHOOSE r \in { IF ~pa.ok THEN pa
        ELSE (CHOOSE r \in { IF ~pb.ok THEN pb
                   ELSE IF p.current.tid = "dot" \/ pa.current.tid = "lbracket"
                     THEN e7_loop(pb, pb.ret)
                   ELSE Ret(end(pb, left), left) :
                   pb \in {IF pa.current.tid = "lbracket"
                             THEN (CHOOSE r \in { IF ~q1.ok THEN q1
                                        ELSE Ret(begin(end(q1, pa.ret)), q1.ret) :
                                        q1 \in {index_call(getsym(pa), pa.ret)} } : TRUE)
                             ELSE pa} } : TRUE) :
        pa \in {IF p.current.tid = "dot"
                  THEN (CHOOSE r \in { IF ~q1.ok THEN q1 ELSE Ret(begin(end(q1, left)), q1.ret) :
                             q1 \in {method_call(getsym(p), left)} } : TRUE)
                  ELSE Ret(p, left)} } : TRUE)

e8(p0) ==
  IF ~p0.ok THEN p0
  ELSE
  LET p1 == begin(p0)
      block_start == p1.current
  IN IF p1.current.tid = "lparen" THEN
       (CHOOSE r \in { (CHOOSE r \in { IF ~p2.ok THEN p2
                ELSE IF ~p3.ok THEN p3
                ELSE LET p4 == New(p3, ParenthesizedNode(p2.ret, block_start.lineno,
                                                         block_start.colno,
                                                         p3.current.lineno, p3.current.colno))
                     IN Ret(end(p4, p4.ret), p4.ret) :
               p3 \in {block_expect(p2, "rparen", block_start)} } : TRUE) :
             p2 \in {statement(getsym(p1))} } : TRUE)
     ELSE IF p1.current.tid = "lbracket" THEN
       (CHOOSE r \in { (CHOOSE r \in { IF ~p2.ok THEN p2
                ELSE IF ~p3.ok THEN p3
                ELSE LET p4 == New(p3, ContainerNode("ArrayNode", p2.ret, block_start.lineno,
                                                     block_start.colno,
                                                     p3.current.lineno, p3.current.colno))
                     IN Ret(end(p4, p4.ret), p4.ret) :
               p3 \in {block_expect(p2, "rbracket", block_start)} } : TRUE) :
             p2 \in {args(getsym(p1))} } : TRUE)
     ELSE IF p1.current.tid = "lcurl" THEN
       (CHOOSE r \in { (CHOOSE r \in { IF ~p2.ok THEN p2
                ELSE IF ~p3.ok THEN p3
                ELSE LET p4 == New(p3, ContainerNode("DictNode", p2.ret, block_start.lineno,
                                                     block_start.colno,
                                                     p3.current.lineno, p3.current.colno))
                     IN Ret(end(p4, p4.ret), p4.ret) :
               p3 \in {block_expect(p2, "rcurl", block_start)} } : TRUE) :
             p2 \in {key_values(getsym(p1))} } : TRUE)
     ELSE (CHOOSE r \in { IF ~p2.ok THEN p2 ELSE Ret(end(p2, p2.ret), p2.ret) : p2 \in {e9(p1)} } : TRUE)

\* the node kind e9 builds from a token id
ElementaryKind(tid) ==
  CASE tid \in {"true", "false"} -> "BooleanNode"
    [] tid = "id" -> "IdNode"
    [] tid = "number" -> "NumberNode"
    [] tid = "string" -> "StringNode"
    [] tid = "fstring" -> "FormatStringNode"
    [] tid = "multiline_fstring" -> "MultilineFormatStringNode"

e9(p0) ==
  IF ~p0.ok THEN p0
  ELSE (CHOOSE r \in {
     IF t.tid \in {"true", "false", "id", "number", "string", "fstring", "multiline_fstring"}
       THEN (CHOOSE r2 \in {
               IF ~p2.ok THEN p2
               \* t.value = True or False is set on the token object, of
               \* which the stack holds the references begin() pushed
               ELSE (CHOOSE r3 \in { Ret(end(p3, p3.ret), p3.ret) :
                       p3 \in {New([p2 EXCEPT !.stack =
                                      [i \in DOMAIN @ |->
                                         IF @[i].tid = t.tid /\ @[i].bytespan = t.bytespan
                                           THEN t ELSE @[i]]],
                                   ElementaryNode(ElementaryKind(t.tid), t))} } : TRUE) :
               p2 \in {getsym(begin(p0))} } : TRUE)
       ELSE (CHOOSE r2 \in { Ret(end(p2, p2.ret), p2.ret) :
               p2 \in {New(begin(p0), EmptyNode(p0.current.lineno, p0.current.colno))} } : TRUE) :
     t \in {IF p0.current.tid = "true" THEN [p0.current EXCEPT !.value = TRUE]
            ELSE IF p0.current.tid = "false" THEN [p0.current EXCEPT !.value = FALSE]
            ELSE p0.current} } : TRUE)

key_values(p0) ==
  IF ~p0.ok THEN p0
  ELSE (CHOOSE r \in { IF ~p1.ok THEN p1
             ELSE LET p2 == New(p1, ArgumentNode(p1.current))
                  IN key_values_loop(p2, p1.ret, p2.ret) :
             p1 \in {statement(begin(p0))} } : TRUE)

key_values_loop(p, s, a) ==
  IF ~p.ok THEN p
  ELSE IF ~IsKind(p, s, "EmptyNode") THEN
    IF p.current.tid = "colon" THEN
      (CHOOSE r \in { IF ~p1.ok THEN p1
            ELSE (CHOOSE r \in {
                    IF p2.current.tid # "comma" THEN Ret(end(p2, a), a)
                    ELSE (CHOOSE r \in {
                            IF ~p3.ok THEN p3
                            ELSE (CHOOSE r \in { IF ~p4.ok THEN p4 ELSE key_values_loop(p4, p4.ret, a) :
                                       p4 \in {statement([p3 EXCEPT !.arena[a].commas =
                                                                     Append(@, p2.current)])} } : TRUE) :
                            p3 \in {getsym(p2)} } : TRUE) :
                    p2 \in {Arg_set_kwarg_no_check(p1, a, s, p1.ret)} } : TRUE) :
            p1 \in {statement(getsym(p))} } : TRUE)
    ELSE Raise(p, ParseException("Only key:value pairs are valid in dict construction.",
                                 Parser_getline(p), p.arena[s].lineno, p.arena[s].colno))
  ELSE Ret(end(p, a), a)

args(p0) ==
  IF ~p0.ok THEN p0
  ELSE (CHOOSE r \in { IF ~p1.ok THEN p1
             ELSE LET p2 == New(p1, ArgumentNode(p1.current))
                  IN args_loop(p2, p1.ret, p2.ret) :
             p1 \in {statement(begin(p0))} } : TRUE)

args_loop(p, s, a) ==
  IF ~p.ok THEN p
  ELSE IF ~IsKind(p, s, "EmptyNode") THEN
    IF p.current.tid = "comma" THEN
      (CHOOSE r \in {
         IF ~p1.ok THEN p1
         ELSE (CHOOSE r \in { IF ~p2.ok THEN p2 ELSE args_loop(p2, p2.ret, a) :
                    p2 \in {statement(Arg_append([p1 EXCEPT !.arena[a].commas =
                                                             Append(@, p.current)], a, s))} } : TRUE) :
         p1 \in {getsym(p)} } : TRUE)
    ELSE IF p.current.tid = "colon" THEN
      (CHOOSE r \in {
         IF ~p1.ok THEN p1
         ELSE IF ~IsKind(p1, s, "IdNode")
           THEN Raise(p1, ParseException("Dictionary key must be a plain identifier.",
                                         Parser_getline(p1), p1.arena[s].lineno, p1.arena[s].colno))
         ELSE (CHOOSE r \in { IF ~p2.ok THEN p2
                    ELSE (CHOOSE r \in {
                            IF p3.current.tid # "comma" THEN Ret(end(p3, a), a)
                            ELSE (CHOOSE r \in {
                                    IF ~p4.ok THEN p4
                                    ELSE (CHOOSE r \in { IF ~p5.ok THEN p5 ELSE args_loop(p5, p5.ret, a) :
                                               p5 \in {statement([p4 EXCEPT !.arena[a].commas =
                                                                             Append(@, p3.current)])} } : TRUE) :
                                    p4 \in {getsym(p3)} } : TRUE) :
                            p3 \in {Arg_set_kwarg(p2, a, s, p2.ret)} } : TRUE) :
                    p2 \in {statement(p1)} } : TRUE) :
         p1 \in {getsym(p)} } : TRUE)
    ELSE Ret(end(Arg_append(p, a, s), a), a)
  ELSE Ret(end(p, a), a)

method_call(p0, source_object) ==
  IF ~p0.ok THEN p0
  ELSE
  (CHOOSE r \in { IF ~p1.ok THEN p1
        ELSE IF ~IsKind(p1, p1.ret, "IdNode")
          THEN Raise(p1, ParseException("Method name must be plain id", Parser_getline(p1),
                                        p1.current.lineno, p1.current.colno))
        ELSE (CHOOSE r \in { (CHOOSE r \in { LET mn == p3.arena[p1.ret]
                       p4 == New(p3, MethodNode(mn.lineno, mn.colno, source_object,
                                                mn.value, p2.ret))
                       method == p4.ret
                   IN IF ~p2.ok THEN p2
                      ELSE IF ~p3.ok THEN p3
                      ELSE IF p4.current.tid = "dot"
                        THEN (CHOOSE r \in { IF ~p5.ok THEN p5 ELSE Ret(end(p5, p5.ret), p5.ret) :
                                   p5 \in {method_call(getsym(p4), method)} } : TRUE)
                      ELSE Ret(end(p4, method), method) :
                     p3 \in {expect(p2, "rparen")} } : TRUE) :
                   p2 \in {args(expect(p1, "lparen"))} } : TRUE) :
        p1 \in {e9(begin(p0))} } : TRUE)

index_call(p0, source_object) ==
  IF ~p0.ok THEN p0
  ELSE (CHOOSE r \in { (CHOOSE r \in { IF ~p1.ok THEN p1
                ELSE IF ~p2.ok THEN p2
                ELSE LET p3 == New(p2, IndexNode(p2.arena[source_object], source_object,
                                                 p1.ret))
                     IN Ret(end(p3, p3.ret), p3.ret) :
               p2 \in {expect(p1, "rbracket")} } : TRUE) :
             p1 \in {statement(begin(p0))} } : TRUE)

foreachblock(p0) ==
  IF ~p0.ok THEN p0
  ELSE
  (CHOOSE r \in {
     (CHOOSE r \in {
        (CHOOSE r \in {
           LET varname == p0.current
               iscomma == p2.ok /\ p2.current.tid = "comma"
               varnames == IF iscomma THEN <<varname.value, p3.current.value>>
                           ELSE <<varname.value>>
           IN (CHOOSE r \in { IF ~p5.ok THEN p5
                    ELSE (CHOOSE r \in { IF ~p6.ok THEN p6
                               ELSE (CHOOSE r \in { Ret(end(p7, p7.ret), p7.ret) :
                                       p7 \in {New(p6, ForeachClauseNode(varname, varnames,
                                                                         p5.ret, p6.ret))} } : TRUE) :
                               p6 \in {codeblock(p5)} } : TRUE) :
                    p5 \in {statement(expect(IF iscomma THEN expect(p3, "id") ELSE p3,
                                             "colon"))} } : TRUE) :
           p3 \in {IF p2.ok /\ p2.current.tid = "comma" THEN getsym(p2) ELSE p2} } : TRUE) :
        p2 \in {expect(p1, "id")} } : TRUE) :
     p1 \in {begin(p0)} } : TRUE)

ifblock(p0) ==
  IF ~p0.ok THEN p0
  ELSE
  (CHOOSE r \in { IF ~p1.ok THEN p1
        ELSE
        LET condition == p1.ret
            p2 == New(p1, IfClauseNode(p1.arena[condition]))
            clause == p2.ret
        IN (CHOOSE r \in { IF ~p3.ok THEN p3
                 ELSE
                 LET p4 == New(begin(p3), IfNode(p3.arena[clause], condition, p3.ret))
                     p5 == end(p4, p4.ret)
                 IN (CHOOSE r \in { IF ~p6.ok THEN p6
                          ELSE (CHOOSE r \in { IF ~p7.ok THEN p7
                                     ELSE Ret(end([p7 EXCEPT !.arena[clause].elseblock = p7.ret],
                                                  clause), clause) :
                                     p7 \in {elseblock(p6)} } : TRUE) :
                          p6 \in {elseifblock([p5 EXCEPT !.arena[clause].ifs =
                                                         Append(@, p4.ret)], clause)} } : TRUE) :
                 p3 \in {codeblock(expect(p2, "eol"))} } : TRUE) :
        p1 \in {statement(begin(p0))} } : TRUE)

elseifblock(p, clause) ==
  IF ~p.ok THEN p
  ELSE IF p.current.tid = "elif" THEN
    \* an exception of the getsym() in accept('elif') leaves the method
    \* before self.begin()
    (CHOOSE r \in {
       IF ~q.ok THEN q
       ELSE
       (CHOOSE r \in { IF ~p1.ok THEN p1
             ELSE (CHOOSE r \in { IF ~p2.ok THEN p2
                        ELSE LET p3 == New(p2, IfNode(p2.arena[p1.ret], p1.ret, p2.ret))
                                 p4 == end(p3, p3.ret)
                             IN elseifblock([p4 EXCEPT !.arena[clause].ifs = Append(@, p3.ret)],
                                            clause) :
                        p2 \in {codeblock(expect(p1, "eol"))} } : TRUE) :
             p1 \in {statement(begin(q))} } : TRUE) :
       q \in {getsym(p)} } : TRUE)
  ELSE p

elseblock(p) ==
  IF ~p.ok THEN p
  ELSE IF p.current.tid = "else" THEN codeblock(expect(getsym(p), "eol"))
  ELSE LET p1 == New(begin(p), EmptyNode(p.current.lineno, p.current.colno))
       IN Ret(end(p1, p1.ret), p1.ret)

line(p0) ==
  IF ~p0.ok THEN p0
  ELSE
  LET block_start == p0.current
      p1 == begin(p0)
      tid == p1.current.tid
  IN IF tid = "eol" THEN
       LET p2 == New(p1, EmptyNode(p1.current.lineno, p1.current.colno))
       IN Ret(end(p2, p2.ret), p2.ret)
     ELSE IF tid = "if" THEN
       (CHOOSE r \in { (CHOOSE r \in { IF ~p2.ok THEN p2
                ELSE IF ~p3.ok THEN p3 ELSE Ret(end(p3, p2.ret), p2.ret) :
               p3 \in {block_expect(p2, "endif", block_start)} } : TRUE) :
             p2 \in {ifblock(getsym(p1))} } : TRUE)
     ELSE IF tid = "foreach" THEN
       (CHOOSE r \in { (CHOOSE r \in { IF ~p2.ok THEN p2
                ELSE IF ~p3.ok THEN p3 ELSE Ret(end(p3, p2.ret), p2.ret) :
               p3 \in {block_expect(p2, "endforeach", block_start)} } : TRUE) :
             p2 \in {foreachblock(getsym(p1))} } : TRUE)
     ELSE IF tid \in {"continue", "break"} THEN
       (CHOOSE r \in {
          IF ~p2.ok THEN p2
          ELSE (CHOOSE r \in { Ret(end(p3, p3.ret), p3.ret) :
                  p3 \in {New(p2, ElementaryNode(IF tid = "continue" THEN "ContinueNode"
                                                 ELSE "BreakNode", p2.current))} } : TRUE) :
          p2 \in {getsym(p1)} } : TRUE)
     ELSE (CHOOSE r \in { IF ~p2.ok THEN p2 ELSE Ret(end(p2, p2.ret), p2.ret) :
                p2 \in {statement(p1)} } : TRUE)

codeblock(p0) ==
  IF ~p0.ok THEN p0
  ELSE LET p1 == New(begin(p0), CodeBlockNode(p0.current))
       IN codeblock_loop(p1, p1.ret)

codeblock_loop(p, block) ==
  (CHOOSE r \in { IF ~p1.ok THEN p1
        ELSE (CHOOSE r \in {
                IF p2.current.tid = "eol"
                  THEN (CHOOSE r \in { IF ~p3.ok THEN p3 ELSE codeblock_loop(p3, block) :
                          p3 \in {getsym(p2)} } : TRUE)
                  ELSE Ret(end(p2, block), block) :
                p2 \in {IF ~IsKind(p1, p1.ret, "EmptyNode")
                          THEN [p1 EXCEPT !.arena[block].lines = Append(@, p1.ret)]
                          ELSE p1} } : TRUE) :
        p1 \in {line(p)} } : TRUE)

\* Parser.parse up to the attachment of the comments: ret is the root block
ParseTree(c) ==
  (CHOOSE r \in { (CHOOSE r \in { IF ~p1.ok THEN p1
           ELSE IF ~p2.ok THEN p2
           ELSE IF Len(p2.stack) # 0 THEN Raise(p2, [kind |-> "AssertionError"])
           ELSE Ret(p2, p1.ret) :
          p2 \in {expect(p1, "eof")} } : TRUE) :
        p1 \in {codeblock(NewParser(c))} } : TRUE)

(***************************************************************************)
(* The structure of a tree: node kinds, operators, names, literal values   *)
(* and child order, without positions, spans and comments.                 *)
(***************************************************************************)
RECURSIVE Tree(_, _), TreeSeq(_, _), TreePairs(_, _)
Tree(arena, n) ==
  LET x == arena[n]
      k == x.kind
  IN CASE k \in {"BooleanNode", "IdNode", "NumberNode", "StringNode", "FormatStringNode",
                 "MultilineFormatStringNode", "ContinueNode", "BreakNode"} ->
            [kind |-> k, value |-> x.value]
       [] k = "EmptyNode" -> [kind |-> k]
       [] k = "ArgumentNode" ->
            [kind |-> k, arguments |-> TreeSeq(arena, x.arguments),
             kwargs |-> TreePairs(arena, x.kwargs)]
       [] k \in {"ArrayNode", "DictNode"} -> [kind |-> k, args |-> Tree(arena, x.args)]
       [] k \in {"OrNode", "AndNode"} ->
            [kind |-> k, left |-> Tree(arena, x.left), right |-> Tree(arena, x.right)]
       [] k = "ComparisonNode" ->
            [kind |-> k, ctype |-> x.ctype, left |-> Tree(arena, x.left),
             right |-> Tree(arena, x.right)]
       [] k = "ArithmeticNode" ->
            [kind |-> k, operation |-> x.operation, left |-> Tree(arena, x.left),
             right |-> Tree(arena, x.right)]
       [] k \in {"NotNode", "UMinusNode"} -> [kind |-> k, value |-> Tree(arena, x.value)]
       [] k = "CodeBlockNode" -> [kind |-> k, lines |-> TreeSeq(arena, x.lines)]
       [] k = "IndexNode" ->
            [kind |-> k, iobject |-> Tree(arena, x.iobject), index |-> Tree(arena, x.index)]
       [] k = "MethodNode" ->
            [kind |-> k, source_object |-> Tree(arena, x.source_object), name |-> x.name,
             args |-> Tree(arena, x.args)]
       [] k = "FunctionNode" ->
            [kind |-> k, func_name |-> x.func_name, args |-> Tree(arena, x.args)]
       [] k \in {"AssignmentNode", "PlusAssignmentNode"} ->
            [kind |-> k, var_name |-> x.var_name, value |-> Tree(arena, x.value)]
       [] k = "ForeachClauseNode" ->
            [kind |-> k, varnames |-> x.varnames, items |-> Tree(arena, x.items),
             block |-> Tree(arena, x.block)]
       [] k = "IfNode" ->
            [kind |-> k, condition |-> Tree(arena, x.condition), block |-> Tree(arena, x.block)]
       [] k = "IfClauseNode" ->
            [kind |-> k, ifs |-> TreeSeq(arena, x.ifs), elseblock |-> Tree(arena, x.elseblock)]
       [] k = "ParenthesizedNode" -> [kind |-> k, inner |-> Tree(arena, x.inner)]
       [] k = "TernaryNode" ->
            [kind |-> k, condition |-> Tree(arena, x.condition),
             trueblock |-> Tree(arena, x.trueblock), falseblock |-> Tree(arena, x.falseblock)]

TreeSeq(arena, ns) == [i \in 1..Len(ns) |-> Tree(arena, ns[i])]

TreePairs(arena, ps) ==
  [i \in 1..Len(ps) |-> <<Tree(arena, ps[i][1]), Tree(arena, ps[i][2])>>]

(***************************************************************************)
(* Comment attachment.  The loops of attach_comment run over the set       *)
(* self.nodes, whose iteration order Python does not fix: key gives each   *)
(* node its place in that order, and a node replaces the best one found so *)
(* far only when it is strictly closer, so among equally close nodes the   *)
(* first one iterated is kept.                                             *)
(***************************************************************************)
\* the nodes of cands at the least distance; the initial smallest_distance
\* (10^11) is above every distance between offsets of a text
Closest(cands, dist) == {n \in cands : \A m \in cands : dist[n] <= dist[m]}

\* the node of a non-empty set that the iteration reaches first
FirstIterated(S, key) == CHOOSE n \in S : \A m \in S : key[n] <= key[m]

\* the three loops of attach_comment: the list the comment goes to and the
\* equally close nodes the iteration order chooses from (none: assertion)
AttachTarget(p, comment) ==
  LET cs == comment.bytespan[1]
      ce == comment.bytespan[2]
      span(n) == p.arena[n].bytespan
      enclosing == {n \in p.nodes : ~(span(n)[1] > cs) /\ ~(span(n)[2] < cs)}
      d1 == [n \in p.nodes |-> span(n)[2] - span(n)[1]]
      before == {n \in p.nodes : ~(span(n)[1] > cs)}
      d2 == [n \in p.nodes |-> span(n)[2] - cs]
      after == {n \in p.nodes : ~(ce < span(n)[1])}
      d3 == [n \in p.nodes |-> ce - span(n)[1]]
  IN IF Closest(enclosing, d1) # {} THEN [list |-> "comments", ties |-> Closest(enclosing, d1)]
     ELSE IF Closest(before, d2) # {} THEN [list |-> "pre_comments", ties |-> Closest(before, d2)]
     ELSE IF Closest(after, d3) # {} THEN [list |-> "post_comments", ties |-> Closest(after, d3)]
     ELSE [list |-> "none", ties |-> {}]

\* Parser.attach_comment without its third loop: a comment that no node
\* encloses or precedes is left out
attach_comment_two_loops(p, comment, key) ==
  LET t == AttachTarget(p, comment)
      node == FirstIterated(t.ties, key)
  IN IF ~p.ok \/ p.nodes = {} THEN p
     ELSE IF t.list = "comments" THEN [p EXCEPT !.arena[node].comments = Append(@, comment)]
     ELSE IF t.list = "pre_comments" THEN [p EXCEPT !.arena[node].pre_comments = Append(@, comment)]
     ELSE p

\* Parser.attach_comment under the iteration order key
attach_comment(p, comment, key) ==
  LET t == AttachTarget(p, comment)
      node == FirstIterated(t.ties, key)
  IN IF ~p.ok \/ p.nodes = {} THEN p
     ELSE IF t.list = "comments" THEN [p EXCEPT !.arena[node].comments = Append(@, comment)]
     ELSE IF t.list = "pre_comments" THEN [p EXCEPT !.arena[node].pre_comments = Append(@, comment)]
     ELSE IF t.list = "post_comments" THEN [p EXCEPT !.arena[node].post_comments = Append(@, comment)]
     ELSE Raise(p, [kind |-> "AssertionError"])

\* the loop 'for c in self.lexer.comments' of Parser.parse from comment i on
RECURSIVE attach_comments(_, _, _)
attach_comments(p, i, key) ==
  IF ~p.ok \/ i > Len(p.lexer.comments) THEN p
  ELSE attach_comments(attach_comment(p, p.lexer.comments[i], key), i + 1, key)

\* the nodes between which some comment's choice depends on the iteration order
TiedNodes(p) ==
  UNION {LET t == AttachTarget(p, p.lexer.comments[i])
         IN IF Cardinality(t.ties) > 1 THEN t.ties ELSE {} : i \in 1..Len(p.lexer.comments)}

\* the iteration orders of self.nodes that can differ in their outcome: every
\* order of the tied nodes (the places of the other nodes change nothing)
IterationOrders(p) ==
  LET T == TiedNodes(p)
      k == Cardinality(T)
  IN {[n \in 1..Len(p.arena) |-> IF n \in T THEN r[n] ELSE k + n] :
        r \in {f \in [T -> 1..k] : \A a, b \in T : a # b => f[a] # f[b]}}

\* the end of Parser.parse: the comments are attached to the parsed block p
AttachAll(p, key) == IF ~p.ok THEN p ELSE Ret(attach_comments(p, 1, key), p.ret)

\* Parser(code, filename).parse() under the iteration order key
Parse(c, key) == AttachAll(ParseTree(c), key)

(***************************************************************************)
(* The formatters.  A formatter state f holds the fields lines, currline,  *)
(* currindent and indentstr of the visitor object.  BaseNode.accept calls  *)
(* visit_<class name> when the visitor has such a method and does nothing  *)
(* otherwise; the base class AstVisitor adds no method of its own.         *)
(* TLC binds an operator's arguments unevaluated: each visit first reads   *)
(* the state it is given (Started), so that the state is computed before   *)
(* the visit goes on and evaluation nests as deep as the tree, not as long *)
(* as the traversal.                                                       *)
(***************************************************************************)
Started(f) == Len(f.lines) >= 0

DigitChar(d) ==
  CASE d = 0 -> "0" [] d = 1 -> "1" [] d = 2 -> "2" [] d = 3 -> "3" [] d = 4 -> "4"
    [] d = 5 -> "5" [] d = 6 -> "6" [] d = 7 -> "7" [] d = 8 -> "8" [] d = 9 -> "9"

\* str(n) of an integer n >= 0
RECURSIVE IntStr(_)
IntStr(n) == IF n < 10 THEN <<DigitChar(n)>> ELSE IntStr(n \div 10) \o <<DigitChar(n % 10)>>

\* escape leaving the backslash as it is
RECURSIVE escape_quote_newline(_)
escape_quote_newline(val) ==
  IF val = << >> THEN << >>
  ELSE (CASE Head(val) = QUOTE -> <<BSL, QUOTE>>
          [] Head(val) = NL -> <<BSL, "n">>
          [] OTHER -> <<Head(val)>>) \o escape_quote_newline(Tail(val))

\* escape: val.translate of the quote, the backslash and the newline
RECURSIVE escape(_)
escape(val) ==
  IF val = << >> THEN << >>
  ELSE (CASE Head(val) = QUOTE -> <<BSL, QUOTE>>
          [] Head(val) = BSL -> <<BSL, BSL>>
          [] Head(val) = NL -> <<BSL, "n">>
          [] OTHER -> <<Head(val)>>) \o escape(Tail(val))

arithmic_map(operation) ==
  CASE operation = "add" -> "+" [] operation = "sub" -> "-" [] operation = "mod" -> "%"
    [] operation = "mul" -> "*" [] operation = "div" -> "/"

\* the text of a comparison operator as the parser stores it in ctype
CtypeText(ctype) ==
  CASE ctype = "==" -> <<"=", "=">> [] ctype = "!=" -> <<"!", "=">>
    [] ctype = "<" -> <<"<">> [] ctype = "<=" -> <<"<", "=">>
    [] ctype = ">" -> <<">">> [] ctype = ">=" -> <<">", "=">>
    [] ctype = "in" -> <<"i", "n">>
    [] ctype = "notin" -> <<"n", "o", "t", "i", "n">>

\* ', '.join(varnames)
RECURSIVE JoinNames(_)
JoinNames(names) ==
  IF Len(names) = 0 THEN << >>
  ELSE IF Len(names) = 1 THEN names[1]
  ELSE names[1] \o <<",", " ">> \o JoinNames(Tail(names))

\* re.sub(r', $', '', line): '$' is the end or the place before a last newline
TrimComma(text) ==
  LET n == Len(text)
  IN IF n >= 2 /\ text[n - 1] = "," /\ text[n] = " " THEN SubSeq(text, 1, n - 2)
     ELSE IF n >= 3 /\ text[n - 2] = "," /\ text[n - 1] = " " /\ text[n] = NL
       THEN SubSeq(text, 1, n - 3) \o <<NL>>
     ELSE text

\* append of both formatters
F_append(f, to_append) == [f EXCEPT !.currline = @ \o to_append]

\* AstFormatter.__init__
AstFormatter_init ==
  [lines |-> << >>, indentstr |-> <<" ", " ">>, currindent |-> << >>, currline |-> << >>]

\* AstFormatter.end
AstFormatter_end(f) == [f EXCEPT !.lines = Append(@, f.currline)]

\* AstFormatter.force_linebreak
AstFormatter_force_linebreak(f) ==
  [f EXCEPT !.lines = Append(@, f.currline), !.currline = f.currindent]

\* AstFormatter.eventual_linebreak
AstFormatter_eventual_linebreak(f) ==
  IF ~IsBlank(f.currline) THEN AstFormatter_force_linebreak(f) ELSE f

\* the node classes AstFormatter has a visit_ method for
AstFormatter_handlers ==
  {"AndNode", "ArgumentNode", "ArithmeticNode", "ArrayNode",
   "AssignmentNode", "BooleanNode", "BreakNode", "CodeBlockNode",
   "ComparisonNode", "ContinueNode", "DictNode", "ForeachClauseNode",
   "FormatStringNode", "FunctionNode", "IdNode", "IfClauseNode", "IfNode",
   "IndexNode", "MethodNode", "NotNode", "NumberNode", "OrNode",
   "PlusAssignmentNode", "StringNode", "TernaryNode", "UMinusNode"}

\* node.accept(AstFormatter): the visit_ method of the node's class, if the
\* formatter has one
RECURSIVE AstFormatter_visit(_, _, _), AstFormatter_lines(_, _, _, _),
          AstFormatter_arguments(_, _, _, _), AstFormatter_kwargs(_, _, _, _),
          AstFormatter_ifs(_, _, _, _)
AstFormatter_visit(arena, n, f) ==
  LET node == arena[n]
      k == node.kind
      V(m, g) == AstFormatter_visit(arena, m, g)
      binary(op) == V(node.right, F_append(V(node.left, f), op))
  IN IF ~Started(f) \/ k \notin AstFormatter_handlers THEN f ELSE
     CASE k = "BooleanNode" ->
            F_append(f, IF node.value THEN <<"t","r","u","e">> ELSE <<"f","a","l","s","e">>)
       [] k = "IdNode" -> F_append(f, node.value)
       [] k = "NumberNode" -> F_append(f, IntStr(node.value))
       [] k = "StringNode" -> F_append(f, <<QUOTE>> \o escape(node.value) \o <<QUOTE>>)
       [] k = "FormatStringNode" -> F_append(f, <<"f", QUOTE>> \o node.value \o <<QUOTE>>)
       [] k = "ContinueNode" ->
            AstFormatter_force_linebreak(
              F_append(AstFormatter_force_linebreak(f), <<"c","o","n","t","i","n","u","e">>))
       [] k = "BreakNode" ->
            AstFormatter_force_linebreak(
              F_append(AstFormatter_force_linebreak(f), <<"b","r","e","a","k">>))
       [] k = "ArrayNode" -> F_append(V(node.args, F_append(f, <<"[">>)), <<"]">>)
       [] k = "DictNode" -> F_append(V(node.args, F_append(f, <<"{">>)), <<"}">>)
       [] k = "OrNode" -> binary(<<" ", "o", "r", " ">>)
       [] k = "AndNode" -> binary(<<" ", "a", "n", "d", " ">>)
       [] k = "ComparisonNode" -> binary(<<" ">> \o CtypeText(node.ctype) \o <<" ">>)
       [] k = "ArithmeticNode" -> binary(<<" ", arithmic_map(node.operation), " ">>)
       [] k = "NotNode" -> V(node.value, F_append(f, <<" ", "n", "o", "t", " ">>))
       [] k = "CodeBlockNode" -> AstFormatter_lines(arena, node.lines, 1, f)
       [] k = "IndexNode" ->
            F_append(V(node.index, F_append(V(node.iobject, f), <<"[">>)), <<"]">>)
       [] k = "MethodNode" ->
            F_append(V(node.args, F_append(V(node.source_object, f),
                                           <<".">> \o node.name \o <<"(">>)), <<")">>)
       [] k = "FunctionNode" ->
            F_append(V(node.args, F_append(f, node.func_name \o <<"(">>)), <<")">>)
       [] k = "AssignmentNode" ->
            V(node.value, F_append(f, node.var_name \o <<" ", "=", " ">>))
       [] k = "PlusAssignmentNode" ->
            V(node.value, F_append(f, node.var_name \o <<" ", "+", "=", " ">>))
       [] k = "ForeachClauseNode" ->
            LET f1 == F_append(AstFormatter_eventual_linebreak(f),
                               <<"f","o","r","e","a","c","h"," ">>
                                 \o JoinNames(node.varnames) \o <<" ", ":", " ">>)
                f2 == V(node.items, f1)
                f3 == AstFormatter_force_linebreak([f2 EXCEPT !.indentstr = @ \o <<" ">>])
                f4 == V(node.block, f3)
                f5 == AstFormatter_force_linebreak(
                        [f4 EXCEPT !.indentstr = SubSeq(@, 1, Len(@) - 1)])
            IN AstFormatter_force_linebreak(
                 F_append(f5, <<"e","n","d","f","o","r","e","a","c","h">>))
       [] k = "IfClauseNode" ->
            LET f1 == AstFormatter_ifs(arena, node.ifs, 1, f)
                f2 == IF arena[node.elseblock].kind # "EmptyNode"
                        THEN V(node.elseblock, F_append(f1, <<"e","l","s","e">>))
                        ELSE f1
            IN F_append(f2, <<"e","n","d","i","f">>)
       [] k = "UMinusNode" -> V(node.value, F_append(f, <<"-">>))
       [] k = "IfNode" ->
            V(node.block, AstFormatter_force_linebreak(V(node.condition, f)))
       [] k = "TernaryNode" ->
            V(node.falseblock,
              F_append(V(node.trueblock, F_append(V(node.condition, f), <<" ", "?", " ">>)),
                       <<" ", ":", " ">>))
       [] k = "ArgumentNode" ->
            LET f1 == AstFormatter_arguments(arena, node.arguments, 1, f)
                f2 == AstFormatter_kwargs(arena, node.kwargs, 1, f1)
            IN [f2 EXCEPT !.currline = TrimComma(@)]
       [] OTHER -> f

\* the loop of visit_CodeBlockNode from line i on
AstFormatter_lines(arena, lines, i, f) ==
  IF ~Started(f) \/ i > Len(lines) THEN f
  ELSE AstFormatter_lines(arena, lines, i + 1,
         AstFormatter_force_linebreak(AstFormatter_visit(arena, lines[i], f)))

\* the first loop of visit_ArgumentNode from argument i on
AstFormatter_arguments(arena, arguments, i, f) ==
  IF ~Started(f) \/ i > Len(arguments) THEN f
  ELSE AstFormatter_arguments(arena, arguments, i + 1,
         F_append(AstFormatter_visit(arena, arguments[i], f), <<",", " ">>))

\* the second loop of visit_ArgumentNode from keyword argument i on
AstFormatter_kwargs(arena, kwargs, i, f) ==
  IF ~Started(f) \/ i > Len(kwargs) THEN f
  ELSE AstFormatter_kwargs(arena, kwargs, i + 1,
         F_append(AstFormatter_visit(arena, kwargs[i][2],
                    F_append(AstFormatter_visit(arena, kwargs[i][1], f), <<" ", ":", " ">>)),
                  <<",", " ">>))

\* the loop of visit_IfClauseNode from branch i on
AstFormatter_ifs(arena, ifs, i, f) ==
  IF ~Started(f) \/ i > Len(ifs) THEN f
  ELSE AstFormatter_ifs(arena, ifs, i + 1,
         AstFormatter_visit(arena, ifs[i],
           F_append(f, (IF i = 1 THEN << >> ELSE <<"e", "l">>) \o <<"i", "f", " ">>)))

\* mfmt.run: codeblock.accept(formatter); formatter.end(); formatter.lines
AstFormatter_format(arena, root) ==
  AstFormatter_end(AstFormatter_visit(arena, root, AstFormatter_init)).lines

\* AstFormatter2.__init__
AstFormatter2_init(config) ==
  [lines |-> << >>, indentstr |-> config.indent_by, currindent |-> << >>,
   currline |-> << >>, config |-> config]

\* AstFormatter2.end: the last line is added, whitespace-only lines are emptied
AstFormatter2_end(f) ==
  LET all == Append(f.lines, f.currline)
  IN [f EXCEPT !.lines = [i \in 1..Len(all) |-> IF IsBlank(all[i]) THEN << >> ELSE all[i]]]

\* AstFormatter2.force_linebreak
AstFormatter2_force_linebreak(f) ==
  IF ~IsBlank(f.currline)
    THEN [f EXCEPT !.lines = Append(@, f.currline), !.currline = f.currindent]
    ELSE f

\* AstFormatter2.visit_IfNode, the last statement: self.currindent = tmp
AstFormatter2_restore_none(f, tmp) == f

AstFormatter2_restore(f, tmp) == [f EXCEPT !.currindent = tmp]

\* the node classes AstFormatter2 has a visit_ method for
AstFormatter2_handlers ==
  {"AndNode", "ArgumentNode", "ArithmeticNode", "ArrayNode",
   "AssignmentNode", "BooleanNode", "BreakNode", "CodeBlockNode",
   "ComparisonNode", "ContinueNode", "DictNode", "ForeachClauseNode",
   "FormatStringNode", "FunctionNode", "IdNode", "IfClauseNode", "IfNode",
   "IndexNode", "MethodNode", "NotNode", "NumberNode", "OrNode",
   "ParenthesizedNode", "PlusAssignmentNode", "StringNode", "TernaryNode",
   "UMinusNode"}

\* node.accept(AstFormatter2): the visit_ method of the node's class, if
\* the formatter has one
RECURSIVE AstFormatter2_visit(_, _, _), AstFormatter2_lines(_, _, _, _),
          AstFormatter2_arguments(_, _, _, _), AstFormatter2_kwargs(_, _, _, _, _),
          AstFormatter2_ifs(_, _, _, _, _)
AstFormatter2_visit(arena, n, f) ==
  LET node == arena[n]
      k == node.kind
      V(m, g) == AstFormatter2_visit(arena, m, g)
      binary(op) == V(node.right, F_append(V(node.left, f), op))
      pad(g) == IF g.config.space_array THEN F_append(g, <<" ">>) ELSE g
      call(g) == IF Len(arena[node.args].arguments) # 0 \/ Len(arena[node.args].kwargs) # 0
                   THEN V(node.args, g) ELSE g
  IN IF ~Started(f) \/ k \notin AstFormatter2_handlers THEN f ELSE
     CASE k = "BooleanNode" ->
            F_append(f, IF node.value THEN <<"t","r","u","e">> ELSE <<"f","a","l","s","e">>)
       [] k = "IdNode" -> F_append(f, node.value)
       [] k = "NumberNode" -> F_append(f, IntStr(node.value))
       [] k = "StringNode" -> F_append(f, <<QUOTE>> \o escape(node.value) \o <<QUOTE>>)
       [] k = "FormatStringNode" -> F_append(f, <<"f", QUOTE>> \o node.value \o <<QUOTE>>)
       [] k = "ContinueNode" ->
            AstFormatter2_force_linebreak(
              F_append(AstFormatter2_force_linebreak(f), <<"c","o","n","t","i","n","u","e">>))
       [] k = "BreakNode" ->
            AstFormatter2_force_linebreak(
              F_append(AstFormatter2_force_linebreak(f), <<"b","r","e","a","k">>))
       [] k = "ArrayNode" ->
            LET some == Len(arena[node.args].arguments) # 0
                f1 == F_append(f, <<"[">>)
                f2 == V(node.args, IF some THEN pad(f1) ELSE f1)
            IN F_append(IF some THEN pad(f2) ELSE f2, <<"]">>)
       [] k = "DictNode" -> F_append(V(node.args, F_append(f, <<"{">>)), <<"}">>)
       [] k = "OrNode" -> binary(<<" ", "o", "r", " ">>)
       [] k = "AndNode" -> binary(<<" ", "a", "n", "d", " ">>)
       [] k = "ComparisonNode" ->
            binary(<<" ">> \o (IF node.ctype # "notin" THEN CtypeText(node.ctype)
                               ELSE <<"n", "o", "t", " ", "i", "n">>) \o <<" ">>)
       [] k = "ArithmeticNode" -> binary(<<" ", arithmic_map(node.operation), " ">>)
       [] k = "NotNode" -> V(node.value, F_append(f, <<"n", "o", "t", " ">>))
       [] k = "CodeBlockNode" -> AstFormatter2_lines(arena, node.lines, 1, f)
       [] k = "IndexNode" ->
            F_append(pad(V(node.index, pad(F_append(V(node.iobject, f), <<"[">>)))), <<"]">>)
       [] k = "MethodNode" ->
            F_append(call(F_append(V(node.source_object, f),
                                   <<".">> \o node.name \o <<"(">>)), <<")">>)
       [] k = "FunctionNode" ->
            F_append(call(F_append(f, node.func_name \o <<"(">>)), <<")">>)
       [] k = "AssignmentNode" ->
            V(node.value, F_append(f, node.var_name \o <<" ", "=", " ">>))
       [] k = "PlusAssignmentNode" ->
            V(node.value, F_append(f, node.var_name \o <<" ", "+", "=", " ">>))
       [] k = "UMinusNode" -> V(node.value, F_append(f, <<"-">>))
       [] k = "IfNode" ->
            LET f1 == V(node.condition, f)
                tmp == f1.currindent
                f2 == AstFormatter2_force_linebreak([f1 EXCEPT !.currindent = @ \o f1.indentstr])
                f3 == V(node.block, f2)
            IN AstFormatter2_restore(f3, tmp)
       [] k = "ForeachClauseNode" ->
            LET tmp == f.currindent
                f1 == F_append(f, <<"f","o","r","e","a","c","h"," ">>
                                    \o JoinNames(node.varnames) \o <<" ", ":", " ">>)
                f2 == V(node.items, f1)
                f3 == AstFormatter2_force_linebreak([f2 EXCEPT !.currindent = @ \o f2.indentstr])
                f4 == V(node.block, f3)
                f5 == AstFormatter2_force_linebreak([f4 EXCEPT !.currindent = tmp])
            IN F_append([f5 EXCEPT !.currline = f5.currindent],
                        <<"e","n","d","f","o","r","e","a","c","h">>)
       [] k = "IfClauseNode" ->
            LET tmp == f.currindent
                f1 == AstFormatter2_ifs(arena, node.ifs, 1, f, tmp)
                f2 == IF arena[node.elseblock].kind # "EmptyNode"
                        THEN LET g1 == F_append(f1, <<"e","l","s","e">>)
                                 g2 == AstFormatter2_force_linebreak(
                                         [g1 EXCEPT !.currindent = @ \o g1.indentstr])
                                 g3 == V(node.elseblock, g2)
                             IN AstFormatter2_force_linebreak([g3 EXCEPT !.currindent = tmp])
                        ELSE f1
            IN AstFormatter2_force_linebreak(
                 F_append([f2 EXCEPT !.currindent = tmp, !.currline = tmp],
                          <<"e","n","d","i","f">>))
       [] k = "TernaryNode" ->
            V(node.falseblock,
              F_append(V(node.trueblock, F_append(V(node.condition, f), <<" ", "?", " ">>)),
                       <<" ", ":", " ">>))
       [] k = "ArgumentNode" ->
            LET f1 == AstFormatter2_arguments(arena, node.arguments, 1, f)
                tmp == f1.currindent
                f2 == AstFormatter2_kwargs(arena, node.kwargs, 1,
                                           [f1 EXCEPT !.currindent = @ \o f1.indentstr], tmp)
            IN [f2 EXCEPT !.currindent = tmp, !.currline = TrimComma(@)]
       [] k = "ParenthesizedNode" -> F_append(V(node.inner, F_append(f, <<"(">>)), <<")">>)
       [] OTHER -> f

\* the loop of visit_CodeBlockNode from line i on
AstFormatter2_lines(arena, lines, i, f) ==
  IF ~Started(f) \/ i > Len(lines) THEN f
  ELSE AstFormatter2_lines(arena, lines, i + 1,
         AstFormatter2_force_linebreak(AstFormatter2_visit(arena, lines[i], f)))

\* the first loop of visit_ArgumentNode from argument i on
AstFormatter2_arguments(arena, arguments, i, f) ==
  IF ~Started(f) \/ i > Len(arguments) THEN f
  ELSE AstFormatter2_arguments(arena, arguments, i + 1,
         F_append(AstFormatter2_visit(arena, arguments[i], f), <<",", " ">>))

\* the second loop of visit_ArgumentNode from keyword argument i on
AstFormatter2_kwargs(arena, kwargs, i, f, tmp) ==
  IF ~Started(f) \/ i > Len(kwargs) THEN f
  ELSE LET f1 == AstFormatter2_visit(arena, kwargs[i][1], AstFormatter2_force_linebreak(f))
           f2 == F_append(f1, IF ~f1.config.wide_colon THEN <<":", " ">> ELSE <<" ", ":", " ">>)
           f3 == AstFormatter2_visit(arena, kwargs[i][2], f2)
           f4 == IF i = Len(kwargs)
                   THEN AstFormatter2_force_linebreak([f3 EXCEPT !.currindent = tmp])
                   ELSE F_append(f3, <<",">>)
       IN AstFormatter2_kwargs(arena, kwargs, i + 1, f4, tmp)

\* the loop of visit_IfClauseNode from branch i on
AstFormatter2_ifs(arena, ifs, i, f, tmp) ==
  IF ~Started(f) \/ i > Len(ifs) THEN f
  ELSE LET f1 == F_append([f EXCEPT !.currindent = tmp, !.currline = tmp],
                          (IF i = 1 THEN << >> ELSE <<"e", "l">>) \o <<"i", "f", " ">>)
           f2 == AstFormatter2_visit(arena, ifs[i], f1)
       IN AstFormatter2_ifs(arena, ifs, i + 1, [f2 EXCEPT !.currindent = tmp, !.currline = tmp], tmp)

\* formatter = AstFormatter2(lines, config); codeblock.accept(formatter);
\* formatter.end(); formatter.lines
AstFormatter2_format(arena, root, config) ==
  AstFormatter2_end(AstFormatter2_visit(arena, root, AstFormatter2_init(config))).lines

\* the emitted lines joined with newlines, '\n'.join(lines): the text the
\* round-trip statements parse again.  (mfmt.run does not build this text:
\* it prints every line, each followed by a newline, and then the list
\* dir(codeblock).)
RECURSIVE JoinLines(_)
JoinLines(lines) ==
  IF Len(lines) = 0 THEN << >>
  ELSE IF Len(lines) = 1 THEN lines[1]
  ELSE lines[1] \o <<NL>> \o JoinLines(Tail(lines))

(***************************************************************************)
(* The program as a state machine.  code is the source text handed to      *)
(* Parser(code, filename).parse(); ast is the parser after parse() (its    *)
(* arena holds the tree, ret the root block, err the exception raised);    *)
(* formatter names the visitor the tree is rendered with, lines the lines  *)
(* it emitted; ast2 and lines2 are the same for the text obtained by       *)
(* joining lines with newlines.  inp records how the text was built.       *)
(***************************************************************************)
VARIABLES inp, code, pc, ast, formatter, lines, ast2, lines2

vars == <<inp, code, pc, ast, formatter, lines, ast2, lines2>>

\* words joined by single spaces
RECURSIVE JoinWords(_)
JoinWords(words) ==
  IF Len(words) = 0 THEN << >>
  ELSE IF Len(words) = 1 THEN words[1]
  ELSE words[1] \o <<" ">> \o JoinWords(Tail(words))

\* the rendering of a tree: formatter.name is the class, formatter.config the
\* configuration handed to AstFormatter2
Format(fm, arena, root) ==
  IF fm.name = "AstFormatter" THEN AstFormatter_format(arena, root)
  ELSE AstFormatter2_format(arena, root, fm.config)

\* the indentation units, and the formatters with their configurations
IndentUnits == {<< >>, <<" ", " ">>, <<TAB>>}

Formatters ==
  {[name |-> "AstFormatter"]} \cup
  {[name |-> "AstFormatter2",
    config |-> [indent_by |-> i, space_array |-> sa, wide_colon |-> wc]] :
     i \in IndentUnits, sa \in BOOLEAN, wc \in BOOLEAN}

\* the state before parse() is called on the text built from i
Start(i, text) ==
  /\ inp = i
  /\ code = text
  /\ pc = "start"
  /\ ast = None
  /\ formatter = None
  /\ lines = << >>
  /\ ast2 = None
  /\ lines2 = << >>

\* mparser.Parser(code, filename).parse()
DoParse ==
  /\ pc = "start"
  /\ \E p \in {ParseTree(code)} :
       \E key \in IterationOrders(p) : ast' = AttachAll(p, key)
  /\ pc' = "parsed"
  /\ UNCHANGED <<inp, code, formatter, lines, ast2, lines2>>

\* codeblock.accept(formatter); formatter.end()
DoFormat ==
  /\ pc = "parsed"
  /\ ast.ok
  /\ \E fm \in Formatters :
       /\ formatter' = fm
       /\ lines' = Format(fm, ast.arena, ast.ret)
  /\ pc' = "formatted"
  /\ UNCHANGED <<inp, code, ast, ast2, lines2>>

\* Parser(text, filename).parse() of the emitted lines joined with newlines
DoReparse ==
  /\ pc = "formatted"
  /\ \E p \in {ParseTree(JoinLines(lines))} :
       \E key \in IterationOrders(p) : ast2' = AttachAll(p, key)
  /\ pc' = "reparsed"
  /\ UNCHANGED <<inp, code, ast, formatter, lines, lines2>>

\* the second formatting pass, with the same formatter
DoReformat ==
  /\ pc = "reparsed"
  /\ ast2.ok
  /\ lines2' = Format(formatter, ast2.arena, ast2.ret)
  /\ pc' = "done"
  /\ UNCHANGED <<inp, code, ast, formatter, lines, ast2>>

(***************************************************************************)
(* Expressions: operand (operator operand)*, at most MaxOperators          *)
(* operators, each operand an atom with an optional unary prefix.          *)
(***************************************************************************)
MaxOperators == 2

CompOps == {"==", "!=", "<", "<=", ">", ">=", "in", "notin"}

\* the binary operators of the expression family: at least two of every level
\* that has two
BinOps == {"or", "and", "==", "<", "notin", "+", "-", "*", "%"}

\* the source text of a binary operator
OpText(op) ==
  CASE op = "or" -> <<"o", "r">>
    [] op = "and" -> <<"a", "n", "d">>
    [] op = "==" -> <<"=", "=">>
    [] op = "!=" -> <<"!", "=">>
    [] op = "<=" -> <<"<", "=">>
    [] op = ">=" -> <<">", "=">>
    [] op = "in" -> <<"i", "n">>
    [] op = "notin" -> <<"n", "o", "t", " ", "i", "n">>
    [] OTHER -> <<op>>

\* the level of a binary operator in the precedence table, lowest first
Level(op) ==
  CASE op = "or" -> 1
    [] op = "and" -> 2
    [] op \in CompOps -> 3
    [] op \in {"+", "-"} -> 4
    [] op \in {"*", "/", "%"} -> 5

\* the structural tree of the node for operator op over two operand trees
OpTree(op, l, r) ==
  CASE op = "or" -> [kind |-> "OrNode", left |-> l, right |-> r]
    [] op = "and" -> [kind |-> "AndNode", left |-> l, right |-> r]
    [] op \in CompOps -> [kind |-> "ComparisonNode", ctype |-> op, left |-> l, right |-> r]
    [] OTHER ->
         [kind |-> "ArithmeticNode",
          operation |-> CASE op = "+" -> "add" [] op = "-" -> "sub" [] op = "*" -> "mul"
                          [] op = "/" -> "div" [] op = "%" -> "mod",
          left |-> l, right |-> r]

\* the atoms of the three operand alphabets, with their source text
IdAtom(ch) == [text |-> <<ch>>, tree |-> [kind |-> "IdNode", value |-> <<ch>>]]

NumAtom(ch, v) == [text |-> <<ch>>, tree |-> [kind |-> "NumberNode", value |-> v]]

TrueAtom == [text |-> <<"t", "r", "u", "e">>, tree |-> [kind |-> "BooleanNode", value |-> TRUE]]

FalseAtom ==
  [text |-> <<"f", "a", "l", "s", "e">>, tree |-> [kind |-> "BooleanNode", value |-> FALSE]]

AtomRows ==
  { <<IdAtom("a"), IdAtom("b"), IdAtom("c"), IdAtom("d")>>,
    <<NumAtom("1", 1), NumAtom("2", 2), NumAtom("3", 3), NumAtom("4", 4)>>,
    <<TrueAtom, FalseAtom, TrueAtom, FalseAtom>> }

\* the unary prefixes of the operands: at most one operand carries one
Prefixes(n) ==
  { [i \in 1..n |-> IF i = k THEN u ELSE ""] : k \in 1..n, u \in {"", "not", "-"} }

PrefixText(u) ==
  CASE u = "not" -> <<"n", "o", "t", " ">> [] u = "-" -> <<"-">> [] OTHER -> << >>

PrefixTree(u, t) ==
  CASE u = "not" -> [kind |-> "NotNode", value |-> t]
    [] u = "-" -> [kind |-> "UMinusNode", value |-> t]
    [] OTHER -> t

\* identifiers with every placement of a prefix, numbers without a prefix,
\* booleans with or without a 'not' on the first operand
Operandings(n) ==
  {o \in [atoms : {SubSeq(row, 1, n) : row \in AtomRows}, unary : Prefixes(n)] :
     \/ o.atoms[1] = IdAtom("a")
     \/ \A k \in 1..n : o.unary[k] = ""
     \/ o.atoms[1] = TrueAtom /\ o.unary[1] = "not"}

ExprInputs ==
  UNION { { [family |-> "expr", ops |-> ops, atoms |-> o.atoms, unary |-> o.unary] :
             ops \in [1..n -> BinOps], o \in Operandings(n + 1) } :
          n \in 0..MaxOperators }

RECURSIVE ExprWords(_, _)
ExprWords(i, k) ==
  LET w == PrefixText(i.unary[k]) \o i.atoms[k].text
  IN IF k > Len(i.ops) THEN <<w>> ELSE <<w, OpText(i.ops[k])>> \o ExprWords(i, k + 1)

ExprText(i) == JoinWords(ExprWords(i, 1))

\* the operand trees of an expression input
Operands(i) == [k \in 1..Len(i.atoms) |-> PrefixTree(i.unary[k], i.atoms[k].tree)]

InitExpr == \E i \in ExprInputs : Start(i, ExprText(i))

NextParse == DoParse

SpecExpr == InitExpr /\ [][NextParse]_vars

\* the single statement of a parsed one-line program
OnlyLine(p) == Tree(p.arena, p.arena[p.ret].lines[1])

\* the tree the precedence table prescribes: the operator that binds last is
\* the rightmost one of the lowest level present
RECURSIVE Expected(_, _)
Expected(ops, operands) ==
  IF Len(ops) = 0 THEN operands[1]
  ELSE
    LET low == MinOf({Level(ops[k]) : k \in 1..Len(ops)})
        k == CHOOSE j \in 1..Len(ops) :
               /\ Level(ops[j]) = low
               /\ \A m \in (j + 1)..Len(ops) : Level(ops[m]) # low
    IN OpTree(ops[k],
              Expected(SubSeq(ops, 1, k - 1), SubSeq(operands, 1, k)),
              Expected(SubSeq(ops, k + 1, Len(ops)), SubSeq(operands, k + 1, Len(operands))))

\* no two comparison operators without an 'and' or 'or' between them
NoChain(ops) ==
  \A j, m \in 1..Len(ops) :
    (j < m /\ ops[j] \in CompOps /\ ops[m] \in CompOps) =>
      \E x \in (j + 1)..(m - 1) : ops[x] \in {"and", "or"}

\* C3: every expression of the family without chained comparisons parses, and
\* its tree nests each operator of a higher level of the precedence table
\* (or < and < comparison < additive < multiplicative < unary) as an operand
\* of the adjacent operator of a lower level; '1 + 2 * 3' gives
\* add(1, mul(2, 3)) and 'not true and false' gives and(not(true), false)
C3_PrecedenceNesting ==
  /\ (pc = "parsed" /\ inp.family = "expr" /\ NoChain(inp.ops)) =>
       /\ ast.ok
       /\ OnlyLine(ast) = Expected(inp.ops, Operands(inp))
  /\ (pc = "parsed" /\ code = <<"1", " ", "+", " ", "2", " ", "*", " ", "3">>) =>
       /\ ast.ok
       /\ OnlyLine(ast) =
            OpTree("+", NumAtom("1", 1).tree,
                   OpTree("*", NumAtom("2", 2).tree, NumAtom("3", 3).tree))
  /\ (pc = "parsed" /\ code = <<"n", "o", "t", " ", "t", "r", "u", "e", " ",
                                "a", "n", "d", " ", "f", "a", "l", "s", "e">>) =>
       /\ ast.ok
       /\ OnlyLine(ast) = OpTree("and", PrefixTree("not", TrueAtom.tree), FalseAtom.tree)

\* operators of two levels have been parsed, the later one binding tighter:
\* '1 + 2 * 3', whose root is the addition
C3_Witness ==
  /\ pc = "parsed"
  /\ inp.family = "expr"
  /\ inp.ops = <<"+", "*">>
  /\ inp.atoms[1] = NumAtom("1", 1)
  /\ ast.ok
  /\ OnlyLine(ast).kind = "ArithmeticNode"
  /\ OnlyLine(ast).operation = "add"
  /\ OnlyLine(ast).right.operation = "mul"

\* the operators of an input all belong to one level that folds
OneLevel(ops) ==
  /\ Len(ops) > 0
  /\ \A k \in 1..Len(ops) : Level(ops[k]) = Level(ops[1])
  /\ Level(ops[1]) \in {1, 2, 4, 5}

\* the node built from the first k + 1 operands of a left-nested chain
RECURSIVE LeftNested(_, _, _)
LeftNested(ops, operands, k) ==
  IF k = 0 THEN operands[1]
  ELSE OpTree(ops[k], LeftNested(ops, operands, k - 1), operands[k + 1])

\* C4: a sequence of operands joined by operators of one level (+ -, * / %,
\* 'and', 'or') parses to a left-nested tree: the left operand of the k-th
\* operator node is the node built from the first k operands
C4_LeftNested ==
  (pc = "parsed" /\ inp.family = "expr" /\ OneLevel(inp.ops)) =>
    /\ ast.ok
    /\ OnlyLine(ast) = LeftNested(inp.ops, Operands(inp), Len(inp.ops))

\* 'a - b - c' has been parsed to sub(sub(a, b), c)
C4_Witness ==
  /\ pc = "parsed"
  /\ code = <<"a", " ", "-", " ", "b", " ", "-", " ", "c">>
  /\ ast.ok
  /\ OnlyLine(ast) =
       OpTree("-", OpTree("-", IdAtom("a").tree, IdAtom("b").tree), IdAtom("c").tree)


(***************************************************************************)
(* Chained comparisons: 'a' op1 rhs op2 'c' placed in a context.           *)
(***************************************************************************)
\* the text before and after an expression placed in context ctx
Before(ctx) ==
  CASE ctx = "top" -> << >>
    [] ctx = "assign" -> <<"x", " ", "=", " ">>
    [] ctx = "paren" -> <<"(">>
    [] ctx = "call" -> <<"f", "(">>
    [] ctx = "call2" -> <<"f", "(", "1", ",", " ">>
    [] ctx = "kwarg" -> <<"f", "(", "k", " ", ":", " ">>
    [] ctx = "method" -> <<"o", ".", "m", "(">>
    [] ctx = "array" -> <<"[">>
    [] ctx = "index" -> <<"a", "[">>
    [] ctx = "dict" -> <<"{", "'", "k", "'", " ", ":", " ">>
    [] ctx = "ifcond" -> <<"i", "f", " ">>
    [] ctx = "ternary" -> << >>
    [] ctx = "foreach" -> <<"f", "o", "r", "e", "a", "c", "h", " ", "i", " ", ":", " ">>

After(ctx) ==
  CASE ctx \in {"top", "assign"} -> << >>
    [] ctx \in {"paren", "call", "call2", "kwarg", "method"} -> <<")">>
    [] ctx \in {"array", "index"} -> <<"]">>
    [] ctx = "dict" -> <<"}">>
    [] ctx = "ifcond" -> <<NL, "e", "n", "d", "i", "f">>
    [] ctx = "ternary" -> <<" ", "?", " ", "1", " ", ":", " ", "2">>
    [] ctx = "foreach" -> <<NL, "e", "n", "d", "f", "o", "r", "e", "a", "c", "h">>

InContext(ctx, text) == Before(ctx) \o text \o After(ctx)

Contexts == {"top", "assign", "paren", "call", "call2", "kwarg", "method", "array",
             "index", "dict", "ifcond", "ternary", "foreach"}

\* the contexts that are an argument list
ArgumentLists == {"call", "call2", "kwarg", "method"}

CmpInputs ==
  [family : {"cmp"}, ctx : Contexts, op1 : CompOps, op2 : CompOps, sum : BOOLEAN]

CmpText(i) ==
  InContext(i.ctx,
            JoinWords(<< <<"a">>, OpText(i.op1), IF i.sum THEN <<"b", " ", "+", " ", "1">> ELSE <<"b">>,
                         OpText(i.op2), <<"c">> >>))

\* the tree of the first comparison of a chain
FirstComparison(i) ==
  OpTree(i.op1, IdAtom("a").tree,
         IF i.sum THEN OpTree("+", IdAtom("b").tree, NumAtom("1", 1).tree)
         ELSE IdAtom("b").tree)

\* every ComparisonNode of the arena has a left and a right operand, neither
\* of them a ComparisonNode
TwoOperands(p) ==
  \A n \in 1..Len(p.arena) :
    p.arena[n].kind = "ComparisonNode" =>
      /\ p.arena[n].left \in 1..Len(p.arena)
      /\ p.arena[n].right \in 1..Len(p.arena)
      /\ p.arena[p.arena[n].left].kind # "ComparisonNode"
      /\ p.arena[p.arena[n].right].kind # "ComparisonNode"

\* the parse raised a ParseException or its subclass BlockParseException
ParseFailed(p) == ~p.ok /\ p.err.kind \in {"ParseException", "BlockParseException"}

\* C5 as stated: a second comparison operator directly after a finished
\* comparison makes the parse fail, wherever the chain stands
C5_ChainAlwaysFails ==
  (pc = "parsed" /\ inp.family = "cmp") => (TwoOperands(ast) /\ ParseFailed(ast))

\* the statement the second operator of a chain and 'c' make when they start
\* a line: e9 returns an EmptyNode where the left operand is missing, and a
\* leading 'not' of 'not in' is taken by e6 as the unary operator
SecondComparison(i) ==
  IF i.op2 = "notin"
    THEN OpTree("in", PrefixTree("not", [kind |-> "EmptyNode"]), IdAtom("c").tree)
    ELSE OpTree(i.op2, [kind |-> "EmptyNode"], IdAtom("c").tree)

\* C5, what the parser does: every ComparisonNode has two operands, neither
\* a comparison; a second comparison operator directly after a finished
\* comparison makes the parse fail at top level, in an argument list, in
\* parentheses, brackets, braces and in a condition; in the header of a
\* foreach the parse succeeds, the first comparison being the items and the
\* second operator starting the only statement of the body, a comparison
\* whose left operand is an EmptyNode (the 'not' of an EmptyNode for 'not in')
C5_ComparisonsDoNotChain ==
  pc = "parsed" =>
    /\ TwoOperands(ast)
    /\ (inp.family = "cmp" /\ inp.ctx # "foreach") => ParseFailed(ast)
    /\ (inp.family = "cmp" /\ inp.ctx = "foreach") =>
         /\ ast.ok
         /\ LET loop == OnlyLine(ast)
            IN /\ loop.kind = "ForeachClauseNode"
               /\ loop.items = FirstComparison(inp)
               /\ loop.block.lines = <<SecondComparison(inp)>>

\* 'foreach i : a < b < c' followed by 'endforeach' has been parsed without
\* an error, the body holding the comparison of an EmptyNode with c
C5_Witness ==
  /\ pc = "parsed"
  /\ inp.family = "cmp"
  /\ code = <<"f", "o", "r", "e", "a", "c", "h", " ", "i", " ", ":", " ",
              "a", " ", "<", " ", "b", " ", "<", " ", "c", NL,
              "e", "n", "d", "f", "o", "r", "e", "a", "c", "h">>
  /\ ast.ok
  /\ OnlyLine(ast).block.lines =
       <<OpTree("<", [kind |-> "EmptyNode"], IdAtom("c").tree)>>


(***************************************************************************)
(* Calls: a callee expression directly followed by an argument list.       *)
(***************************************************************************)
\* the callees that are not a bare identifier: primary expressions, and the
\* results of a call, of a method call and of an index
PrimaryCallees == {"paren", "number", "string", "boolean", "array", "dict"}

PostfixCallees == {"function", "method", "index"}

CalleeText(callee) ==
  CASE callee = "id" -> <<"g">>
    [] callee = "paren" -> <<"(", "1", " ", "+", " ", "2", ")">>
    [] callee = "number" -> <<"1">>
    [] callee = "string" -> <<"'", "s", "'">>
    [] callee = "boolean" -> <<"t", "r", "u", "e">>
    [] callee = "array" -> <<"[", "1", "]">>
    [] callee = "dict" -> <<"{", "}">>
    [] callee = "function" -> <<"g", "(", "1", ")">>
    [] callee = "method" -> <<"a", ".", "b", "(", ")">>
    [] callee = "index" -> <<"a", "[", "1", "]">>

CallInputs ==
  [family : {"call"}, ctx : {"top", "assign", "call", "paren", "foreach"},
   callee : {"id"} \cup PrimaryCallees \cup PostfixCallees, arg : BOOLEAN]

CallText(i) ==
  InContext(i.ctx, CalleeText(i.callee) \o (IF i.arg THEN <<"(", "3", ")">> ELSE <<"(", ")">>))

\* C6 as stated: an argument list applied to an expression that is not a bare
\* identifier makes the parse fail with a ParseException saying that a
\* function call must be applied to a plain identifier
C6_CallOnNonIdRejected ==
  (pc = "parsed" /\ inp.family = "call" /\ inp.callee # "id") =>
    /\ ~ast.ok
    /\ ast.err.kind = "ParseException"
    /\ ast.err.text = PlainIdMessage

\* C6, what the parser does: the message is raised for a primary callee; after
\* the result of a call, of a method call or of an index the parenthesis is
\* left to the caller, which rejects it with its own 'Expecting' message, or,
\* in the header of a foreach, takes it as the first statement of the body
C6_CallOnPrimaryRejected ==
  (pc = "parsed" /\ inp.family = "call") =>
    /\ inp.callee = "id" => ast.ok
    /\ inp.callee \in PrimaryCallees =>
         /\ ~ast.ok
         /\ ast.err.kind = "ParseException"
         /\ ast.err.text = PlainIdMessage
    /\ (inp.callee \in PostfixCallees /\ inp.ctx # "foreach") =>
         /\ ParseFailed(ast)
         /\ ast.err.text # PlainIdMessage
         /\ ast.err.text[4] = "lparen"
    /\ (inp.callee \in PostfixCallees /\ inp.ctx = "foreach") =>
         /\ ast.ok
         /\ Len(OnlyLine(ast).block.lines) = 1
         /\ OnlyLine(ast).block.lines[1].kind = "ParenthesizedNode"

\* '(1 + 2)(3)' has been rejected with the plain-id message
C6_Witness ==
  /\ pc = "parsed"
  /\ code = <<"(", "1", " ", "+", " ", "2", ")", "(", "3", ")">>
  /\ ~ast.ok
  /\ ast.err.text = PlainIdMessage


(***************************************************************************)
(* Ternaries: an outer ternary with a '?' in one of its branches.          *)
(***************************************************************************)
\* where the inner '?' stands: after a complete operand, directly in a branch
\* or inside brackets within it
NestedPlaces == {"true", "false", "true_paren", "false_paren", "true_call", "false_call",
                 "kwarg", "method_arg", "array", "index", "dict", "after_sum",
                 "branch_start"}

\* where the inner '?' stands without a complete operand before it
MethodPlaces == {"method_name", "after_dot"}

\* where the text after the inner '?' does not lex: a quote that opens no
\* string, a string with an escape that does not decode, a string with a
\* character name that holds a surrogate
UnlexedPlaces == {"before_quote", "before_bad_escape", "before_surrogate_name"}

OtherPlaces == MethodPlaces \cup UnlexedPlaces

\* the exception Lexer.lex raises for the text after the '?' of a place
LexerException(place) ==
  CASE place = "before_quote" -> "ParseException"
    [] place = "before_bad_escape" -> "MesonException"
    [] place = "before_surrogate_name" -> "UnicodeEncodeError"

\* ternaries with no '?' in a branch
PlainPlaces == {"single", "bracketed", "two_arguments"}

TernaryBody(place) ==
  CASE place = "true" -> <<"a", " ", "?", " ", "b", " ", "?", " ", "c", " ", ":", " ", "d", " ", ":", " ", "e">>
    [] place = "false" -> <<"a", " ", "?", " ", "b", " ", ":", " ", "c", " ", "?", " ", "d", " ", ":", " ", "e">>
    [] place = "true_paren" -> <<"a", " ", "?", " ", "(", "b", " ", "?", " ", "c", " ", ":", " ", "d", ")", " ", ":", " ", "e">>
    [] place = "false_paren" -> <<"a", " ", "?", " ", "b", " ", ":", " ", "(", "c", " ", "?", " ", "d", " ", ":", " ", "e", ")">>
    [] place = "true_call" -> <<"a", " ", "?", " ", "f", "(", "b", " ", "?", " ", "c", " ", ":", " ", "d", ")", " ", ":", " ", "e">>
    [] place = "false_call" -> <<"a", " ", "?", " ", "b", " ", ":", " ", "f", "(", "c", " ", "?", " ", "d", " ", ":", " ", "e", ")">>
    [] place = "kwarg" -> <<"a", " ", "?", " ", "f", "(", "k", " ", ":", " ", "b", " ", "?", " ", "c", " ", ":", " ", "d", ")", " ", ":", " ", "e">>
    [] place = "method_arg" -> <<"a", " ", "?", " ", "o", ".", "m", "(", "b", " ", "?", " ", "c", " ", ":", " ", "d", ")", " ", ":", " ", "e">>
    [] place = "array" -> <<"a", " ", "?", " ", "[", "b", " ", "?", " ", "c", " ", ":", " ", "d", "]", " ", ":", " ", "e">>
    [] place = "index" -> <<"a", " ", "?", " ", "x", "[", "b", " ", "?", " ", "c", " ", ":", " ", "d", "]", " ", ":", " ", "e">>
    [] place = "dict" -> <<"a", " ", "?", " ", "{", "'", "k", "'", " ", ":", " ", "b", " ", "?", " ", "c", " ", ":", " ", "d", "}",
                          " ", ":", " ", "e">>
    [] place = "after_sum" -> <<"a", " ", "?", " ", "b", " ", "+", " ", "1", " ", "?", " ", "c", " ", ":", " ", "d", " ", ":", " ", "e">>
    [] place = "branch_start" -> <<"a", " ", "?", " ", "?", " ", "b", " ", ":", " ", "c">>
    [] place = "method_name" -> <<"a", " ", "?", " ", "b", ".", "c", " ", "?", " ", "d", " ", ":", " ", "e">>
    [] place = "after_dot" -> <<"a", " ", "?", " ", "b", ".", " ", "?", " ", "c", " ", ":", " ", "d">>
    [] place = "before_quote" -> <<"a", " ", "?", " ", "b", " ", "?", " ">> \o <<QUOTE>>
    [] place = "before_bad_escape" ->
         <<"a", " ", "?", " ", "b", " ", "?", " ", QUOTE, BSL, "U", "0", "0", "1", "1", "0", "0",
           "0", "0", QUOTE, " ", ":", " ", "c", " ", ":", " ", "d">>
    [] place = "before_surrogate_name" ->
         <<"a", " ", "?", " ", "b", " ", "?", " ", QUOTE, BSL, "N", "{", Chr(55296), "}", QUOTE,
           " ", ":", " ", "c", " ", ":", " ", "d">>
    [] place = "single" -> <<"a", " ", "?", " ", "b", " ", ":", " ", "c">>
    [] place = "bracketed" -> <<"a", " ", "?", " ", "(", "b", ")", " ", ":", " ", "f", "(", "c", ")">>
    [] place = "two_arguments" -> <<"f", "(", "a", " ", "?", " ", "b", " ", ":", " ", "c", ",", " ", "d", " ", "?", " ", "e", " ", ":", " ", "g", ")">>

TernaryInputs ==
  [family : {"ternary"}, ctx : {"top", "assign", "call", "paren", "array"},
   place : NestedPlaces \cup OtherPlaces \cup PlainPlaces]

TernaryText(i) == InContext(i.ctx, TernaryBody(i.place))

MaxLeading == 2

MaxIndent == 2

BlockInputs ==
  {i \in [family : {"block"}, lead : 0..MaxLeading, indent : 0..MaxIndent,
          opener : {"if", "foreach"}, body : {"none", "stmt", "block"},
          inner : {"none", "if", "foreach"}, els : BOOLEAN,
          closer : {"eof", "endif", "endforeach", "rparen"}] :
     i.els => (i.opener = "if" /\ i.inner = "none")}

Spaces(n) == [k \in 1..n |-> " "]

Header(opener) == IF opener = "if" THEN <<"i", "f", " ", "t", "r", "u", "e">> ELSE <<"f", "o", "r", "e", "a", "c", "h", " ", "i", " ", ":", " ", "l">>

Terminator(opener) == IF opener = "if" THEN "endif" ELSE "endforeach"

CloserLine(closer) ==
  CASE closer = "endif" -> << <<"e", "n", "d", "i", "f">> >>
    [] closer = "endforeach" -> << <<"e", "n", "d", "f", "o", "r", "e", "a", "c", "h">> >>
    [] closer = "rparen" -> << <<")">> >>
    [] closer = "eof" -> << >>

\* the lines of a block input, each ended by a newline in the text
BlockLines(i) ==
  [k \in 1..i.lead |-> <<"y", " ", "=", " ", "1">>]
  \o << Spaces(i.indent) \o Header(i.opener) >>
  \o (CASE i.body = "none" -> << >>
        [] i.body = "stmt" -> << <<"x", " ", "=", " ", "1">> >>
        [] i.body = "block" -> << <<"i", "f", " ", "b">>, <<"e", "n", "d", "i", "f">> >>)
  \o (IF i.inner = "none" THEN << >> ELSE << Spaces(i.indent + 1) \o Header(i.inner) >>)
  \o (IF i.els THEN << <<"e", "l", "s", "e">>, <<"z", " ", "=", " ", "3">> >> ELSE << >>)
  \o CloserLine(i.closer)

RECURSIVE LinesText(_)
LinesText(ls) == IF Len(ls) = 0 THEN << >> ELSE ls[1] \o <<NL>> \o LinesText(Tail(ls))

BlockText(i) == LinesText(BlockLines(i))

\* the line and column of the opening keyword of the outer and of the inner block
OuterLine(i) == i.lead + 1

InnerLine(i) == i.lead + 1 + (CASE i.body = "none" -> 0 [] i.body = "stmt" -> 1
                                [] i.body = "block" -> 2) + 1

\* the block whose body the closing line follows: the innermost open one
Innermost(i) ==
  IF i.inner = "none" THEN [opener |-> i.opener, lineno |-> OuterLine(i), colno |-> i.indent]
  ELSE [opener |-> i.inner, lineno |-> InnerLine(i), colno |-> i.indent + 1]

Outer(i) == [opener |-> i.opener, lineno |-> OuterLine(i), colno |-> i.indent]

\* the closing line is the terminator of the innermost open block
Closes(i) == i.closer = Terminator(Innermost(i).opener)

\* the block left open, the token found in place of its terminator and the
\* position of that token; the 'eof' token stands one column after the
\* newline that ends the last line
Mismatch(i) ==
  LET ls == BlockLines(i)
      ateof == [got |-> "eof", lineno |-> Len(ls), colno |-> Len(ls[Len(ls)]) + 1]
  IN IF i.closer = "eof" THEN [block |-> Innermost(i)] @@ ateof
     ELSE IF Closes(i) THEN [block |-> Outer(i)] @@ ateof
     ELSE [block |-> Innermost(i), got |-> i.closer, lineno |-> Len(ls), colno |-> 0]

\* every block of the input is closed
Balanced(i) == i.inner = "none" /\ Closes(i)

\* C8: when the token after the body of an 'if' or 'foreach' opened at line
\* L, column C is not its terminator, the parse fails with a
\* BlockParseException holding the position of that token and L and C (and
\* the text of line L) as the start of the block; 'if true' and a newline
\* gives block start line 1
C8_BlockStartReported ==
  (pc = "parsed" /\ inp.family = "block") =>
    /\ Balanced(inp) => ast.ok
    /\ ~Balanced(inp) =>
         LET m == Mismatch(inp)
         IN /\ ~ast.ok
            /\ ast.err.kind = "BlockParseException"
            /\ ast.err.text = ExpectText(Terminator(m.block.opener), m.got)
            /\ ast.err.lineno = m.lineno
            /\ ast.err.colno = m.colno
            /\ ast.err.start_lineno = m.block.lineno
            /\ ast.err.start_colno = m.block.colno
            /\ ast.err.start_line = BlockLines(inp)[m.block.lineno]
    /\ code = <<"i", "f", " ", "t", "r", "u", "e", NL>> =>
         /\ ast.err.kind = "BlockParseException"
         /\ ast.err.start_lineno = 1
         /\ ast.err.start_colno = 0

\* an 'if' opened on line 3, column 2 was left open: the exception names
\* that position as the start of the block
C8_Witness ==
  /\ pc = "parsed"
  /\ inp.family = "block"
  /\ inp.opener = "if"
  /\ inp.lead = 2
  /\ inp.indent = 2
  /\ inp.inner = "none"
  /\ inp.closer = "endforeach"
  /\ ~ast.ok
  /\ ast.err.kind = "BlockParseException"
  /\ ast.err.start_lineno = 3
  /\ ast.err.start_colno = 2
  /\ ast.err.lineno > 3


(***************************************************************************)
(* Comments: a comment alone on the line before a statement, or after a    *)
(* statement on its line.                                                  *)
(***************************************************************************)
StatementText(stmt) ==
  CASE stmt = "assign" -> <<"x", " ", "=", " ", "1">>
    [] stmt = "call" -> <<"f", "(", "a", ")">>
    [] stmt = "id" -> <<"x">>
    [] stmt = "sum" -> <<"a", " ", "+", " ", "b">>
    [] stmt = "method" -> <<"o", ".", "m", "(", ")">>

CommentInputs ==
  [family : {"comment"}, place : {"leading", "trailing"}, lead : 0..1,
   stmt : {"assign", "call", "id", "sum", "method"}, newline : BOOLEAN]

CommentText(i) ==
  (IF i.lead = 1 THEN <<"y", " ", "=", " ", "2", NL>> ELSE << >>)
  \o (IF i.place = "leading" THEN <<"#", " ", "c", NL>> \o StatementText(i.stmt)
      ELSE StatementText(i.stmt) \o <<" ", "#", " ", "c">>)
  \o (IF i.newline THEN <<NL>> ELSE << >>)

\* the node the code block holds for the statement of a comment input
StatementNode(p, i) == p.arena[p.ret].lines[i.lead + 1]

\* the nodes that hold a comment in the given list
Holders(p, list) ==
  {n \in 1..Len(p.arena) :
     Len(CASE list = "pre_comments" -> p.arena[n].pre_comments
           [] list = "comments" -> p.arena[n].comments
           [] list = "post_comments" -> p.arena[n].post_comments) > 0}

\* C9 as stated: a comment alone on the line before a statement is attached
\* to the node of that statement, in its pre_comments
C9_LeadingCommentOnStatement ==
  (pc = "parsed" /\ inp.family = "comment" /\ inp.place = "leading") =>
    /\ ast.ok
    /\ Holders(ast, "pre_comments") = {StatementNode(ast, inp)}
    /\ Holders(ast, "comments") = {}
    /\ Holders(ast, "post_comments") = {}

\* C9, what the parser does: the comment is never attached to the node of the
\* statement that follows it, nor to a node inside that statement; it goes to
\* a node that starts before the comment (the code block or the EmptyNode of
\* a line)
C9_LeadingCommentElsewhere ==
  (pc = "parsed" /\ inp.family = "comment" /\ inp.place = "leading") =>
    /\ ast.ok
    /\ \A list \in {"pre_comments", "comments", "post_comments"} :
         \A n \in Holders(ast, list) :
           /\ n # StatementNode(ast, inp)
           /\ ast.arena[n].kind \in {"CodeBlockNode", "EmptyNode"}

\* '# c' before 'x = 1' has been parsed and the comment attached
C9_Witness ==
  /\ pc = "parsed"
  /\ code = <<"#", " ", "c", NL, "x", " ", "=", " ", "1", NL>>
  /\ ast.ok
  /\ \E list \in {"pre_comments", "comments", "post_comments"} : Holders(ast, list) # {}

\* C10 as stated: a comment after a statement on its line is attached to the
\* node of that statement, in its comments, and to no sub-expression
C10_TrailingCommentOnStatement ==
  (pc = "parsed" /\ inp.family = "comment" /\ inp.place = "trailing") =>
    /\ ast.ok
    /\ Holders(ast, "comments") = {StatementNode(ast, inp)}
    /\ Holders(ast, "pre_comments") = {}
    /\ Holders(ast, "post_comments") = {}

\* 'x = 1 # c' has been parsed and the comment attached
C10_Witness ==
  /\ pc = "parsed"
  /\ code = <<"x", " ", "=", " ", "1", " ", "#", " ", "c", NL>>
  /\ ast.ok
  /\ Holders(ast, "comments") # {}

InitParse ==
  \/ \E i \in CmpInputs : Start(i, CmpText(i))
  \/ \E i \in CallInputs : Start(i, CallText(i))
  \/ \E i \in TernaryInputs : Start(i, TernaryText(i))
  \/ \E i \in BlockInputs : Start(i, BlockText(i))
  \/ \E i \in CommentInputs : Start(i, CommentText(i))

SpecParse == InitParse /\ [][NextParse]_vars


(***************************************************************************)
(* Programs with comments in every place: alone on a line before, between  *)
(* and after the statements, after a statement on its line, and inside     *)
(* the brackets of a call or an array.                                     *)
(***************************************************************************)
CommentPlaces == {"before", "inside", "trailing", "between", "after"}

CommentedInputs ==
  [family : {"commented"}, first : {"assign", "call", "array"},
   second : {"none", "id", "call"}, places : SUBSET CommentPlaces,
   newline : BOOLEAN]

\* the comment of a place, when the input has one there
CommentAt(i, place, text) == IF place \in i.places THEN text ELSE << >>

FirstStatement(i) ==
  CASE i.first = "assign" -> <<"x", " ", "=", " ", "1">>
    [] i.first = "call" -> <<"f", "(", "a">> \o CommentAt(i, "inside", <<" ", "#", " ", "i", NL>>) \o <<")">>
    [] i.first = "array" -> <<"x", " ", "=", " ", "[", "1">> \o CommentAt(i, "inside", <<" ", "#", " ", "i", NL>>) \o <<"]">>

CommentedText(i) ==
  CommentAt(i, "before", <<"#", " ", "b", NL>>)
  \o FirstStatement(i) \o CommentAt(i, "trailing", <<" ", "#", " ", "t">>) \o <<NL>>
  \o CommentAt(i, "between", <<" ", " ", "#", " ", "m", NL>>)
  \o (CASE i.second = "none" -> << >>
        [] i.second = "id" -> <<"y">>
        [] i.second = "call" -> <<"g", "(", ")">>)
  \o CommentAt(i, "after", (IF i.second = "none" THEN << >> ELSE <<NL>>) \o <<"#", " ", "e">>)
  \o (IF i.newline THEN <<NL>> ELSE << >>)

InitComments == \E i \in CommentedInputs : Start(i, CommentedText(i))

SpecComments == InitComments /\ [][NextParse]_vars

\* the places (node, list, index) where the parsed tree holds the comment c
PlacesOf(p, c) ==
  {<<n, list, k>> \in (1..Len(p.arena)) \X {"pre_comments", "comments", "post_comments"}
                       \X (1..Len(p.lexer.comments)) :
     LET held == CASE list = "pre_comments" -> p.arena[n].pre_comments
                   [] list = "comments" -> p.arena[n].comments
                   [] list = "post_comments" -> p.arena[n].post_comments
     IN k <= Len(held) /\ held[k] = c}

\* the comments the lexer collected
LexedComments(p) == {p.lexer.comments[k] : k \in 1..Len(p.lexer.comments)}

\* C11: after a successful parse every comment of the lexer is held exactly
\* once, by a node of the parser's node set, and the assertion that ends
\* attach_comment never fails
C11_EveryCommentAttachedOnce ==
  (pc = "parsed" /\ inp.family = "commented") =>
    /\ ast.err # [kind |-> "AssertionError"]
    /\ ast.ok =>
         \A c \in LexedComments(ast) :
           /\ Cardinality(PlacesOf(ast, c)) = 1
           /\ \A pl \in PlacesOf(ast, c) : pl[1] \in ast.nodes

\* a program with a comment in each of the five places has been parsed
C11_Witness ==
  /\ pc = "parsed"
  /\ inp.family = "commented"
  /\ inp.places = CommentPlaces
  /\ ast.ok
  /\ Cardinality(LexedComments(ast)) = 5

\* the comment's start lies in the span of some node
Enclosed(p, c) ==
  \E n \in p.nodes : p.arena[n].bytespan[1] <= c.bytespan[1]
                     /\ c.bytespan[1] <= p.arena[n].bytespan[2]

\* the nodes whose span ends at or before the comment's start
EndingBefore(p, c) == {n \in p.nodes : p.arena[n].bytespan[2] <= c.bytespan[1]}

\* the comment is among the leading comments of node n
LeadingOf(p, c, n) ==
  \E k \in 1..Len(p.arena[n].pre_comments) : p.arena[n].pre_comments[k] = c

\* C20 as stated: a comment that no node encloses is a leading comment of
\* the closest node before it, the one whose span ends nearest to the
\* comment's start among the nodes ending at or before it
C20_ClosestNodeBefore ==
  (pc = "parsed" /\ inp.family = "commented" /\ ast.ok) =>
    \A c \in LexedComments(ast) :
      (~Enclosed(ast, c) /\ EndingBefore(ast, c) # {}) =>
        \E n \in EndingBefore(ast, c) :
          /\ LeadingOf(ast, c, n)
          /\ \A m \in EndingBefore(ast, c) :
               ast.arena[m].bytespan[2] <= ast.arena[n].bytespan[2]

\* a comment that no node encloses has been attached as a leading comment
C20_Witness ==
  /\ pc = "parsed"
  /\ inp.family = "commented"
  /\ ast.ok
  /\ \E c \in LexedComments(ast) :
       /\ ~Enclosed(ast, c)
       /\ \E n \in EndingBefore(ast, c) : LeadingOf(ast, c, n)

(***************************************************************************)
(* Calls with keyword arguments: a function or a method call with an       *)
(* optional positional argument and up to MaxKwargs keyword arguments      *)
(* named a or b.                                                           *)
(***************************************************************************)
MaxKwargs == 3

KwargInputs ==
  [family : {"kwargs"}, callee : {"function", "method"}, positional : BOOLEAN,
   names : UNION {[1..n -> {"a", "b"}] : n \in 0..MaxKwargs}, wide : BOOLEAN]

RECURSIVE KwargsText(_, _)
KwargsText(i, k) ==
  IF k > Len(i.names) THEN << >>
  ELSE <<i.names[k]>> \o (IF i.wide THEN <<" ", ":", " ">> ELSE <<":">>) \o <<DigitChar(k)>>
       \o (IF k < Len(i.names) THEN <<",", " ">> ELSE << >>)
       \o KwargsText(i, k + 1)

KwargText(i) ==
  (IF i.callee = "function" THEN <<"f", "(">> ELSE <<"o", ".", "m", "(">>)
  \o (IF i.positional THEN (IF Len(i.names) > 0 THEN <<"0", ",", " ">> ELSE <<"0">>) ELSE << >>)
  \o KwargsText(i, 1) \o <<")">>

InitKwargs == \E i \in KwargInputs : Start(i, KwargText(i))

SpecKwargs == InitKwargs /\ [][NextParse]_vars

\* the keyword arguments of an input whose name was given before
Repeated(names) == {k \in 1..Len(names) : \E j \in 1..(k - 1) : names[j] = names[k]}

\* the warnings that name a key
NamingWarnings(p) ==
  {k \in 1..Len(p.lexer.warnings) : p.lexer.warnings[k].name # << >>}

\* C12 as stated: a call that repeats a keyword name parses, and each
\* repetition sends exactly one warning to the sink, which names the key
C12_OneWarningPerDuplicate ==
  (pc = "parsed" /\ inp.family = "kwargs") =>
    /\ ast.ok
    /\ Len(ast.lexer.warnings) = Cardinality(Repeated(inp.names))
    /\ \A k \in 1..Len(ast.lexer.warnings) : ast.lexer.warnings[k].name # << >>

\* the messages of the repetitions in names from the k-th argument on
RECURSIVE DuplicateMessages(_, _)
DuplicateMessages(names, k) ==
  IF k > Len(names) THEN << >>
  ELSE (IF k \in Repeated(names)
          THEN << [text |-> "Keyword argument defined multiple times.", name |-> <<names[k]>>],
                  [text |-> "This will be an error in future Meson releases.", name |-> << >>] >>
          ELSE << >>)
       \o DuplicateMessages(names, k + 1)

\* C12, what the parser does: the call parses, and each repetition of a
\* keyword name sends two warnings to the sink, the first naming the
\* repeated key and the second announcing the future error; exactly one
\* warning per repetition names the key
C12_TwoWarningsPerDuplicate ==
  (pc = "parsed" /\ inp.family = "kwargs") =>
    /\ ast.ok
    /\ ast.lexer.warnings = DuplicateMessages(inp.names, 1)
    /\ Cardinality(NamingWarnings(ast)) = Cardinality(Repeated(inp.names))

\* 'f(a : 1, a : 2)' has been parsed and its warnings sent
C12_Witness ==
  /\ pc = "parsed"
  /\ code = <<"f", "(", "a", " ", ":", " ", "1", ",", " ", "a", " ", ":", " ", "2", ")">>
  /\ ast.ok
  /\ Len(ast.lexer.warnings) > 0

(***************************************************************************)
(* String values: a StringNode of value v is rendered by a formatter and   *)
(* the emitted text is lexed again.  v ranges over the texts of at most    *)
(* MaxValueLen characters, among them the three that escape translates     *)
(* and letters and digits that form an escape sequence after a backslash.  *)
(***************************************************************************)
MaxValueLen == 3

ValueChars == {QUOTE, BSL, NL, "n", "0", "x"}

StringInputs ==
  [family : {"string"}, value : UNION {[1..n -> ValueChars] : n \in 0..MaxValueLen}]

InitString == \E i \in StringInputs : Start(i, << >>)

\* a tree that is one StringNode of value v
StringArena(v) == << ElementaryNode("StringNode", Token("string", 0, 1, 0, <<0, 0>>, v)) >>

\* node.accept(formatter); formatter.end() on the StringNode of the input
DoEmitString ==
  /\ pc = "start"
  /\ inp.family = "string"
  /\ \E fm \in Formatters :
       /\ formatter' = fm
       /\ lines' = Format(fm, StringArena(inp.value), 1)
  /\ pc' = "emitted"
  /\ UNCHANGED <<inp, code, ast, ast2, lines2>>

\* Lexer(text).lex(filename) run to its end on the emitted text
DoLexString ==
  /\ pc = "emitted"
  /\ code' = JoinLines(lines)
  /\ ast' = Lex(JoinLines(lines))
  /\ pc' = "lexed"
  /\ UNCHANGED <<inp, formatter, lines, ast2, lines2>>

NextString == DoEmitString \/ DoLexString

SpecString == InitString /\ [][NextString]_vars

\* C13: the text emitted for a StringNode of value v lexes to one string
\* token whose decoded value is v
C13_EscapeRoundTrip ==
  (pc = "lexed" /\ inp.family = "string") =>
    /\ ast.err = NoErr
    /\ Len(ast.toks) = 1
    /\ ast.toks[1].tid = "string"
    /\ ast.toks[1].value = inp.value

\* a value with a quote, a backslash and a newline has been emitted and lexed
C13_Witness ==
  /\ pc = "lexed"
  /\ inp.family = "string"
  /\ inp.value = <<QUOTE, BSL, NL>>
  /\ code = <<QUOTE, BSL, QUOTE, BSL, BSL, BSL, "n", QUOTE>>
  /\ Len(ast.toks) = 1

(***************************************************************************)
(* The lexer alone: Lexer(code).lex(filename) is run to its end on texts   *)
(* of at most MaxTextLen characters.  The bracket texts are made of the    *)
(* six brackets, the newline and a letter.                                 *)
(***************************************************************************)
MaxTextLen == 3

TextsOver(chars, n) == UNION {[1..k -> chars] : k \in 0..n}

BracketInputs ==
  [family : {"brackets"},
   text : TextsOver({"(", ")", "[", "]", "{", "}", NL, "a"}, MaxTextLen)]

\* list(Lexer(code).lex(filename))
DoLex ==
  /\ pc = "start"
  /\ inp.family \in {"brackets", "unmatched", "pieces"}
  /\ ast' = Lex(code)
  /\ pc' = "lexed"
  /\ UNCHANGED <<inp, code, formatter, lines, ast2, lines2>>

\* the number of ch among the first k characters of a text
CountBefore(text, ch, k) == Cardinality({j \in 1..k : text[j] = ch})

\* the counter of a bracket pair at offset k: openers less closers before it
Counter(text, open, close, k) == CountBefore(text, open, k) - CountBefore(text, close, k)

\* the three counters at offset k
Counters(text, k) ==
  {Counter(text, "(", ")", k), Counter(text, "[", "]", k), Counter(text, "{", "}", k)}

\* the lexer emitted an 'eol' token for the character at offset k
EolAt(lx, k) == \E t \in 1..Len(lx.toks) : lx.toks[t].tid = "eol" /\ lx.toks[t].bytespan[1] = k

\* the offsets of the newlines of a text
Newlines(text) == {k \in 0..(Len(text) - 1) : text[k + 1] = NL}

\* C16 as stated: a newline gets an 'eol' token exactly when the three
\* counters are zero where it stands
C16_EolIffCountersZero ==
  (pc = "lexed" /\ inp.family = "brackets") =>
    \A k \in Newlines(code) : EolAt(ast, k) <=> Counters(code, k) = {0}

\* C16, what the lexer does: a newline gets an 'eol' token exactly when none
\* of the three counters is above zero where it stands; a counter is below
\* zero after a closing bracket that nothing opened, and the newline is
\* emitted then too
C16_EolIffNoCounterPositive ==
  (pc = "lexed" /\ inp.family = "brackets") =>
    /\ ast.err = NoErr
    /\ \A k \in Newlines(code) : EolAt(ast, k) <=> (\A n \in Counters(code, k) : n <= 0)

\* newline '[' newline has been lexed: the first newline is emitted and the
\* second one swallowed
C16_Witness ==
  /\ pc = "lexed"
  /\ code = <<NL, "[", NL>>
  /\ EolAt(ast, 0)
  /\ ~EolAt(ast, 2)

(***************************************************************************)
(* Texts with a character no token pattern matches: '$' among letters,     *)
(* blanks, newlines and opening parentheses.                               *)
(***************************************************************************)
UnmatchedInputs ==
  [family : {"unmatched"}, text : TextsOver({"a", " ", NL, "$", "("}, MaxTextLen)]

\* the offset of the first character that no pattern matches, -1 if none
FirstUnmatched(text) == PyFind(text, "$", 0)

\* the offset at which the line of offset k starts
LineStartOf(text, k) ==
  LET S == {j \in 1..k : text[j] = NL}
  IN IF S = {} THEN 0 ELSE CHOOSE j \in S : \A i \in S : i <= j

\* the number of the line of offset k
LineNumberOf(text, k) == 1 + CountBefore(text, NL, k)

\* C18 as stated: when no pattern matches at offset p the lexer fails with
\* an error that carries the line number and the column of p
C18_UnmatchedPositionReported ==
  (pc = "lexed" /\ inp.family = "unmatched" /\ FirstUnmatched(code) # -1) =>
    /\ ast.err # NoErr
    /\ ast.err.lineno = LineNumberOf(code, FirstUnmatched(code))
    /\ ast.err.colno = FirstUnmatched(code) - LineStartOf(code, FirstUnmatched(code))

\* C18, the part the lexer keeps: it fails with the ParseException 'lexer'
\* that carries the line number of p; the tokens before p have been emitted
C18_UnmatchedLineReported ==
  (pc = "lexed" /\ inp.family = "unmatched" /\ FirstUnmatched(code) # -1) =>
    /\ ast.err # NoErr
    /\ ast.err.kind = "ParseException"
    /\ ast.err.text = "lexer"
    /\ ast.err.lineno = LineNumberOf(code, FirstUnmatched(code))
    /\ ast.loc = FirstUnmatched(code)

\* 'a$' has been lexed: the error for the '$' at column 1 carries column 0,
\* the column of the token 'a' matched before it
C18_Witness ==
  /\ pc = "lexed"
  /\ code = <<"a", "$">>
  /\ ast.err # NoErr
  /\ ast.err.lineno = 1
  /\ ast.err.colno = 0

(***************************************************************************)
(* An ArgumentNode under the calls of its interface.  The arena holds the  *)
(* nodes handed to the calls (two IdNodes, a NumberNode and an EmptyNode)  *)
(* and the ArgumentNode itself; inp.calls records the calls made so far,   *)
(* at most MaxCalls of them.                                               *)
(***************************************************************************)
MaxCalls == 4

ArgumentsInput == [family |-> "arguments", calls |-> << >>]

InitArguments == Start(ArgumentsInput, << >>)

\* the nodes handed to the calls, and the ArgumentNode they are made on
Node == [a |-> 1, b |-> 2, one |-> 3, empty |-> 4, arguments |-> 5]

ArgumentsArena ==
  << ElementaryNode("IdNode", Token("id", 0, 1, 0, <<0, 1>>, <<"a">>)),
     ElementaryNode("IdNode", Token("id", 0, 1, 2, <<2, 3>>, <<"b">>)),
     ElementaryNode("NumberNode", Token("number", 0, 1, 4, <<4, 5>>, 1)),
     EmptyNode(1, 6),
     ArgumentNode(Token("eof", 0, 1, 6, <<0, 0>>, None)) >>

\* ArgumentNode(token)
DoNewArguments ==
  /\ pc = "start"
  /\ inp.family = "arguments"
  /\ ast' = [NewParser(<< >>) EXCEPT !.arena = ArgumentsArena]
  /\ pc' = "calling"
  /\ UNCHANGED <<inp, code, formatter, lines, ast2, lines2>>

\* the guard of a call and the record of it
Called(name) ==
  /\ pc = "calling"
  /\ Len(inp.calls) < MaxCalls
  /\ inp' = [inp EXCEPT !.calls = Append(@, name)]
  /\ UNCHANGED <<code, pc, formatter, lines, ast2, lines2>>

DoAppend ==
  /\ Called("append")
  /\ \E given \in {Node.a, Node.one, Node.empty} :
       ast' = Arg_append(ast, Node.arguments, given)

DoPrepend ==
  /\ Called("prepend")
  /\ \E given \in {Node.a, Node.one, Node.empty} :
       ast' = Arg_prepend(ast, Node.arguments, given)

DoSetKwarg ==
  /\ Called("set_kwarg")
  /\ \E name \in {Node.a, Node.b} :
       ast' = Arg_set_kwarg(ast, Node.arguments, name, Node.one)

DoSetKwargNoCheck ==
  /\ Called("set_kwarg_no_check")
  /\ \E name \in {Node.a, Node.one} :
       ast' = Arg_set_kwarg_no_check(ast, Node.arguments, name, Node.one)

NextArguments ==
  DoNewArguments \/ DoAppend \/ DoPrepend \/ DoSetKwarg \/ DoSetKwargNoCheck

SpecArguments == InitArguments /\ [][NextArguments]_vars

\* a positional argument was appended or prepended after a keyword argument
\* was set
PositionalAfterKeyword(calls) ==
  \E i, j \in 1..Len(calls) :
    /\ i < j
    /\ calls[i] \in {"set_kwarg", "set_kwarg_no_check"}
    /\ calls[j] \in {"append", "prepend"}

\* C19: order_error is true exactly when some append or prepend was made
\* after a keyword argument was set: every such call leaves it true, nothing
\* sets it back, and it is false until the first such call
C19_OrderErrorTracksCalls ==
  (pc = "calling" /\ inp.family = "arguments") =>
    (ast.arena[Node.arguments].order_error <=> PositionalAfterKeyword(inp.calls))

\* a keyword argument was set and an EmptyNode appended after it: the flag
\* is up and no positional argument is stored
C19_Witness ==
  /\ pc = "calling"
  /\ inp.family = "arguments"
  /\ inp.calls = <<"set_kwarg", "append">>
  /\ ast.arena[Node.arguments].arguments = << >>
  /\ ast.arena[Node.arguments].order_error

(***************************************************************************)
(* Programs handed to the formatters: one or two of every construct the    *)
(* visitors render, and one text that does not parse.                      *)
(***************************************************************************)
Programs ==
  << <<"x", " ", "=", " ", "1">>,
     <<"x", " ", "=", " ", "a", " ", "+", " ", "b", " ", "*", " ", "c">>,
     <<"x", " ", "=", " ", "a", " ", "n", "o", "t", " ", "i", "n", " ", "b">>,
     <<"x", " ", "=", " ", "n", "o", "t", " ", "a">>,
     <<"x", " ", "=", " ", "-", "a">>,
     <<"x", " ", "=", " ", "a", " ", "=", "=", " ", "b", " ", "a", "n", "d", " ", "c", " ", "o", "r", " ", "d">>,
     <<"x", " ", "=", " ", "(", "1", " ", "+", " ", "2", ")", " ", "*", " ", "3">>,
     <<"x", " ", "+", "=", " ", "1">>,
     <<"x", " ", "=", " ", "a", " ", "?", " ", "b", " ", ":", " ", "c">>,
     <<"f", "(", ")">>,
     <<"f", "(", "1", ",", " ", "2", ")">>,
     <<"f", "(", "1", ",", " ", "k", " ", ":", " ", "2", ")">>,
     <<"x", " ", "=", " ", "[", "1", ",", " ", "2", "]">>,
     <<"x", " ", "=", " ", "[", "]">>,
     <<"x", " ", "=", " ", "{", "'", "a", "'", " ", ":", " ", "1", "}">>,
     <<"x", " ", "=", " ", "a", ".", "b", "(", "c", ")">>,
     <<"x", " ", "=", " ", "a", "[", "0", "]">>,
     <<"x", " ", "=", " ", "'", "i", "t", BSL, "'", "s", "'">>,
     <<"x", " ", "=", " ", "'", "a", BSL, BSL, "b", "'">>,
     <<"x", " ", "=", " ", "f", "'", "a", "@", "b", "@", "'">>,
     <<"x", " ", "=", " ", "f", "'", "a", BSL, BSL, "b", "'">>,
     <<"x", " ", "=", " ", "f", "'", "a", BSL, "'", "b", "'">>,
     <<"x", " ", "=", " ", "'", "'", "'", "m", "'", "'", "'">>,
     <<"x", " ", "=", " ", "f", "'", "'", "'", "m", "'", "'", "'">>,
     <<"i", "f", " ", "a", NL, " ", " ", "x", " ", "=", " ", "1", NL, "e", "n", "d", "i", "f">>,
     <<"i", "f", " ", "a", NL, " ", " ", "x", " ", "=", " ", "1", NL, "e", "l", "s", "e", NL, " ", " ", "z", " ", "=", " ", "3", NL, "e", "n", "d", "i", "f">>,
     <<"i", "f", " ", "a", NL, " ", " ", "x", " ", "=", " ", "1", NL, "e", "l", "i", "f", " ", "b", NL, " ", " ", "y", " ", "=", " ", "2", NL, "e", "n", "d", "i", "f">>,
     <<"f", "o", "r", "e", "a", "c", "h", " ", "i", " ", ":", " ", "l", NL, " ", " ", "f", "(", "i", ")", NL, "e", "n", "d", "f", "o", "r", "e", "a", "c", "h">>,
     <<"f", "o", "r", "e", "a", "c", "h", " ", "k", ",", " ", "v", " ", ":", " ", "d", NL, " ", " ", "c", "o", "n", "t", "i", "n", "u", "e", NL, " ", " ", "b", "r", "e", "a", "k", NL, "e", "n", "d", "f", "o", "r", "e", "a", "c", "h">>,
     <<"f", "o", "r", "e", "a", "c", "h", " ", "i", " ", ":", " ", "l", NL, " ", " ", "i", "f", " ", "a", NL, " ", " ", " ", " ", "f", "(", "i", ")", NL, " ", " ", "e", "n", "d", "i", "f", NL, "e", "n", "d", "f", "o", "r", "e", "a", "c", "h">>,
     <<"x", " ", "=", " ", "1", " ", "#", " ", "c", NL, "y", " ", "=", " ", "2", NL>>,
     <<>>,
     <<"x", " ", "=", " ", "1", NL, NL, "y", " ", "=", " ", "2", NL>>,
     <<"x", " ", "=", " ", "(", "a">> >>

ProgramInputs == [family : {"program"}, k : 1..Len(Programs)]

Init == \E i \in ProgramInputs : Start(i, Programs[i.k])

Next == DoParse \/ DoFormat \/ DoReparse \/ DoReformat

Spec == Init /\ [][Next]_vars

\* the structural tree of a parse result: kinds, operators, names, literal
\* values and child order, without comments, positions and spans
TreeOf(p) == Tree(p.arena, p.ret)

\* C1 as stated: the text a formatter emits for a parsed tree parses again,
\* to a tree structurally equal to the first one
C1_RoundTripTree ==
  pc \in {"reparsed", "done"} => (ast2.ok /\ TreeOf(ast2) = TreeOf(ast))

\* a formatted text has been parsed again, to the tree it was rendered from
C1_Witness ==
  /\ pc = "reparsed"
  /\ ast2.ok
  /\ TreeOf(ast2) = TreeOf(ast)
  /\ Len(TreeOf(ast).lines) > 0

\* C2 as stated: the lines of the second formatting pass are those of the
\* first one
C2_FixedPoint == pc = "done" => lines2 = lines

\* a second formatting pass has given the lines of the first one
C2_Witness ==
  /\ pc = "done"
  /\ lines2 = lines
  /\ Len(lines) > 0


(***************************************************************************)
(* Every grammar path: the programs handed to the formatters, the          *)
(* expressions, the comparison, call, ternary and block inputs and the     *)
(* calls with keyword arguments, each parsed once.                         *)
(***************************************************************************)
PathPrograms ==
  <<
     <<"i", "f", " ", "a", ".", "b", "(", "1", ")", "[", "0", "]", NL, " ",
       " ", "f", "o", "r", "e", "a", "c", "h", " ", "i", " ", ":", " ", "f",
       "(", "x", ",", " ", "k", " ", ":", " ", "2", ")", NL, " ", " ", " ",
       " ", "y", " ", "+", "=", " ", "i", NL, " ", " ", "e", "n", "d", "f",
       "o", "r", "e", "a", "c", "h", NL, "e", "l", "i", "f", " ", "c", NL,
       " ", " ", "z", " ", "=", " ", "[", "1", ",", " ", "2", "]", NL, "e",
       "l", "s", "e", NL, " ", " ", "w", " ", "=", " ", "{", "a", " ", ":",
       " ", "1", "}", NL, "e", "n", "d", "i", "f", NL>>,
     <<"x", " ", "=", " ", "a", ".", "b", "(", "1", ")", ".", "c", "(", "2",
       ")", "[", "3", "]", ".", "d", "(", ")">>,
     <<"f", "o", "r", "e", "a", "c", "h", " ", "k", ",", " ", "v", " ", ":",
       " ", "d", NL, " ", " ", "i", "f", " ", "k", NL, " ", " ", " ", " ",
       "c", "o", "n", "t", "i", "n", "u", "e", NL, " ", " ", "e", "n", "d",
       "i", "f", NL, "e", "n", "d", "f", "o", "r", "e", "a", "c", "h", NL>>,
     <<"i", "f", " ", "a", NL, " ", " ", "y", " ", "=", " ", "1", NL, "e",
       "n", "d", "i", "f", NL>>
  >>

PathInputs == [family : {"path"}, n : 1..Len(PathPrograms)]

InitPaths == \E i \in PathInputs : Start(i, PathPrograms[i.n])

\* programs that do not parse: an error on the last line of a text without
\* a final newline, on a line that ends with a newline, after a target that
\* started on an earlier line, inside an open block, and in the lexer
ErrorPrograms ==
  << <<"a", " ", "b">>, <<"a", " ", "b", NL>>, <<"[", "a", ",", NL, "b", "]", " ", "=", " ", "1", NL>>, <<"(", "a", NL, ")", " ", "+", "=", " ", "1", NL, "c">>, <<"x", " ", "=", " ", "(", "1", NL>>,
     <<"i", "f", " ", "a", NL, "x", " ", "=", " ", "1", NL, "e", "n", "d", "f", "o", "r", "e", "a", "c", "h", NL>>, <<"i", "f", " ", "a", NL, "x", " ", "=", " ", "1", NL, "e", "n", "d", "f", "o", "r", "e", "a", "c", "h">>, <<"x", " ", "=", " ", "1", NL, "y", " ", "=", " ", "$", NL>>, <<"x", " ", "=", " ", "1", NL, "y", " ", "=", " ", "$">> >>

ErrorInputs == [family : {"error"}, n : 1..Len(ErrorPrograms)]

InitErrors == \E i \in ErrorInputs : Start(i, ErrorPrograms[i.n])

InitGrammar == Init \/ InitExpr \/ InitParse \/ InitKwargs \/ InitPaths \/ InitErrors

SpecGrammar == InitGrammar /\ [][NextParse]_vars

\* C14: no assertion on the position stack ever fails: every end() finds a
\* token to pop, and when parse() finishes the stack is empty
C14_StackBalanced ==
  (pc = "parsed") =>
    /\ ast.err # [kind |-> "AssertionError"]
    /\ ast.ok => ast.stack = << >>

\* the kinds of the nodes of a parsed program
Kinds(p) == {p.arena[n].kind : n \in 1..Len(p.arena)}

\* a program with if, elif and else clauses, a foreach block, a method call,
\* an index and an argument list has been parsed
C14_Witness ==
  /\ pc = "parsed"
  /\ ast.ok
  /\ ast.stack = << >>
  /\ {"IfClauseNode", "IfNode", "ForeachClauseNode", "MethodNode", "IndexNode",
      "FunctionNode", "ArgumentNode", "PlusAssignmentNode"} \subseteq Kinds(ast)


\* the child nodes of node n
Children(arena, n) ==
  LET x == arena[n]
      k == x.kind
      seq(ns) == {ns[i] : i \in 1..Len(ns)}
  IN CASE k \in {"ArrayNode", "DictNode"} -> {x.args}
       [] k = "ArgumentNode" ->
            seq(x.arguments) \cup UNION {{x.kwargs[i][1], x.kwargs[i][2]} : i \in 1..Len(x.kwargs)}
       [] k \in {"OrNode", "AndNode", "ComparisonNode", "ArithmeticNode"} -> {x.left, x.right}
       [] k \in {"NotNode", "UMinusNode", "AssignmentNode", "PlusAssignmentNode"} -> {x.value}
       [] k = "CodeBlockNode" -> seq(x.lines)
       [] k = "IndexNode" -> {x.iobject, x.index}
       [] k = "MethodNode" -> {x.source_object, x.args}
       [] k = "FunctionNode" -> {x.args}
       [] k = "ForeachClauseNode" -> {x.items, x.block}
       [] k = "IfNode" -> {x.condition, x.block}
       [] k = "IfClauseNode" -> seq(x.ifs) \cup {x.elseblock}
       [] k = "ParenthesizedNode" -> {x.inner}
       [] k = "TernaryNode" -> {x.condition, x.trueblock, x.falseblock}
       [] OTHER -> {}

\* the span of node n encloses the span of node m
Encloses(arena, n, m) ==
  /\ arena[n].bytespan[1] <= arena[m].bytespan[1]
  /\ arena[m].bytespan[2] <= arena[n].bytespan[2]

\* C15 as stated: after a successful parse the span of every composite node
\* encloses the span of each of its children
C15_SpanEnclosesChildren ==
  (pc = "parsed" /\ ast.ok) =>
    \A n \in ast.nodes : \A m \in Children(ast.arena, n) \cap ast.nodes :
      Encloses(ast.arena, n, m)


\* 'if a' has been parsed: its IfNode has the span (13, 13), the place of
\* 'endif', and its condition the span (3, 4)
C15_Witness ==
  /\ pc = "parsed"
  /\ code = <<"i", "f", " ", "a", NL, " ", " ", "y", " ", "=", " ", "1", NL, "e", "n", "d", "i", "f", NL>>
  /\ ast.ok
  /\ \E n \in ast.nodes :
       /\ ast.arena[n].kind = "IfNode"
       /\ ast.arena[n].bytespan = <<13, 13>>
       /\ ast.arena[ast.arena[n].condition].bytespan = <<3, 4>>
       /\ ast.arena[ast.arena[n].block].bytespan = <<7, 13>>


InitLex ==
  \/ \E i \in BracketInputs : Start(i, i.text)
  \/ \E i \in UnmatchedInputs : Start(i, i.text)

SpecLex == InitLex /\ [][DoLex]_vars


\* the offset at which line number n of a text starts (lines count from 1)
StartOfLine(text, n) ==
  IF n = 1 THEN 0
  ELSE MinOf({k \in 1..Len(text) : text[k] = NL /\ CountBefore(text, NL, k) = n - 1}
             \cup {Len(text)})

\* the complete text of line number n, without its newline
LineText(text, n) ==
  LET a == StartOfLine(text, n)
      b == MinOf({k \in a..(Len(text) - 1) : text[k + 1] = NL} \cup {Len(text)})
  IN SubSeq(text, a + 1, b)

\* C17 as stated: the line text an exception carries is the complete text
\* of the source line whose number it carries; a BlockParseException also
\* carries the complete line on which the block started
C17_ErrorLineComplete ==
  (pc = "parsed" /\ ast.err.kind \in {"ParseException", "BlockParseException"}) =>
    /\ ast.err.line = LineText(code, ast.err.lineno)
    /\ ast.err.kind = "BlockParseException" =>
         ast.err.start_line = LineText(code, ast.err.start_lineno)

\* 'a b' has been parsed: the exception for line 1 carries the text 'a '
C17_Witness ==
  /\ pc = "parsed"
  /\ code = <<"a", " ", "b">>
  /\ ast.err.kind = "ParseException"
  /\ ast.err.lineno = 1
  /\ ast.err.line = <<"a", " ">>


\* the nodes reachable from node n of the tree, n included
RECURSIVE Reachable(_, _)
Reachable(arena, n) == {n} \cup UNION {Reachable(arena, m) : m \in Children(arena, n)}

\* C21 as stated: after a successful parse every node constructed during
\* the parse, and so every node reachable from the root, is in the parser's
\* node set and has a byte span
C21_EveryNodeRegistered ==
  (pc = "parsed" /\ ast.ok) =>
    \A n \in 1..Len(ast.arena) :
      /\ n \in ast.nodes
      /\ ast.arena[n].bytespan # NoSpan


\* 'x = a.b(1).c(2)[3].d()' has been parsed: the MethodNode of 'b', a link
\* of the chain reachable from the root, is not in the node set and has no
\* byte span
C21_Witness ==
  /\ pc = "parsed"
  /\ code = <<"x", " ", "=", " ", "a", ".", "b", "(", "1", ")", ".", "c", "(", "2", ")", "[", "3", "]", ".", "d", "(", ")">>
  /\ ast.ok
  /\ \E n \in Reachable(ast.arena, ast.ret) :
       /\ ast.arena[n].kind = "MethodNode"
       /\ ast.arena[n].name = <<"b">>
       /\ n \notin ast.nodes
       /\ ast.arena[n].bytespan = NoSpan


(***************************************************************************)
(* Nested blocks: a visitor of AstFormatter2 is started at some depth of   *)
(* indentation on a node of a parsed program.                              *)
(***************************************************************************)
MaxDepth == 2

\* programs with if, elif and else clauses, foreach blocks and keyword
\* arguments nested in one another
NestedPrograms ==
  << <<"i", "f", " ", "a", NL, " ", " ", "x", " ", "=", " ", "1", NL, "e", "l", "i", "f", " ", "b", NL, " ", " ", "i", "f", " ", "c", NL, " ", " ", " ", " ", "f", "(", "k", " ", ":", " ", "1", ")", NL, " ", " ", "e", "l", "s", "e", NL, " ", " ", " ", " ", "y", " ", "=", " ", "2", NL, " ", " ", "e", "n", "d", "i", "f", NL, "e", "l", "s", "e", NL, " ", " ", "f", "o", "r", "e", "a", "c", "h", " ", "i", " ", ":", " ", "l", NL, " ", " ", " ", " ", "i", "f", " ", "d", NL, " ", " ", " ", " ", " ", " ", "z", " ", "=", " ", "3", NL, " ", " ", " ", " ", "e", "n", "d", "i", "f", NL, " ", " ", "e", "n", "d", "f", "o", "r", "e", "a", "c", "h", NL, "e", "n", "d", "i", "f", NL>>,
     <<"f", "o", "r", "e", "a", "c", "h", " ", "i", " ", ":", " ", "l", NL, " ", " ", "i", "f", " ", "a", NL, " ", " ", " ", " ", "f", "(", "i", ",", " ", "k", " ", ":", " ", "g", "(", "m", " ", ":", " ", "2", ")", ")", NL, " ", " ", "e", "n", "d", "i", "f", NL, "e", "n", "d", "f", "o", "r", "e", "a", "c", "h", NL>>,
     <<"i", "f", " ", "f", "(", "a", " ", ":", " ", "1", ")", NL, " ", " ", "x", " ", "=", " ", "1", NL, "e", "n", "d", "i", "f", NL>> >>

NestedInputs == [family : {"nested"}, n : 1..Len(NestedPrograms)]

InitNested == \E i \in NestedInputs : Start(i, NestedPrograms[i.n])

\* d copies of the indentation unit
RECURSIVE Indentation(_, _)
Indentation(unit, d) == IF d = 0 THEN << >> ELSE unit \o Indentation(unit, d - 1)

\* the kinds of node whose visit changes the indentation
IndentingKinds == {"IfClauseNode", "IfNode", "ForeachClauseNode", "ArgumentNode"}

\* node.accept(formatter) on a node of the parsed program, by a formatter
\* whose current indentation is d units and whose buffer holds just that
DoVisit ==
  /\ pc = "parsed"
  /\ inp.family = "nested"
  /\ ast.ok
  /\ \E n \in ast.nodes, fm \in Formatters, d \in 0..MaxDepth :
       /\ fm.name = "AstFormatter2"
       /\ ast.arena[n].kind \in IndentingKinds
       /\ LET ind == Indentation(fm.config.indent_by, d)
              f == [AstFormatter2_init(fm.config) EXCEPT !.currindent = ind, !.currline = ind]
          IN /\ formatter' = [name |-> fm.name, config |-> fm.config, node |-> n, before |-> f]
             /\ ast2' = AstFormatter2_visit(ast.arena, n, f)
  /\ pc' = "visited"
  /\ UNCHANGED <<inp, code, ast, lines, lines2>>

SpecNested == InitNested /\ [][DoParse \/ DoVisit]_vars

\* the emitted lines that start with the prefix pre followed by a keyword
\* of an if clause
ClauseLines(ls, pre) ==
  {i \in 1..Len(ls) :
     \/ StartsWith(ls[i], pre \o <<"i", "f", " ">>, 0)
     \/ StartsWith(ls[i], pre \o <<"e", "l", "i", "f", " ">>, 0)
     \/ ls[i] = pre \o <<"e", "l", "s", "e">>
     \/ ls[i] = pre \o <<"e", "n", "d", "i", "f">>}

\* the number of keyword lines of the if clause n: one per branch, one for
\* an else block, one for endif
ClauseSize(arena, n) ==
  Len(arena[n].ifs) + (IF arena[arena[n].elseblock].kind # "EmptyNode" THEN 1 ELSE 0) + 1

\* C22: in AstFormatter2 the visit of an IfClauseNode, IfNode,
\* ForeachClauseNode or ArgumentNode returns with the current indentation
\* it was entered with, at any depth; the 'if', 'elif', 'else' and 'endif'
\* lines of one if clause all carry the indentation the clause was entered
\* with
C22_IndentRestored ==
  (pc = "visited") =>
    /\ ast2.currindent = formatter.before.currindent
    /\ (ast.arena[formatter.node].kind = "IfClauseNode"
          /\ formatter.config.indent_by # << >>) =>
         Cardinality(ClauseLines(ast2.lines, formatter.before.currindent))
           = ClauseSize(ast.arena, formatter.node)

\* an if clause with elif and else branches that holds a nested if clause
\* has been visited at depth 2 with a non-empty indentation unit
C22_Witness ==
  /\ pc = "visited"
  /\ ast.arena[formatter.node].kind = "IfClauseNode"
  /\ Len(ast.arena[formatter.node].ifs) = 2
  /\ ast.arena[ast.arena[formatter.node].elseblock].kind # "EmptyNode"
  /\ formatter.config.indent_by = <<" ", " ">>
  /\ formatter.before.currindent = <<" ", " ", " ", " ">>
  /\ ast2.currindent = <<" ", " ", " ", " ">>
  /\ Cardinality(ClauseLines(ast2.lines, <<" ", " ", " ", " ">>)) = 4
  /\ \E i \in 1..Len(ast2.lines) :
       StartsWith(ast2.lines[i], <<" ", " ", " ", " ", " ", " ">> \o <<"e", "n", "d", "i", "f">>, 0)


\* C23 as stated: a forced line break never appends an empty or
\* whitespace-only line: of the lines a formatter emits, every line but the
\* last, which end() appends, is non-blank
C23_NoBlankLineForced ==
  (pc = "formatted") =>
    \A i \in 1..(Len(lines) - 1) : ~IsBlank(lines[i])

\* a foreach block has been formatted by AstFormatter: the forced line
\* breaks of visit_ForeachClauseNode and visit_CodeBlockNode appended an
\* empty line before 'endforeach' and another one after it
C23_Witness ==
  /\ pc = "formatted"
  /\ formatter.name = "AstFormatter"
  /\ code = <<"f", "o", "r", "e", "a", "c", "h", " ", "i", " ", ":", " ", "l", NL, " ", " ", "f", "(", "i", ")", NL, "e", "n", "d", "f", "o", "r", "e", "a", "c", "h">>
  /\ lines = <<<<"f", "o", "r", "e", "a", "c", "h", " ", "i", " ", ":", " ", "l">>, <<"f", "(", "i", ")">>, << >>, <<"e", "n", "d", "f", "o", "r", "e", "a", "c", "h">>, << >>, << >> >>


(***************************************************************************)
(* Positions of tokens: texts of at most MaxPieces pieces, among them a    *)
(* string literal with a raw newline, a multi-line literal and a           *)
(* backslash-newline continuation.                                         *)
(***************************************************************************)
MaxPieces == 3

Pieces ==
  {<<"a">>, <<" ">>, <<NL>>, <<"#", "c">>, <<"'", "s", "'">>, <<"'", NL, "'">>, <<"'", "'", "'", "m", NL, "m", "'", "'", "'">>, <<BSL, NL>>, <<"(">>}

\* the pieces of ps one after the other
RECURSIVE Concat(_)
Concat(ps) == IF ps = << >> THEN << >> ELSE Head(ps) \o Concat(Tail(ps))

PieceInputs == [family : {"pieces"}, pieces : TextsOver(Pieces, MaxPieces)]

InitPieces == \E i \in PieceInputs : Start(i, Concat(i.pieces))

SpecPositions == InitPieces /\ [][DoLex]_vars

\* the record t carries the line number and the column of its first
\* character in the text
WellPlaced(text, t) ==
  /\ t.lineno = LineNumberOf(text, t.bytespan[1])
  /\ t.colno = t.bytespan[1] - LineStartOf(text, t.bytespan[1])

\* C24 as stated: every token and every comment the lexer produces carries
\* 1 plus the number of newlines before its first character as its line
\* number, and its offset from the character after the last newline before
\* it as its column
C24_TokensWellPlaced ==
  (pc = "lexed" /\ inp.family = "pieces") =>
    /\ \A i \in 1..Len(ast.toks) : WellPlaced(code, ast.toks[i])
    /\ \A i \in 1..Len(ast.comments) : WellPlaced(code, ast.comments[i])

\* a string literal with a raw newline followed by 'a' has been lexed: the
\* identifier on line 2, column 1 carries line 1 and column 3
C24_Witness ==
  /\ pc = "lexed"
  /\ code = <<"'", NL, "'", "a">>
  /\ ast.err = NoErr
  /\ Len(ast.toks) = 2
  /\ ast.toks[2].tid = "id"
  /\ ast.toks[2].lineno = 1
  /\ ast.toks[2].colno = 3
  /\ Len(ast.warnings) = 1


(***************************************************************************)
(* Operators without their right operand: an assignment whose value is an  *)
(* optional operand, then an optional operator, then the end of the line.  *)
(***************************************************************************)
DanglingOps ==
  {<<>>, <<"+">>, <<"-">>, <<"*">>, <<"/">>, <<"%">>, <<"=", "=">>, <<"!", "=">>, <<"<">>, <<"i", "n">>, <<"n", "o", "t", " ", "i", "n">>, <<"a", "n", "d">>, <<"o", "r">>, <<"n", "o", "t">>, <<"?", " ", "b", " ", ":">>}

DanglingInputs ==
  [family : {"dangling"}, assign : {<<"=">>, <<"+", "=">>},
   prefix : {<< >>, <<"n", "o", "t", " ">>, <<"-">>},
   left : {<< >>, <<"a">>, <<"1">>}, op : DanglingOps,
   tail : {<< >>, <<NL>>, <<NL, "y", " ", "=", " ", "1", NL>>}]

DanglingText(i) ==
  <<"x", " ">> \o i.assign \o <<" ">> \o i.prefix \o i.left \o <<" ">> \o i.op \o i.tail

InitDangling == \E i \in DanglingInputs : Start(i, DanglingText(i))

SpecDangling == InitDangling /\ [][NextParse]_vars

\* the operands of the operator node n; none for the other kinds
OperandsOf(arena, n) ==
  IF arena[n].kind \in {"ArithmeticNode", "ComparisonNode", "OrNode", "AndNode", "NotNode",
                        "UMinusNode", "AssignmentNode", "PlusAssignmentNode", "TernaryNode"}
    THEN Children(arena, n) ELSE {}

\* C25 as stated: in a successfully parsed tree no operator node has an
\* EmptyNode as an operand
C25_NoEmptyOperand ==
  (pc = "parsed" /\ ast.ok) =>
    \A n \in Reachable(ast.arena, ast.ret) : \A m \in OperandsOf(ast.arena, n) :
      ast.arena[m].kind # "EmptyNode"

\* 'x = 1 +' before a newline has been parsed without an error: the right
\* operand of the ArithmeticNode is an EmptyNode
C25_Witness ==
  /\ pc = "parsed"
  /\ code = <<"x", " ", "=", " ", "1", " ", "+", NL>>
  /\ ast.ok
  /\ \E n \in Reachable(ast.arena, ast.ret) :
       /\ ast.arena[n].kind = "ArithmeticNode"
       /\ ast.arena[ast.arena[n].left].kind = "NumberNode"
       /\ ast.arena[ast.arena[n].right].kind = "EmptyNode"

\* C26 as stated: a text in which 'not' stands where a comparison operator
\* may start and is not followed by 'in' does not parse
C26_NotNeedsIn ==
  (pc = "parsed" /\ inp.family = "dangling" /\ inp.left # << >>
     /\ inp.op = <<"n", "o", "t">>) => ~ast.ok

\* 'x = a not' before a newline and a second statement has been parsed as
\* 'x = a': the value of the assignment is the IdNode a
C26_Witness ==
  /\ pc = "parsed"
  /\ code = <<"x", " ", "=", " ", "a", " ", "n", "o", "t", NL, "y", " ", "=", " ", "1", NL>>
  /\ ast.ok
  /\ Tree(ast.arena, ast.ret).lines[1].kind = "AssignmentNode"
  /\ Tree(ast.arena, ast.ret).lines[1].value.kind = "IdNode"
  /\ Tree(ast.arena, ast.ret).lines[1].value.value = <<"a">>
  /\ Len(Tree(ast.arena, ast.ret).lines) = 2


\* C27 as stated: after a successful parse every node of the node set has
\* a byte span whose start is not after its end
C27_SpanOrdered ==
  (pc = "parsed" /\ ast.ok) =>
    \A n \in ast.nodes : ast.arena[n].bytespan[1] <= ast.arena[n].bytespan[2]

\* 'x = 1' has been parsed: the NumberNode, whose token is the last of the
\* input, has the span (4, 0)
C27_Witness ==
  /\ pc = "parsed"
  /\ code = <<"x", " ", "=", " ", "1">>
  /\ ast.ok
  /\ \E n \in ast.nodes :
       /\ ast.arena[n].kind = "NumberNode"
       /\ ast.arena[n].bytespan = <<4, 0>>


\* the node classes the formatter fm has a visit_ method for
Handlers(fm) ==
  IF fm.name = "AstFormatter" THEN AstFormatter_handlers ELSE AstFormatter2_handlers

\* C28 as stated: every node of a tree that is formatted is of a kind the
\* formatter has a visit handler for, so that accept() skips none (an
\* EmptyNode, which stands for nothing in the text, is left aside)
C28_EveryKindHandled ==
  (pc = "formatted") =>
    \A n \in Reachable(ast.arena, ast.ret) :
      ast.arena[n].kind # "EmptyNode" => ast.arena[n].kind \in Handlers(formatter)

\* 'x = (1 + 2) * 3' has been formatted by AstFormatter, which has no
\* handler for the ParenthesizedNode of the tree: the parentheses and what
\* they hold are missing from the line
C28_Witness ==
  /\ pc = "formatted"
  /\ formatter.name = "AstFormatter"
  /\ code = <<"x", " ", "=", " ", "(", "1", " ", "+", " ", "2", ")", " ", "*", " ", "3">>
  /\ \E n \in Reachable(ast.arena, ast.ret) :
       /\ ast.arena[n].kind = "ParenthesizedNode"
       /\ ast.arena[n].kind \notin Handlers(formatter)
  /\ lines = <<<<"x", " ", "=", " ", " ", "*", " ", "3">>, << >> >>


\* the outcomes of attaching the comments of the text c, one for every
\* iteration order of the node set
Outcomes(c) ==
  CHOOSE r \in { {AttachAll(p, key) : key \in IterationOrders(p)} : p \in {ParseTree(c)} } : TRUE

\* C29 as stated: two runs of the attachment over the same nodes and
\* comments that differ only in the iteration order of the node set attach
\* every comment to the same node and the same list: the outcome of a parse
\* is the only outcome there is
C29_AttachmentDeterministic ==
  (pc = "parsed" /\ inp.family = "commented" /\ ast.ok) => Outcomes(code) = {ast}

\* a commented text has been parsed in which two nodes are equally close
\* to a comment: the comment is on one of them, and under another iteration
\* order it is on the other
C29_Witness ==
  /\ pc = "parsed"
  /\ inp.family = "commented"
  /\ ast.ok
  /\ \E other \in Outcomes(code), n \in ast.nodes :
       /\ other.ok
       /\ ast.arena[n].pre_comments \o ast.arena[n].comments \o ast.arena[n].post_comments # << >>
       /\ other.arena[n].pre_comments \o other.arena[n].comments
            \o other.arena[n].post_comments = << >>

====
